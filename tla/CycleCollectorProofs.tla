------------------------ MODULE CycleCollectorProofs ------------------------
(***************************************************************************)
(* Proofs about the cycle collector of CycleCollector, for any number of   *)
(* variables and objects and any room for candidates: nothing it does is   *)
(* seen while the program runs, and at exit it frees what it should once.  *)
(***************************************************************************)
EXTENDS CycleCollector, FiniteSetTheorems, SequenceTheorems, TLAPS

\* The references to an object, and those of them that are variables of a
\* deinit_fn.
Refs(o) == {l \in Loc : loc[l] = o}
Inner(o) == {v \in Var : loc[v] = o /\ depth[v] > 0}

\* A live object is referred to and counts no more than its references, and
\* no fewer than a running deinit_fn holds.  No other object is counted.
CountsBounded ==
  \A o \in Obj :
    IF heap[o] = "live"
    THEN /\ refcount[o] >= 1
         /\ refcount[o] <= Cardinality(Refs(o))
         /\ refcount[o] >= Cardinality(Inner(o))
    ELSE refcount[o] = 0

\* What a variable of a deinit_fn holds is alive.
InnerAlive ==
  \A v \in Var : depth[v] > 0 /\ loc[v] # Null => heap[loc[v]] = "live"

\* Each object on the stack is being destroyed, once, and a variable of a
\* deinit_fn that has returned holds nothing.
Nested ==
  /\ \A i \in 1..Len(stack) : heap[stack[i]] = "dying"
  /\ \A i, j \in 1..Len(stack) : stack[i] = stack[j] => i = j
  /\ \A v \in Var : depth[v] > Len(stack) => loc[v] = Null

\* Before exit the collector has done nothing and all counts are exact.
BeforeExit ==
  phase = "run" =>
    /\ \A l \in Loc : loc[l] # Null => heap[loc[l]] = "live"
    /\ \A o \in Obj : refcount[o] = Cardinality(Refs(o))
    /\ pos = 1 /\ forced = Null /\ collected = {}

\* After exit only deinit_fn of the object at hand runs, and what it calls.
AtExit ==
  phase # "run" =>
    /\ forced = Null => stack = << >>
    /\ forced # Null => /\ stack # << >> /\ stack[Len(stack)] = forced
                        /\ phase = "exit"
                        /\ pos <= Len(cands) /\ cands[pos] = forced
    /\ phase = "exit" => pos <= Len(cands) + 1
    /\ phase = "done" => cands = << >>

\* What was collected is free and no candidate.
CollectedIsGone ==
  \A o \in collected :
    heap[o] = "free" /\ \A j \in 1..Len(cands) : cands[j] # o

Held(o) == \E v \in Var : loc[v] = o
Later(o) == \E j \in pos..Len(cands) : cands[j] = o
TwoFields(o) == \E f, g \in Obj : f # g /\ loc[f] = o /\ loc[g] = o

\* A live object that no variable holds is still to be looked at, or was
\* passed over because two fields refer to it.
Awaited ==
  ~dropped => \A o \in Obj :
    heap[o] = "live" =>
      Held(o) \/ Later(o) \/ (phase # "run" /\ TwoFields(o))

IInv == /\ TypeOK /\ CountsBounded /\ InnerAlive /\ Nested
        /\ BeforeExit /\ AtExit /\ CollectedIsGone /\ Awaited
-----------------------------------------------------------------------------
\* The references to an object can be counted.
LEMMA Counting ==
  ASSUME TypeOK, NEW o \in Obj
  PROVE  /\ IsFiniteSet(Refs(o)) /\ Cardinality(Refs(o)) \in Nat
         /\ IsFiniteSet(Inner(o)) /\ Cardinality(Inner(o)) \in Nat
         /\ Cardinality(Inner(o)) <= Cardinality(Refs(o))
<1>1. IsFiniteSet(Loc)
  BY FiniteAssumption, FS_Union DEF FiniteAssumption, Loc
<1>2. IsFiniteSet(Refs(o))
  BY <1>1, FS_Subset DEF Refs
<1>3. Inner(o) \in SUBSET Refs(o)
  BY DEF Inner, Refs, Loc
<1>4. IsFiniteSet(Inner(o)) /\ Cardinality(Inner(o)) <= Cardinality(Refs(o))
  BY <1>2, <1>3, FS_Subset
<1> QED
  BY <1>2, <1>4, FS_CardinalityType

\* A set of two or more has two different elements.
LEMMA TwoOfThem ==
  ASSUME NEW S, IsFiniteSet(S), Cardinality(S) >= 2
  PROVE  \E x, y \in S : x # y
<1>1. S # {}
  BY FS_EmptySet
<1>2. PICK x \in S : TRUE
  BY <1>1
<1>3. S # {x}
  BY FS_Singleton
<1> QED
  BY <1>2, <1>3

\* What an empty location d is given is referred to once more.
LEMMA Gained ==
  ASSUME TypeOK, NEW o \in Obj, NEW d \in Loc, loc[d] = Null,
         loc' = [loc EXCEPT ![d] = o],
         \A u \in Var : u # d => depth'[u] = depth[u]
  PROVE  /\ Cardinality(Refs(o)') = Cardinality(Refs(o)) + 1
         /\ Cardinality(Inner(o)') <= Cardinality(Inner(o)) + 1
         /\ Cardinality(Inner(o)') \in Nat
         /\ \A p \in Obj \ {o} : Refs(p)' = Refs(p) /\ Inner(p)' = Inner(p)
<1> USE NamesAssumption DEF NamesAssumption
<1>1. Refs(o)' = Refs(o) \cup {d} /\ d \notin Refs(o)
  BY DEF Refs, TypeOK
<1>2. \A p \in Obj \ {o} : Refs(p)' = Refs(p) /\ Inner(p)' = Inner(p)
  BY DEF Refs, Inner, TypeOK, Loc
<1>3. Inner(o)' \in SUBSET (Inner(o) \cup {d})
  BY DEF Inner, TypeOK, Loc
<1>4. Cardinality(Refs(o)') = Cardinality(Refs(o)) + 1
  BY <1>1, Counting, FS_AddElement
<1>5. /\ IsFiniteSet(Inner(o) \cup {d})
      /\ Cardinality(Inner(o) \cup {d}) <= Cardinality(Inner(o)) + 1
  <2>1. IsFiniteSet(Inner(o)) /\ Cardinality(Inner(o)) \in Nat
    BY Counting
  <2>2. IsFiniteSet(Inner(o) \cup {d})
    BY <2>1, FS_AddElement
  <2>3. Cardinality(Inner(o) \cup {d}) =
          IF d \in Inner(o) THEN Cardinality(Inner(o))
          ELSE Cardinality(Inner(o)) + 1
    BY <2>1, FS_AddElement
  <2> QED
    BY <2>1, <2>2, <2>3
<1>6. /\ IsFiniteSet(Inner(o)')
      /\ Cardinality(Inner(o)') <= Cardinality(Inner(o) \cup {d})
  BY <1>3, <1>5, FS_Subset
<1>7. /\ Cardinality(Inner(o)') \in Nat
      /\ Cardinality(Inner(o) \cup {d}) \in Nat
  BY <1>5, <1>6, FS_CardinalityType
<1> QED
  BY <1>2, <1>4, <1>5, <1>6, <1>7, Counting

\* What variable v held is referred to once less.
LEMMA Lost ==
  ASSUME TypeOK, NEW v \in Var, NEW o \in Obj, loc[v] = o,
         loc' = [loc EXCEPT ![v] = Null], depth' = depth
  PROVE  /\ Cardinality(Refs(o)') = Cardinality(Refs(o)) - 1
         /\ Cardinality(Inner(o)') =
              IF depth[v] > 0 THEN Cardinality(Inner(o)) - 1
              ELSE Cardinality(Inner(o))
         /\ \A p \in Obj \ {o} : Refs(p)' = Refs(p) /\ Inner(p)' = Inner(p)
         /\ Refs(o)' = Refs(o) \ {v} /\ v \in Refs(o)
         /\ Inner(o)' = Inner(o) \ {v} /\ (depth[v] > 0 <=> v \in Inner(o))
<1> USE NamesAssumption DEF NamesAssumption
<1>1. Refs(o)' = Refs(o) \ {v} /\ v \in Refs(o)
  BY DEF Refs, TypeOK, Loc
<1>2. Inner(o)' = Inner(o) \ {v} /\ (v \in Inner(o) <=> depth[v] > 0)
  BY DEF Inner, TypeOK, Loc
<1>3. \A p \in Obj \ {o} : Refs(p)' = Refs(p) /\ Inner(p)' = Inner(p)
  BY DEF Refs, Inner, TypeOK, Loc
<1>4. Cardinality(Refs(o)') = Cardinality(Refs(o)) - 1
  BY <1>1, Counting, FS_RemoveElement
<1>5. Cardinality(Inner(o)') =
        IF depth[v] > 0 THEN Cardinality(Inner(o)) - 1
        ELSE Cardinality(Inner(o))
  BY <1>2, Counting, FS_RemoveElement
<1> QED
  BY <1>1, <1>2, <1>3, <1>4, <1>5

\* The stack holds no object twice, so it is no longer than there are objects.
LEMMA StackBounded ==
  ASSUME TypeOK, Nested
  PROVE  /\ Len(stack) \in 0..Cardinality(Obj)
         /\ stack # << >> => Len(stack) > 0
<1>1. Len(stack) \in Nat /\ stack \in [1..Len(stack) -> Obj]
  BY LenProperties DEF TypeOK
<1>2. stack \in Injection(1..Len(stack), Obj)
  BY <1>1 DEF Nested, Injection, IsInjective
<1>3. Cardinality(1..Len(stack)) <= Cardinality(Obj)
  BY <1>2, FiniteAssumption, FS_Injection DEF FiniteAssumption
<1>4. Cardinality(1..Len(stack)) = Len(stack)
  BY <1>1, FS_Interval
<1>5. Cardinality(Obj) \in Nat
  BY FiniteAssumption, FS_CardinalityType DEF FiniteAssumption
<1>6. stack # << >> => Len(stack) > 0
  BY EmptySeq DEF TypeOK
<1> QED
  BY <1>1, <1>3, <1>4, <1>5, <1>6

\* deinit_fn begins before those it interrupts.
LEMMA Pushed ==
  ASSUME NEW s \in Seq(Obj), NEW o \in Obj
  PROVE  /\ <<o>> \o s \in Seq(Obj)
         /\ Len(<<o>> \o s) = Len(s) + 1
         /\ (<<o>> \o s)[1] = o
         /\ \A i \in 1..Len(s) : (<<o>> \o s)[i + 1] = s[i]
         /\ \A i \in 1..(Len(s) + 1) : i # 1 =>
              i - 1 \in 1..Len(s) /\ (<<o>> \o s)[i] = s[i - 1]
  OBVIOUS

\* deinit_fn returns to those it interrupted.
LEMMA Popped ==
  ASSUME NEW s \in Seq(Obj), s # << >>
  PROVE  /\ Len(s) \in Nat \ {0} /\ Head(s) = s[1] /\ s[1] \in Obj
         /\ Tail(s) \in Seq(Obj)
         /\ Len(Tail(s)) = Len(s) - 1
         /\ \A i \in 1..(Len(s) - 1) : Tail(s)[i] = s[i + 1]
         /\ Tail(s) = << >> <=> Len(s) = 1
<1>1. Len(s) \in Nat \ {0} /\ Head(s) = s[1] /\ s[1] \in Obj
  BY EmptySeq
<1>2. /\ Tail(s) \in Seq(Obj) /\ Len(Tail(s)) = Len(s) - 1
      /\ \A i \in 1..(Len(s) - 1) : Tail(s)[i] = s[i + 1]
  BY <1>1, HeadTailProperties
<1>3. Tail(s) = << >> <=> Len(s) = 1
  BY <1>1, <1>2, EmptySeq
<1> QED
  BY <1>1, <1>2, <1>3

\* A candidate is added behind the others.
LEMMA Appended ==
  ASSUME NEW c \in Seq(Obj \cup {Null}), NEW o \in Obj
  PROVE  /\ Append(c, o) \in Seq(Obj \cup {Null})
         /\ Len(Append(c, o)) = Len(c) + 1 /\ Len(c) \in Nat
         /\ \A j \in 1..Len(c) : Append(c, o)[j] = c[j]
         /\ Append(c, o)[Len(c) + 1] = o
  OBVIOUS
-----------------------------------------------------------------------------
\* What running code is about to release is alive, and after exit it is held
\* by a variable of a deinit_fn.
LEMMA HeldAlive ==
  ASSUME IInv, NEW v \in Var, Releases(v)
  PROVE  /\ loc[v] \in Obj /\ heap[loc[v]] = "live"
         /\ refcount[loc[v]] >= 1
         /\ phase # "run" => depth[v] > 0 /\ stack # << >>
<1> USE DEF IInv
<1>1. loc[v] \in Obj /\ v \in Loc
  BY DEF Releases, TypeOK, Loc
<1>2. phase # "run" => depth[v] > 0 /\ stack # << >>
  BY StackBounded DEF Releases, Running
<1>3. heap[loc[v]] = "live"
  BY <1>1, <1>2 DEF BeforeExit, InnerAlive, Releases
<1> QED
  BY <1>1, <1>2, <1>3 DEF CountsBounded

\* The collector looks at a candidate only when no deinit_fn runs.
LEMMA AtHand ==
  ASSUME IInv, Collecting
  PROVE  /\ forced = Null /\ phase = "exit" /\ Len(stack) = 0
         /\ pos \in Nat \ {0} /\ pos <= MaxCands + 1
         /\ Len(cands) \in Nat /\ Len(cands) <= MaxCands
         /\ pos <= Len(cands) + 1
  BY EmptySeq, LenProperties, CandsAssumption
  DEF IInv, TypeOK, Collecting, AtExit, CandsAssumption

LEMMA InitInv == Init => IInv
<1> SUFFICES ASSUME Init PROVE IInv
  OBVIOUS
<1> USE NamesAssumption DEF NamesAssumption
<1>1. /\ << >> \in Seq(Obj) /\ << >> \in Seq(Obj \cup {Null})
      /\ Len(<< >>) = 0
  BY EmptySeq
<1>2. Cardinality(Obj) \in Nat
  BY FiniteAssumption, FS_CardinalityType DEF FiniteAssumption
<1>3. TypeOK
  <2>1. 0 \in 0..Cardinality(Obj) /\ 1 \in 1..(MaxCands + 1) /\ 0 <= MaxCands
    BY <1>2, CandsAssumption DEF CandsAssumption
  <2>2. refcount \in [Obj -> Nat] /\ depth \in [Var -> 0..Cardinality(Obj)]
    BY <2>1 DEF Init
  <2> QED
    BY <1>1, <2>1, <2>2 DEF Init, TypeOK
<1>4. \A o \in Obj : Refs(o) = {}
  BY DEF Init, Refs, Loc
<1>5. \A o \in Obj : Cardinality(Refs(o)) = 0
  BY <1>4, FS_EmptySet
<1>6. CountsBounded /\ InnerAlive /\ BeforeExit /\ CollectedIsGone
  BY <1>5 DEF Init, CountsBounded, InnerAlive, BeforeExit, CollectedIsGone
<1>7. Nested /\ AtExit /\ Awaited
  BY <1>1 DEF Init, Nested, AtExit, Awaited
<1> QED
  BY <1>3, <1>6, <1>7 DEF IInv

\* Each action keeps the types.
LEMMA TypeStep == IInv /\ [Next]_vars => TypeOK'
<1> SUFFICES ASSUME IInv, [Next]_vars PROVE TypeOK'
  OBVIOUS
<1> USE NamesAssumption, CandsAssumption
    DEF NamesAssumption, CandsAssumption, TypeOK, IInv
<1>1. CASE UNCHANGED vars
  BY <1>1 DEF vars
<1>2. CASE Wild
  BY <1>2 DEF Wild
<1>3. ASSUME NEW v \in Var, NEW o \in Obj, Alloc(v, o) PROVE TypeOK'
  BY <1>3, StackBounded DEF Alloc, Loc
<1>4. ASSUME NEW o \in Obj, NEW d \in Loc, Retain(o, d) PROVE TypeOK'
  <2>1. Len(stack) \in 0..Cardinality(Obj)
    BY StackBounded
  <2>2. CASE heap[o] = "free"
    BY <1>2, <1>4, <2>2 DEF Retain
  <2>3. CASE heap[o] # "free" /\ refcount[o] <= 0
    BY <1>4, <2>3 DEF Retain
  <2>4. CASE heap[o] # "free" /\ ~(refcount[o] <= 0)
    <3>1. /\ refcount' = [refcount EXCEPT ![o] = @ + 1]
          /\ loc' = [loc EXCEPT ![d] = o]
          /\ depth' = [v \in Var |-> IF v = d THEN Len(stack) ELSE depth[v]]
      BY <1>4, <2>4 DEF Retain
    <3>2. /\ refcount' \in [Obj -> Nat] /\ loc' \in [Loc -> Obj \cup {Null}]
          /\ depth' \in [Var -> 0..Cardinality(Obj)]
      BY <2>1, <3>1
    <3> QED
      BY <1>4, <2>4, <3>2 DEF Retain
  <2> QED
    BY <2>2, <2>3, <2>4
<1>5. ASSUME NEW v \in Var, ReleaseLast(v) PROVE TypeOK'
  <2>1. loc[v] \in Obj /\ <<loc[v]>> \o stack \in Seq(Obj)
    BY <1>5, HeldAlive, Pushed DEF ReleaseLast
  <2> QED
    BY <1>5, <2>1 DEF ReleaseLast, Loc
<1>6. ASSUME NEW v \in Var, ReleaseCandidate(v) PROVE TypeOK'
  <2>1. loc[v] \in Obj /\ refcount[loc[v]] - 1 \in Nat
    BY <1>6, HeldAlive DEF ReleaseCandidate
  <2>2. /\ Entered(loc[v]) \in Seq(Obj \cup {Null})
        /\ Len(Entered(loc[v])) <= MaxCands
    BY <2>1, Appended, LenProperties DEF Entered, Room
  <2> QED
    BY <1>6, <2>1, <2>2 DEF ReleaseCandidate, Room, Loc
<1>7. CASE Free
  <2>1. Tail(stack) \in Seq(Obj) /\ Head(stack) \in Obj
    BY <1>7, Popped DEF Free
  <2>2. CASE Tail(stack) = << >> /\ forced # Null
    <3>1. /\ Len(cands) \in Nat
          /\ \A j \in 1..Len(cands) : cands[j] \in Obj \cup {Null}
      BY LenProperties, ElementOfSeq
    <3>2. Purged(forced) \in [1..Len(cands) -> Obj \cup {Null}]
      BY <3>1 DEF Purged
    <3>3. /\ Purged(forced) \in Seq(Obj \cup {Null})
          /\ Len(Purged(forced)) = Len(cands)
      BY <3>1, <3>2, SeqDef, LenProperties
    <3>4. pos + 1 \in 1..(MaxCands + 1)
      BY <2>2, <3>1 DEF AtExit, BeforeExit
    <3> QED
      BY <1>7, <2>1, <2>2, <3>3, <3>4 DEF Free
  <2>3. CASE ~(Tail(stack) = << >> /\ forced # Null)
    BY <1>7, <2>1, <2>3 DEF Free
  <2> QED
    BY <2>2, <2>3
<1>8. CASE Exit
  BY <1>8 DEF Exit
<1>9. CASE Skip
  <2>1. /\ [cands EXCEPT ![pos] = Null] \in Seq(Obj \cup {Null})
        /\ Len([cands EXCEPT ![pos] = Null]) = Len(cands)
    BY <1>9, AtHand, ExceptSeq DEF Skip
  <2>2. pos + 1 \in 1..(MaxCands + 1)
    BY <1>9, AtHand DEF Skip
  <2>3. cands' \in Seq(Obj \cup {Null}) /\ Len(cands') <= MaxCands
    BY <1>9, <2>1 DEF Skip
  <2> QED
    BY <1>9, <2>2, <2>3 DEF Skip
<1>10. CASE Keep
  BY <1>10, AtHand DEF Keep
<1>11. CASE ForceFree
  <2>1. pos \in 1..Len(cands)
    BY <1>11, AtHand DEF ForceFree
  <2>2. cands[pos] \in Obj
    BY <1>11, <2>1, ElementOfSeq DEF ForceFree
  <2>3. <<cands[pos]>> \in Seq(Obj)
    BY <2>2
  <2>4. refcount' \in [Obj -> Nat]
    BY <1>11, <2>2 DEF ForceFree
  <2>5. heap' \in [Obj -> {"free", "live", "dying"}]
    BY <1>11, <2>2 DEF ForceFree
  <2> QED
    BY <1>11, <2>2, <2>3, <2>4, <2>5 DEF ForceFree
<1>12. CASE ReadFreed
  BY <1>2, <1>12 DEF ReadFreed
<1>13. CASE Finish
  BY <1>13, EmptySeq DEF Finish
<1> QED
  BY <1>1, <1>3, <1>4, <1>5, <1>6, <1>7, <1>8, <1>9, <1>10, <1>11, <1>12,
     <1>13
  DEF Next, Collect
-----------------------------------------------------------------------------
\* Steps that leave objects, references and the stack alone.
LEMMA Unmoved ==
  ASSUME IInv, UNCHANGED <<refcount, heap, loc, depth, stack>>
  PROVE  CountsBounded' /\ InnerAlive' /\ Nested'
<1>1. \A o \in Obj : Refs(o)' = Refs(o) /\ Inner(o)' = Inner(o)
  BY DEF Refs, Inner
<1> QED
  BY <1>1 DEF IInv, CountsBounded, InnerAlive, Nested

\* A new object is referred to by the variable it was allocated for.
LEMMA AllocStep ==
  ASSUME IInv, TypeOK', NEW v \in Var, NEW o \in Obj, Alloc(v, o)
  PROVE  IInv'
<1> USE NamesAssumption DEF NamesAssumption, IInv
<1>1. /\ v \in Loc /\ loc[v] = Null /\ loc[o] = Null /\ heap[o] = "free"
      /\ loc' = [loc EXCEPT ![v] = o] /\ loc'[v] = o
      /\ \A l \in Loc : l # v => loc'[l] = loc[l]
      /\ depth'[v] = Len(stack)
      /\ \A u \in Var : u # v => depth'[u] = depth[u]
      /\ heap'[o] = "live" /\ refcount'[o] = 1
      /\ \A p \in Obj : p # o => heap'[p] = heap[p] /\ refcount'[p] = refcount[p]
      /\ collected' = collected \ {o}
      /\ UNCHANGED <<cands, dropped, phase, pos, stack, forced>>
  BY DEF Alloc, TypeOK, Loc
<1>2. /\ Cardinality(Refs(o)') = Cardinality(Refs(o)) + 1
      /\ Cardinality(Inner(o)') <= Cardinality(Inner(o)) + 1
      /\ Cardinality(Inner(o)') \in Nat
      /\ \A p \in Obj \ {o} : Refs(p)' = Refs(p) /\ Inner(p)' = Inner(p)
  BY <1>1, Gained
<1>3. Cardinality(Inner(o)) = 0 /\ Cardinality(Refs(o)) \in Nat
  <2>1. Inner(o) = {}
    BY <1>1 DEF Inner, InnerAlive
  <2> QED
    BY <2>1, FS_EmptySet, Counting
<1>4. CountsBounded'
  BY <1>1, <1>2, <1>3 DEF CountsBounded
<1>5. InnerAlive'
  BY <1>1 DEF InnerAlive, Loc, TypeOK
<1>6. Nested'
  <2>1. \A i \in 1..Len(stack) : stack[i] \in Obj /\ heap'[stack[i]] = "dying"
    BY <1>1, ElementOfSeq DEF Nested, TypeOK
  <2>2. Len(stack) \in Nat
    BY LenProperties DEF TypeOK
  <2> QED
    BY <1>1, <2>1, <2>2 DEF Nested, Loc
<1>7. BeforeExit'
  <2> SUFFICES ASSUME phase = "run" PROVE BeforeExit'
    BY <1>1 DEF BeforeExit
  <2>1. Refs(o) = {}
    BY <1>1 DEF Refs, BeforeExit
  <2>2. Cardinality(Refs(o)') = 1
    BY <1>2, <2>1, FS_EmptySet
  <2>3. \A l \in Loc : loc'[l] # Null => heap'[loc'[l]] = "live"
    BY <1>1 DEF BeforeExit, TypeOK
  <2> QED
    BY <1>1, <1>2, <2>2, <2>3 DEF BeforeExit
<1>8. AtExit' /\ CollectedIsGone'
  BY <1>1 DEF AtExit, CollectedIsGone, TypeOK
<1>9. Awaited'
  <2> SUFFICES ASSUME ~dropped, NEW p \in Obj, heap'[p] = "live"
               PROVE  Held(p)' \/ Later(p)' \/ (phase # "run" /\ TwoFields(p)')
    BY <1>1 DEF Awaited
  <2>1. CASE p = o
    BY <1>1, <2>1 DEF Held
  <2>2. CASE p # o
    <3>1. Held(p) \/ Later(p) \/ (phase # "run" /\ TwoFields(p))
      BY <1>1, <2>2 DEF Awaited
    <3>2. Held(p) => Held(p)'
      BY <1>1 DEF Held, Loc
    <3>3. TwoFields(p) => TwoFields(p)'
      BY <1>1 DEF TwoFields, Loc
    <3> QED
      BY <1>1, <3>1, <3>2, <3>3 DEF Later
  <2> QED
    BY <2>1, <2>2
<1> QED
  BY <1>4, <1>5, <1>6, <1>7, <1>8, <1>9

\* Only the reference to a live object is copied: the retain of a freed one is
\* wild, that of an object being destroyed aborts.
LEMMA RetainStep ==
  ASSUME IInv, TypeOK', NEW o \in Obj, NEW d \in Loc, Retain(o, d)
  PROVE  IInv'
<1> USE NamesAssumption DEF NamesAssumption, IInv
<1>1. CASE heap[o] = "free" \/ refcount[o] <= 0
  <2>1. UNCHANGED <<refcount, heap, loc, depth, cands, dropped, phase, pos,
                    stack, forced, collected>>
    BY <1>1 DEF Retain, Wild
  <2>2. CountsBounded' /\ InnerAlive' /\ Nested'
    BY <2>1, Unmoved
  <2>3. \A p \in Obj : Refs(p)' = Refs(p)
    BY <2>1 DEF Refs
  <2> QED
    BY <2>1, <2>2, <2>3
    DEF BeforeExit, AtExit, CollectedIsGone, Awaited, Held, Later, TwoFields
<1>2. CASE ~(heap[o] = "free" \/ refcount[o] <= 0)
  <2>1. heap[o] = "live" /\ refcount[o] \in Nat /\ Len(stack) \in Nat
    BY <1>2, StackBounded DEF CountsBounded, TypeOK
  <2>2. /\ loc[d] = Null
        /\ loc' = [loc EXCEPT ![d] = o] /\ loc'[d] = o
        /\ \A l \in Loc : l # d => loc'[l] = loc[l]
        /\ \A u \in Var : depth'[u] = IF u = d THEN Len(stack) ELSE depth[u]
        /\ refcount'[o] = refcount[o] + 1
        /\ \A p \in Obj : p # o => refcount'[p] = refcount[p]
        /\ UNCHANGED <<heap, cands, dropped, phase, pos, stack, forced,
                       collected>>
    BY <1>2 DEF Retain, TypeOK
  <2>3. /\ Cardinality(Refs(o)') = Cardinality(Refs(o)) + 1
        /\ Cardinality(Inner(o)') <= Cardinality(Inner(o)) + 1
        /\ Cardinality(Inner(o)') \in Nat
        /\ \A p \in Obj \ {o} : Refs(p)' = Refs(p) /\ Inner(p)' = Inner(p)
    BY <2>2, Gained
  <2>4. Cardinality(Refs(o)) \in Nat /\ Cardinality(Inner(o)) \in Nat
    BY Counting
  <2>5. CountsBounded'
    BY <2>1, <2>2, <2>3, <2>4 DEF CountsBounded
  <2>6. InnerAlive'
    BY <2>1, <2>2 DEF InnerAlive, Loc
  <2>7. Nested'
    BY <2>1, <2>2 DEF Nested, Loc
  <2>8. BeforeExit'
    BY <2>1, <2>2, <2>3 DEF BeforeExit
  <2>9. AtExit' /\ CollectedIsGone'
    BY <2>2 DEF AtExit, CollectedIsGone
  <2>10. \A p \in Obj : /\ Held(p) => Held(p)'
                        /\ TwoFields(p) => TwoFields(p)'
                        /\ Later(p) => Later(p)'
    BY <2>2 DEF Held, TwoFields, Later, Loc
  <2>11. Awaited'
    BY <2>2, <2>10 DEF Awaited
  <2> QED
    BY <2>5, <2>6, <2>7, <2>8, <2>9, <2>11
<1> QED
  BY <1>1, <1>2

\* Releasing the last reference leaves none, and the object goes on the stack.
LEMMA ReleaseLastStep ==
  ASSUME IInv, TypeOK', NEW v \in Var, ReleaseLast(v)
  PROVE  IInv'
<1> USE NamesAssumption DEF NamesAssumption
<1>1. PICK o \in Obj :
      /\ o = loc[v] /\ heap[o] = "live" /\ refcount[o] = 1
      /\ phase # "run" => depth[v] > 0 /\ stack # << >>
      /\ depth[v] \in Nat
  BY HeldAlive DEF ReleaseLast, LastReference, IInv, TypeOK
<1> USE DEF IInv
<1>2. /\ v \in Loc /\ loc[v] = o
      /\ loc' = [loc EXCEPT ![v] = Null] /\ depth' = depth /\ loc'[v] = Null
      /\ \A l \in Loc : l # v => loc'[l] = loc[l]
      /\ refcount'[o] = 0 /\ heap'[o] = "dying"
      /\ \A p \in Obj : p # o => heap'[p] = heap[p] /\ refcount'[p] = refcount[p]
      /\ stack' = <<o>> \o stack
      /\ UNCHANGED <<cands, dropped, phase, pos, forced, collected>>
  BY <1>1 DEF ReleaseLast, TypeOK, Loc
<1>3. /\ Cardinality(Refs(o)') = Cardinality(Refs(o)) - 1
      /\ Cardinality(Inner(o)') =
           IF depth[v] > 0 THEN Cardinality(Inner(o)) - 1
           ELSE Cardinality(Inner(o))
      /\ \A p \in Obj \ {o} : Refs(p)' = Refs(p) /\ Inner(p)' = Inner(p)
  BY <1>1, <1>2, Lost
<1>4. /\ Cardinality(Refs(o)) \in Nat /\ Cardinality(Inner(o)) \in Nat
      /\ IsFiniteSet(Refs(o)') /\ IsFiniteSet(Inner(o)')
      /\ Cardinality(Refs(o)') \in Nat /\ Cardinality(Inner(o)') \in Nat
      /\ Cardinality(Inner(o)') <= Cardinality(Refs(o)')
  <2>1. Cardinality(Refs(o)) \in Nat /\ Cardinality(Inner(o)) \in Nat
    BY <1>1, Counting
  <2>2. /\ Refs(o)' = Refs(o) \ {v} /\ Inner(o)' = Inner(o) \ {v}
        /\ IsFiniteSet(Refs(o)) /\ IsFiniteSet(Inner(o))
    BY <1>1, <1>2, Lost, Counting
  <2>3. IsFiniteSet(Refs(o)') /\ IsFiniteSet(Inner(o)')
    BY <2>2, FS_RemoveElement
  <2>4. Inner(o)' \in SUBSET Refs(o)'
    BY DEF Inner, Refs, Loc
  <2> QED
    BY <2>1, <2>3, <2>4, FS_Subset, FS_CardinalityType
<1>5. Inner(o)' = {}
  <2>1. CASE phase = "run"
    <3>1. Cardinality(Refs(o)') = 0
      BY <1>1, <1>3, <1>4, <2>1 DEF BeforeExit
    <3> QED
      BY <1>4, <3>1, FS_EmptySet
  <2>2. CASE phase # "run"
    <3>1. Cardinality(Inner(o)') = 0
      BY <1>1, <1>3, <1>4, <2>2 DEF CountsBounded
    <3> QED
      BY <1>4, <3>1, FS_EmptySet
  <2> QED
    BY <2>1, <2>2
<1>6. CountsBounded'
  BY <1>2, <1>3 DEF CountsBounded
<1>7. InnerAlive'
  <2> SUFFICES ASSUME NEW u \in Var, depth[u] > 0, loc'[u] # Null
               PROVE  heap'[loc'[u]] = "live"
    BY <1>2 DEF InnerAlive
  <2>1. u # v /\ loc'[u] = loc[u] /\ loc[u] \in Obj
    BY <1>2 DEF Loc, TypeOK
  <2>2. loc[u] # o
    BY <1>2, <1>5, <2>1 DEF Inner
  <2> QED
    BY <1>2, <2>1, <2>2 DEF InnerAlive
<1>8. /\ Len(stack') = Len(stack) + 1 /\ stack'[1] = o
      /\ \A i \in 1..(Len(stack) + 1) : i # 1 =>
           i - 1 \in 1..Len(stack) /\ stack'[i] = stack[i - 1]
      /\ Len(stack) \in Nat /\ stack # << >> => Len(stack) > 0
      /\ \A i \in 1..Len(stack) : stack[i] \in Obj /\ stack[i] # o
  BY <1>1, <1>2, Pushed, StackBounded, ElementOfSeq DEF TypeOK, Nested
<1>9. Nested'
  <2>1. \A i \in 1..Len(stack') : heap'[stack'[i]] = "dying"
    BY <1>2, <1>8 DEF Nested
  <2>2. \A i, j \in 1..Len(stack') : stack'[i] = stack'[j] => i = j
    <3> SUFFICES ASSUME NEW i \in 1..Len(stack'), NEW j \in 1..Len(stack'),
                        stack'[i] = stack'[j]
                 PROVE  i = j
      OBVIOUS
    <3>1. CASE i = 1 \/ j = 1
      BY <1>8, <3>1
    <3>2. CASE i # 1 /\ j # 1
      <4>1. i - 1 = j - 1
        BY <1>8, <3>2 DEF Nested
      <4> QED
        BY <1>8, <4>1
    <3> QED
      BY <3>1, <3>2
  <2>3. \A u \in Var : depth'[u] > Len(stack') => loc'[u] = Null
    BY <1>2, <1>8 DEF Nested, Loc, TypeOK
  <2> QED
    BY <2>1, <2>2, <2>3 DEF Nested
<1>10. BeforeExit'
  <2> SUFFICES ASSUME phase = "run" PROVE BeforeExit'
    BY <1>2 DEF BeforeExit
  <2>1. Cardinality(Refs(o)') = 0
    BY <1>1, <1>3, <1>4 DEF BeforeExit
  <2>2. Refs(o)' = {}
    BY <1>4, <2>1, FS_EmptySet
  <2>3. ASSUME NEW l \in Loc, loc'[l] # Null PROVE heap'[loc'[l]] = "live"
    <3>1. loc'[l] = loc[l] /\ loc[l] \in Obj /\ loc[l] # o
      BY <1>2, <2>2, <2>3 DEF Refs, TypeOK
    <3> QED
      BY <1>2, <2>3, <3>1 DEF BeforeExit
  <2> QED
    BY <1>2, <1>3, <2>1, <2>3 DEF BeforeExit
<1>11. AtExit'
  <2>1. CASE phase = "run"
    BY <1>2, <2>1 DEF AtExit
  <2>2. CASE phase # "run"
    <3>1. Len(stack') # 1 /\ stack'[Len(stack')] = stack[Len(stack)]
      BY <1>1, <1>8, <2>2
    <3>2. stack' # << >>
      BY <1>8, EmptySeq
    <3> QED
      BY <1>1, <1>2, <2>2, <3>1, <3>2 DEF AtExit
  <2> QED
    BY <2>1, <2>2
<1>12. CollectedIsGone'
  BY <1>1, <1>2 DEF CollectedIsGone, TypeOK
<1>13. Awaited'
  <2> SUFFICES ASSUME ~dropped, NEW p \in Obj, heap'[p] = "live"
               PROVE  Held(p)' \/ Later(p)' \/ (phase # "run" /\ TwoFields(p)')
    BY <1>2 DEF Awaited
  <2>1. p # o /\ heap[p] = "live"
    BY <1>2
  <2>2. Held(p) => Held(p)'
    BY <1>2, <2>1 DEF Held, Loc
  <2>3. TwoFields(p) => TwoFields(p)'
    BY <1>2 DEF TwoFields, Loc
  <2>4. Later(p) => Later(p)'
    BY <1>2 DEF Later
  <2> QED
    BY <1>2, <2>1, <2>2, <2>3, <2>4 DEF Awaited
<1> QED
  BY <1>6, <1>7, <1>9, <1>10, <1>11, <1>12, <1>13

\* Releasing another reference makes the object a candidate.
LEMMA ReleaseCandidateStep ==
  ASSUME IInv, TypeOK', NEW v \in Var, ReleaseCandidate(v)
  PROVE  IInv'
<1> USE NamesAssumption DEF NamesAssumption
<1>1. PICK o \in Obj :
      /\ o = loc[v] /\ heap[o] = "live" /\ refcount[o] >= 1
      /\ refcount[o] # 1 /\ refcount[o] \in Nat
      /\ phase # "run" => depth[v] > 0 /\ stack # << >>
      /\ depth[v] \in Nat
  BY HeldAlive DEF ReleaseCandidate, LastReference, IInv, TypeOK
<1> USE DEF IInv
<1>2. /\ v \in Loc /\ loc[v] = o
      /\ loc' = [loc EXCEPT ![v] = Null] /\ depth' = depth /\ loc'[v] = Null
      /\ \A l \in Loc : l # v => loc'[l] = loc[l]
      /\ refcount'[o] = refcount[o] - 1
      /\ \A p \in Obj : p # o => refcount'[p] = refcount[p]
      /\ cands' = Entered(o) /\ dropped' = (dropped \/ ~Room)
      /\ UNCHANGED <<heap, stack, phase, pos, forced, collected>>
  BY <1>1 DEF ReleaseCandidate, TypeOK, Loc
<1>3. /\ Cardinality(Refs(o)') = Cardinality(Refs(o)) - 1
      /\ Cardinality(Inner(o)') =
           IF depth[v] > 0 THEN Cardinality(Inner(o)) - 1
           ELSE Cardinality(Inner(o))
      /\ \A p \in Obj \ {o} : Refs(p)' = Refs(p) /\ Inner(p)' = Inner(p)
  BY <1>1, <1>2, Lost
<1>4. /\ Cardinality(Refs(o)) \in Nat /\ Cardinality(Inner(o)) \in Nat
      /\ Cardinality(Refs(o)') \in Nat /\ Cardinality(Inner(o)') \in Nat
      /\ Cardinality(Inner(o)') <= Cardinality(Refs(o)')
  <2>1. Cardinality(Refs(o)) \in Nat /\ Cardinality(Inner(o)) \in Nat
    BY <1>1, Counting
  <2>2. /\ Refs(o)' = Refs(o) \ {v} /\ Inner(o)' = Inner(o) \ {v}
        /\ IsFiniteSet(Refs(o)) /\ IsFiniteSet(Inner(o))
    BY <1>1, <1>2, Lost, Counting
  <2>3. IsFiniteSet(Refs(o)') /\ IsFiniteSet(Inner(o)')
    BY <2>2, FS_RemoveElement
  <2>4. Inner(o)' \in SUBSET Refs(o)'
    BY DEF Inner, Refs, Loc
  <2> QED
    BY <2>1, <2>3, <2>4, FS_Subset, FS_CardinalityType
<1>5. refcount[o] - 1 >= Cardinality(Inner(o)')
  BY <1>1, <1>3, <1>4 DEF CountsBounded, BeforeExit
<1>6. CountsBounded'
  BY <1>1, <1>2, <1>3, <1>4, <1>5 DEF CountsBounded
<1>7. InnerAlive'
  BY <1>2 DEF InnerAlive, Loc
<1>8. Nested'
  BY <1>2 DEF Nested, Loc
<1>9. BeforeExit'
  BY <1>1, <1>2, <1>3, <1>4 DEF BeforeExit
<1>10. /\ Len(cands) \in Nat /\ Len(cands') \in Nat
       /\ Len(cands') >= Len(cands) /\ pos \in Nat \ {0}
       /\ \A j \in 1..Len(cands) : cands'[j] = cands[j]
       /\ \A j \in 1..Len(cands') :
            j \in 1..Len(cands) \/ cands'[j] = o
       /\ Room => Len(cands') = Len(cands) + 1 /\ cands'[Len(cands')] = o
  BY <1>1, <1>2, Appended, LenProperties DEF Entered, Room, TypeOK
<1>11. AtExit'
  <2>1. phase # "done"
    BY <1>1 DEF AtExit
  <2> QED
    BY <1>2, <1>10, <2>1 DEF AtExit
<1>12. CollectedIsGone'
  BY <1>1, <1>2, <1>10 DEF CollectedIsGone
<1>13. Awaited'
  <2> SUFFICES ASSUME ~dropped', NEW p \in Obj, heap[p] = "live"
               PROVE  Held(p)' \/ Later(p)' \/ (phase # "run" /\ TwoFields(p)')
    BY <1>2 DEF Awaited
  <2>1. CASE p = o
    <3>1. phase # "done"
      BY <1>1 DEF AtExit
    <3>2. pos <= Len(cands) + 1
      BY <1>10, <3>1 DEF BeforeExit, AtExit, TypeOK
    <3>3. Room /\ Len(cands') = Len(cands) + 1 /\ cands'[Len(cands')] = o
      BY <1>2, <1>10
    <3>4. Len(cands') \in pos..Len(cands')
      BY <1>10, <3>2, <3>3
    <3> QED
      BY <1>2, <2>1, <3>3, <3>4 DEF Later
  <2>2. CASE p # o
    <3>1. Held(p) => Held(p)'
      BY <1>2, <2>2 DEF Held, Loc
    <3>2. TwoFields(p) => TwoFields(p)'
      BY <1>2 DEF TwoFields, Loc
    <3>3. Later(p) => Later(p)'
      BY <1>2, <1>10 DEF Later
    <3> QED
      BY <1>2, <3>1, <3>2, <3>3 DEF Awaited
  <2> QED
    BY <2>1, <2>2
<1> QED
  BY <1>6, <1>7, <1>8, <1>9, <1>11, <1>12, <1>13

\* The object freed is referred to by no variable that still counts, and the
\* one the collector was at is no candidate any more.
LEMMA FreeStep ==
  ASSUME IInv, TypeOK', Free
  PROVE  IInv'
<1> USE NamesAssumption DEF NamesAssumption, IInv
<1>1. PICK o \in Obj :
      /\ o = Head(stack) /\ o = stack[1] /\ heap[o] = "dying"
      /\ Len(stack) \in Nat \ {0} /\ Len(stack') = Len(stack) - 1
      /\ stack' = Tail(stack)
      /\ \A i \in 1..(Len(stack) - 1) : stack'[i] = stack[i + 1]
      /\ stack' = << >> <=> Len(stack) = 1
      /\ stack # << >>
  <2>1. /\ stack # << >> /\ stack' = Tail(stack)
        /\ Len(stack) \in Nat \ {0} /\ Head(stack) = stack[1] /\ stack[1] \in Obj
        /\ Len(Tail(stack)) = Len(stack) - 1
        /\ \A i \in 1..(Len(stack) - 1) : Tail(stack)[i] = stack[i + 1]
        /\ Tail(stack) = << >> <=> Len(stack) = 1
    BY Popped DEF Free, TypeOK
  <2>2. heap[stack[1]] = "dying"
    BY <2>1 DEF Nested
  <2> QED
    BY <2>1, <2>2
<1>2. /\ heap'[o] = "free" /\ \A p \in Obj : p # o => heap'[p] = heap[p]
      /\ \A u \in Var : depth[u] = Len(stack) => loc[u] = Null
      /\ UNCHANGED <<refcount, loc, depth, dropped, phase>>
  BY <1>1 DEF Free, TypeOK
<1>3. /\ \A p \in Obj : Refs(p)' = Refs(p) /\ Inner(p)' = Inner(p)
      /\ \A p \in Obj : (Held(p) <=> Held(p)') /\ (TwoFields(p) <=> TwoFields(p)')
  BY <1>2 DEF Refs, Inner, Held, TwoFields
<1>4. CountsBounded'
  BY <1>1, <1>2, <1>3 DEF CountsBounded
<1>5. InnerAlive'
  BY <1>1, <1>2 DEF InnerAlive, Loc, TypeOK
<1>6. Nested'
  <2>1. \A i \in 1..Len(stack') :
          /\ i + 1 \in 1..Len(stack) /\ stack'[i] = stack[i + 1]
          /\ stack[i + 1] \in Obj /\ stack[i + 1] # o
    <3> SUFFICES ASSUME NEW i \in 1..Len(stack')
                 PROVE  /\ i + 1 \in 1..Len(stack) /\ stack'[i] = stack[i + 1]
                        /\ stack[i + 1] \in Obj /\ stack[i + 1] # o
      OBVIOUS
    <3>1. i + 1 \in 1..Len(stack) /\ i + 1 # 1 /\ 1 \in 1..Len(stack)
      BY <1>1
    <3>2. stack[i + 1] \in Obj
      BY <3>1, ElementOfSeq DEF TypeOK
    <3> QED
      BY <1>1, <3>1, <3>2 DEF Nested
  <2>2. \A i \in 1..Len(stack') : heap'[stack'[i]] = "dying"
    BY <1>2, <2>1 DEF Nested
  <2>3. \A i, j \in 1..Len(stack') : stack'[i] = stack'[j] => i = j
    <3> SUFFICES ASSUME NEW i \in 1..Len(stack'), NEW j \in 1..Len(stack'),
                        stack'[i] = stack'[j]
                 PROVE  i = j
      OBVIOUS
    <3>1. i + 1 = j + 1
      BY <2>1 DEF Nested
    <3> QED
      BY <3>1
  <2>4. \A u \in Var : depth'[u] > Len(stack') => loc'[u] = Null
    BY <1>1, <1>2 DEF Nested, TypeOK
  <2> QED
    BY <2>2, <2>3, <2>4 DEF Nested
<1>7. CASE Len(stack) = 1 /\ forced # Null
  <2>1. /\ phase = "exit" /\ forced = o /\ pos <= Len(cands)
        /\ cands[pos] = o /\ pos \in Nat \ {0} /\ Len(cands) \in Nat
    BY <1>1, <1>7, LenProperties DEF AtExit, BeforeExit, TypeOK
  <2>2. /\ cands' = Purged(o) /\ forced' = Null /\ pos' = pos + 1
        /\ collected' = collected \cup {o}
    BY <1>1, <1>7, <2>1 DEF Free
  <2>3. /\ Len(cands') = Len(cands)
        /\ \A j \in 1..Len(cands) :
             cands'[j] = IF cands[j] = o THEN Null ELSE cands[j]
    BY <2>1, <2>2 DEF Purged
  <2>4. BeforeExit' /\ AtExit'
    BY <1>1, <1>2, <1>7, <2>1, <2>2, <2>3 DEF BeforeExit, AtExit
  <2>5. CollectedIsGone'
    <3> SUFFICES ASSUME NEW p \in collected \cup {o}
                 PROVE  /\ heap'[p] = "free"
                        /\ \A j \in 1..Len(cands) : cands'[j] # p
      BY <2>2, <2>3 DEF CollectedIsGone
    <3>1. p \in Obj /\ p # Null
      BY DEF TypeOK
    <3>2. CASE p = o
      BY <1>2, <2>3, <3>1, <3>2
    <3>3. CASE p # o
      BY <1>2, <2>3, <3>1, <3>3 DEF CollectedIsGone
    <3> QED
      BY <3>2, <3>3
  <2>6. Awaited'
    <3> SUFFICES ASSUME ~dropped, NEW p \in Obj, heap'[p] = "live"
                 PROVE  Held(p) \/ Later(p)' \/ TwoFields(p)
      BY <1>2, <1>3, <2>1 DEF Awaited
    <3>1. p # o /\ heap[p] = "live"
      BY <1>2
    <3>2. ASSUME NEW j \in pos..Len(cands), cands[j] = p
          PROVE  j \in pos'..Len(cands') /\ cands'[j] = p
      BY <2>1, <2>2, <2>3, <3>1, <3>2
    <3>3. Later(p) => Later(p)'
      BY <3>2 DEF Later
    <3> QED
      BY <3>1, <3>3 DEF Awaited
  <2> QED
    BY <1>4, <1>5, <1>6, <2>4, <2>5, <2>6
<1>8. CASE ~(Len(stack) = 1 /\ forced # Null)
  <2>1. UNCHANGED <<cands, forced, pos, collected>>
    BY <1>1, <1>8 DEF Free
  <2>2. BeforeExit'
    BY <1>1, <1>2, <1>3, <2>1 DEF BeforeExit, TypeOK
  <2>3. AtExit'
    <3>1. CASE phase = "run"
      BY <1>2, <3>1 DEF AtExit
    <3>2. CASE phase # "run"
      <4>1. forced # Null /\ Len(stack) > 1
        BY <1>1, <1>8, <3>2 DEF AtExit
      <4>2. stack' # << >> /\ stack'[Len(stack')] = stack[Len(stack)]
        BY <1>1, <4>1
      <4> QED
        BY <1>2, <2>1, <3>2, <4>1, <4>2 DEF AtExit
    <3> QED
      BY <3>1, <3>2
  <2>4. CollectedIsGone'
    BY <1>2, <2>1 DEF CollectedIsGone, TypeOK
  <2>5. \A p \in Obj : Later(p) <=> Later(p)'
    BY <2>1 DEF Later
  <2>6. Awaited'
    BY <1>2, <1>3, <2>5 DEF Awaited
  <2> QED
    BY <1>4, <1>5, <1>6, <2>2, <2>3, <2>4, <2>6
<1> QED
  BY <1>7, <1>8

\* exit() begins with nothing collected and every entry still to be looked at.
LEMMA ExitStep ==
  ASSUME IInv, TypeOK', Exit
  PROVE  IInv'
<1> USE DEF IInv
<1>1. /\ UNCHANGED <<refcount, heap, loc, depth, cands, dropped, pos, stack,
                     forced, collected>>
      /\ phase = "run" /\ phase' = "exit" /\ stack = << >>
  BY DEF Exit
<1>2. CountsBounded' /\ InnerAlive' /\ Nested'
  BY <1>1, Unmoved
<1>3. BeforeExit' /\ CollectedIsGone'
  BY <1>1 DEF BeforeExit, CollectedIsGone
<1>4. AtExit'
  BY <1>1, LenProperties DEF BeforeExit, AtExit, TypeOK
<1>5. \A p \in Obj : (Held(p) <=> Held(p)') /\ (Later(p) <=> Later(p)')
  BY <1>1 DEF Held, Later
<1>6. Awaited'
  BY <1>1, <1>5 DEF Awaited
<1> QED
  BY <1>2, <1>3, <1>4, <1>6

\* Passing over an entry leaves every object that is still alive where it was,
\* except one that the test found two references to.
LEMMA PassStep ==
  ASSUME IInv, TypeOK', Skip \/ Keep
  PROVE  IInv'
<1> USE NamesAssumption DEF NamesAssumption, IInv
<1>1. /\ forced = Null /\ phase = "exit" /\ Len(stack) = 0 /\ stack = << >>
      /\ pos \in 1..Len(cands) /\ Len(cands) \in Nat
  BY AtHand DEF Skip, Keep, Collecting
<1>2. /\ UNCHANGED <<refcount, heap, loc, depth, dropped, phase, stack, forced,
                     collected>>
      /\ pos' = pos + 1
  BY DEF Skip, Keep
<1>3. /\ Len(cands') = Len(cands)
      /\ \A j \in 1..Len(cands) :
           cands'[j] = cands[j] \/ (cands'[j] = Null /\ j = pos)
  <2>1. CASE UNCHANGED cands
    BY <2>1
  <2>2. CASE cands' = [cands EXCEPT ![pos] = Null]
    BY <1>1, <2>2, ExceptSeq DEF TypeOK
  <2> QED
    BY <2>1, <2>2 DEF Skip, Keep
<1>4. CountsBounded' /\ InnerAlive' /\ Nested'
  BY <1>2, Unmoved
<1>5. BeforeExit' /\ AtExit'
  BY <1>1, <1>2, <1>3 DEF BeforeExit, AtExit
<1>6. CollectedIsGone'
  BY <1>2, <1>3 DEF CollectedIsGone, TypeOK
<1>7. Awaited'
  <2> SUFFICES ASSUME ~dropped, NEW p \in Obj, heap[p] = "live"
               PROVE  Held(p) \/ Later(p)' \/ TwoFields(p)
    BY <1>1, <1>2 DEF Awaited, Held, TwoFields
  <2>1. CASE cands[pos] # p
    <3>1. ASSUME NEW j \in pos..Len(cands), cands[j] = p
          PROVE  j \in pos'..Len(cands') /\ cands'[j] = p
      BY <1>1, <1>2, <1>3, <2>1, <3>1
    <3>2. Later(p) => Later(p)'
      BY <3>1 DEF Later
    <3> QED
      BY <1>1, <3>2 DEF Awaited
  <2>2. CASE cands[pos] = p
    <3>1. Keep /\ p # Null
      BY <2>2 DEF Skip, CountsBounded, TypeOK
    <3> DEFINE E == {j \in 1..Len(cands) : cands[j] = p}
    <3>2. IsFiniteSet(E) /\ E # {}
      <4>1. IsFiniteSet(1..Len(cands))
        BY <1>1, FS_Interval
      <4>2. E \in SUBSET (1..Len(cands)) /\ pos \in E
        BY <1>1, <2>2
      <4> QED
        BY <4>1, <4>2, FS_Subset
    <3>3. Cardinality(E) \in Nat /\ Cardinality(E) # 0
      BY <3>2, FS_EmptySet, FS_CardinalityType
    <3>4. refcount[p] > Cardinality(E) /\ refcount[p] \in Nat
      BY <2>2, <3>1, <3>3 DEF Keep, Expendable, CandidateRefs, TypeOK
    <3>5. IsFiniteSet(Refs(p)) /\ Cardinality(Refs(p)) >= 2
      BY <3>3, <3>4, Counting DEF CountsBounded
    <3>6. PICK f, g \in Refs(p) : f # g
      BY <3>5, TwoOfThem
    <3>7. Held(p) \/ (f \in Obj /\ g \in Obj)
      BY <3>6 DEF Refs, Held, Loc
    <3> QED
      BY <3>6, <3>7 DEF Refs, TwoFields
  <2> QED
    BY <2>1, <2>2
<1> QED
  BY <1>4, <1>5, <1>6, <1>7

\* What is freed by force is alive no more, and no deinit_fn runs but its own.
LEMMA ForceFreeStep ==
  ASSUME IInv, TypeOK', ForceFree
  PROVE  IInv'
<1> USE NamesAssumption DEF NamesAssumption, IInv
<1>1. /\ forced = Null /\ phase = "exit" /\ Len(stack) = 0
      /\ pos \in 1..Len(cands) /\ Len(cands) \in Nat
  BY AtHand DEF ForceFree
<1>2. PICK o \in Obj :
      /\ o = cands[pos] /\ refcount'[o] = 0 /\ heap'[o] = "dying"
      /\ heap[o] # "free"
      /\ \A p \in Obj : p # o => heap'[p] = heap[p] /\ refcount'[p] = refcount[p]
      /\ stack' = <<o>> /\ forced' = o
      /\ UNCHANGED <<loc, depth, cands, dropped, phase, pos, collected>>
  <2>1. cands[pos] \in Obj
    BY <1>1, ElementOfSeq DEF ForceFree, TypeOK
  <2> QED
    BY <2>1 DEF ForceFree, TypeOK
<1>3. /\ Len(stack') = 1 /\ stack'[1] = o /\ stack' # << >>
  BY <1>2
<1>4. \A p \in Obj : /\ Refs(p)' = Refs(p) /\ Inner(p)' = Inner(p)
                     /\ (Held(p) <=> Held(p)') /\ (Later(p) <=> Later(p)')
                     /\ (TwoFields(p) <=> TwoFields(p)')
  BY <1>2 DEF Refs, Inner, Held, Later, TwoFields
<1>5. CountsBounded'
  BY <1>2, <1>4 DEF CountsBounded
<1>6. InnerAlive'
  BY <1>1, <1>2 DEF InnerAlive, Nested, TypeOK
<1>7. Nested'
  BY <1>1, <1>2, <1>3 DEF Nested, TypeOK
<1>8. BeforeExit' /\ AtExit'
  BY <1>1, <1>2, <1>3 DEF BeforeExit, AtExit
<1>9. CollectedIsGone'
  BY <1>2 DEF CollectedIsGone, TypeOK
<1>10. Awaited'
  BY <1>2, <1>4 DEF Awaited
<1> QED
  BY <1>5, <1>6, <1>7, <1>8, <1>9, <1>10

\* When the handler is through, no entry is left to be looked at.
LEMMA FinishStep ==
  ASSUME IInv, TypeOK', Finish
  PROVE  IInv'
<1> USE DEF IInv
<1>1. /\ forced = Null /\ phase = "exit" /\ stack = << >> /\ phase' = "done"
      /\ pos > Len(cands) /\ cands' = << >>
      /\ UNCHANGED <<refcount, heap, loc, depth, dropped, pos, stack, forced,
                     collected>>
  BY AtHand DEF Finish, Collecting
<1>2. CountsBounded' /\ InnerAlive' /\ Nested'
  BY <1>1, Unmoved
<1>3. BeforeExit' /\ AtExit' /\ CollectedIsGone'
  BY <1>1, EmptySeq DEF BeforeExit, AtExit, CollectedIsGone
<1>4. \A p \in Obj : /\ (Held(p) <=> Held(p)') /\ ~Later(p)
                     /\ (TwoFields(p) <=> TwoFields(p)')
  BY <1>1, LenProperties DEF Held, Later, TwoFields, TypeOK
<1>5. Awaited'
  BY <1>1, <1>4 DEF Awaited
<1> QED
  BY <1>2, <1>3, <1>5

\* Steps after which everything is as it was, but for the end of what is
\* followed.
LEMMA StutterStep ==
  ASSUME IInv, TypeOK',
         UNCHANGED <<refcount, heap, loc, depth, cands, dropped, phase, pos,
                     stack, forced, collected>>
  PROVE  IInv'
<1> USE DEF IInv
<1>1. CountsBounded' /\ InnerAlive' /\ Nested'
  BY Unmoved
<1>2. \A p \in Obj : Refs(p)' = Refs(p)
  BY DEF Refs
<1> QED
  BY <1>1, <1>2
  DEF BeforeExit, AtExit, CollectedIsGone, Awaited, Held, Later, TwoFields

LEMMA InvStep == IInv /\ [Next]_vars => IInv'
<1> SUFFICES ASSUME IInv, [Next]_vars PROVE IInv'
  OBVIOUS
<1>1. TypeOK'
  BY TypeStep
<1>2. CASE UNCHANGED vars
  BY <1>1, <1>2, StutterStep DEF vars
<1>3. ASSUME NEW v \in Var, NEW o \in Obj, Alloc(v, o) PROVE IInv'
  BY <1>1, <1>3, AllocStep
<1>4. ASSUME NEW o \in Obj, NEW d \in Loc, Retain(o, d) PROVE IInv'
  BY <1>1, <1>4, RetainStep
<1>5. ASSUME NEW v \in Var, ReleaseLast(v) PROVE IInv'
  BY <1>1, <1>5, ReleaseLastStep
<1>6. ASSUME NEW v \in Var, ReleaseCandidate(v) PROVE IInv'
  BY <1>1, <1>6, ReleaseCandidateStep
<1>7. CASE Free
  BY <1>1, <1>7, FreeStep
<1>8. CASE Exit
  BY <1>1, <1>8, ExitStep
<1>9. CASE Skip \/ Keep
  BY <1>1, <1>9, PassStep
<1>10. CASE ForceFree
  BY <1>1, <1>10, ForceFreeStep
<1>11. CASE ReadFreed
  BY <1>1, <1>11, StutterStep DEF ReadFreed, Wild
<1>12. CASE Finish
  BY <1>1, <1>12, FinishStep
<1> QED
  BY <1>2, <1>3, <1>4, <1>5, <1>6, <1>7, <1>8, <1>9, <1>10, <1>11, <1>12
  DEF Next, Collect

\* The variables keep their types: the candidate list stays within its room
\* and deinit_fn calls nest no deeper than there are objects.
THEOREM TypeCorrect == Spec => []TypeOK
<1>1. IInv => TypeOK
  BY DEF IInv
<1> QED
  BY <1>1, InitInv, InvStep, PTL DEF Spec

\* While the program runs, what is referred to is alive and each count is the
\* number of references, for classes that can form cycles as for the others:
\* entering a candidate changes nothing that the program can see.
THEOREM SafeUntilExitCorrect == Spec => []SafeUntilExit
<1>1. IInv => SafeUntilExit
  BY DEF IInv, BeforeExit, SafeUntilExit, Refs
<1> QED
  BY <1>1, InitInv, InvStep, PTL DEF Spec

\* No possible garbage is forgotten before exit; what was collected is no
\* candidate any more, whatever deinit_fn did meanwhile; and unless the list
\* overflowed, no isolated pair of objects is left when the handler returns.
THEOREM CollectionCorrect == Spec => []GarbageIsCollected
<1>1. ASSUME IInv PROVE GarbageIsCandidate
  <2> SUFFICES ASSUME phase = "run", ~dropped, NEW o \in Obj, heap[o] = "live",
                      \A v \in Var : loc[v] # o
               PROVE  \E j \in 1..Len(cands) : cands[j] = o
    BY DEF GarbageIsCandidate
  <2>1. Later(o) /\ pos = 1
    BY <1>1 DEF IInv, Awaited, Held, BeforeExit
  <2> QED
    BY <2>1 DEF Later
<1>2. ASSUME IInv PROVE CollectedIsPurged
  BY <1>2 DEF IInv, CollectedIsGone, CollectedIsPurged
<1>3. ASSUME IInv PROVE PairsAreCollected
  <2> SUFFICES ASSUME phase = "done", ~dropped, NEW a \in Obj, NEW b \in Obj,
                      heap[a] = "live", loc[a] = b, loc[b] = a,
                      {l \in Loc : loc[l] \in {a, b}} = {a, b},
                      Held(a) \/ Later(a) \/ TwoFields(a)
               PROVE  FALSE
    BY <1>3 DEF PairsAreCollected, IInv, Awaited
  <2>1. ~Held(a)
    BY NamesAssumption DEF NamesAssumption, Held, Loc
  <2>2. ~TwoFields(a)
    BY DEF TwoFields, Loc
  <2>3. ~Later(a)
    BY <1>3, EmptySeq DEF IInv, AtExit, Later, TypeOK
  <2> QED
    BY <2>1, <2>2, <2>3
<1>4. IInv => GarbageIsCollected
  BY <1>1, <1>2, <1>3 DEF IInv, GarbageIsCollected
<1> QED
  BY <1>4, InitInv, InvStep, PTL DEF Spec
=============================================================================
