----------------------------- MODULE ArcRuntime -----------------------------
(***************************************************************************)
(* Reference counting of the TinySwift runtime (runtime/tinyswift_runtime.c,*)
(* section ARC): __tinyswift_alloc, __tinyswift_retain,                    *)
(* __tinyswift_release and __tinyswift_is_unique, called by any number of  *)
(* threads of a compiled program.  Every atomic read-modify-write is one   *)
(* step and the test of the value it returned is another, so the calls of  *)
(* two threads interleave wherever the C code lets them.                   *)
(*                                                                         *)
(* A counted reference lives in a location: a local variable, which one    *)
(* thread owns, or the one reference field of an object.  The payload is   *)
(* otherwise left out.  A failed malloc returns NULL, and retain, release  *)
(* and is_unique return at once for NULL: these calls change nothing and   *)
(* are stuttering steps here.                                              *)
(***************************************************************************)
EXTENDS Integers, FiniteSets, Sequences

CONSTANTS Thread,  \* threads of the compiled program
          Local,   \* local variables that can hold a counted reference
          Obj,     \* addresses malloc hands out
          Null,    \* the null pointer
          Owner,   \* Owner[l]: the thread whose variable l is
          MaxRef   \* INT32_MAX

ASSUME SetsAssumption ==
  /\ IsFiniteSet(Thread) /\ IsFiniteSet(Local) /\ IsFiniteSet(Obj)
  /\ Local \cap Obj = {} /\ Thread \cap (Local \cup Obj) = {}
  /\ Null \notin Obj /\ Null \notin Local
ASSUME OwnerAssumption == Owner \in [Local -> Thread]
\* There are far fewer than 2^31 threads.
ASSUME WidthAssumption ==
  MaxRef \in Nat /\ MaxRef >= 1 /\ Cardinality(Thread) <= MaxRef

VARIABLES
  refcount,  \* header->refcount, a 32-bit word
  heap,      \* "free", "live", or "dying" from the last release to free()
  loc,       \* the reference each location holds; the field of o is loc[o]
  pc,        \* where a thread is: "idle", or after the fetch_add of a retain
             \* ("retained") or the fetch_sub of a release ("released")
  arg,       \* the object of that call
  old,       \* the value its atomic operation returned
  dest,      \* the location the caller assigns after retain returns
  stack,     \* the objects whose deinit_fn the thread is running, innermost
             \* first: deinit_fn may release, and so destroy, other objects
  sole,      \* the location is_unique has just answered 1 for, or Null
  aborted    \* abort() ended the process

vars == <<refcount, heap, loc, pc, arg, old, dest, stack, sole, aborted>>

Loc == Local \cup Obj

Word == (-MaxRef - 1)..MaxRef

\* The 32-bit two's complement word that n increments from 0 leave.
Wrap(n) == IF n <= MaxRef THEN n ELSE n - 2 * MaxRef - 2

Inc(c) == IF c = MaxRef THEN -MaxRef - 1 ELSE c + 1
Dec(c) == IF c = -MaxRef - 1 THEN MaxRef ELSE c - 1

TypeOK ==
  /\ refcount \in [Obj -> Word]
  /\ heap \in [Obj -> {"free", "live", "dying"}]
  /\ loc \in [Loc -> Obj \cup {Null}]
  /\ pc \in [Thread -> {"idle", "retained", "released"}]
  /\ arg \in [Thread -> Obj \cup {Null}]
  /\ old \in [Thread -> Word]
  /\ dest \in [Thread -> Loc \cup {Null}]
  /\ stack \in [Thread -> Seq(Obj)]
  /\ sole \in [Thread -> Local \cup {Null}]
  /\ aborted \in BOOLEAN
  /\ \A t \in Thread : pc[t] # "idle" => arg[t] # Null
  /\ \A t \in Thread : pc[t] = "retained" <=> dest[t] # Null

Init ==
  /\ refcount = [o \in Obj |-> 0]
  /\ heap = [o \in Obj |-> "free"]
  /\ loc = [l \in Loc |-> Null]
  /\ pc = [t \in Thread |-> "idle"]
  /\ arg = [t \in Thread |-> Null]
  /\ old = [t \in Thread |-> 0]
  /\ dest = [t \in Thread |-> Null]
  /\ stack = [t \in Thread |-> << >>]
  /\ sole = [t \in Thread |-> Null]
  /\ aborted = FALSE

-----------------------------------------------------------------------------
\* The object whose deinit_fn thread t is running, innermost.
InDeinit(t, o) == stack[t] # << >> /\ o = Head(stack[t])

\* The objects whose payload thread t may touch: those its variables hold,
\* and self inside deinit_fn.
Reaches(t, o) ==
  \/ \E l \in Local : Owner[l] = t /\ loc[l] = o
  \/ InDeinit(t, o)

\* The objects thread t may pass to retain: the ones it reaches and the
\* ones their fields hold.
Knows(t, o) ==
  \/ Reaches(t, o)
  \/ \E p \in Obj : Reaches(t, p) /\ loc[p] = o

\* A thread that is outside the runtime, in a process that still runs.
Running(t) == ~aborted /\ pc[t] = "idle"

\* A location that holds nothing and that no thread is about to assign.
Empty(l) == loc[l] = Null /\ \A u \in Thread : dest[u] # l

\* Mutant: the store of the first count is missing.
FirstCountStale(o) == refcount[o]

FirstCount(o) == 1

\* A fresh block, whose count is 1, assigned to the variable l.  The address
\* of a block that was freed with a reference still in its field is not handed
\* out again, so that the reference it leaked remains visible.
Alloc(t, l, o) ==
  /\ Running(t)
  /\ Owner[l] = t /\ Empty(l)
  /\ heap[o] = "free" /\ loc[o] = Null
  /\ heap' = [heap EXCEPT ![o] = "live"]
  /\ refcount' = [refcount EXCEPT ![o] = FirstCount(o)]
  /\ loc' = [loc EXCEPT ![l] = o]
  /\ sole' = [sole EXCEPT ![t] = Null]
  /\ UNCHANGED <<pc, arg, old, dest, stack, aborted>>

\* The fetch_add of __tinyswift_retain.  The copy goes to an empty variable,
\* of this thread or of one it is passed to, or to the field of an object.
RetainAdd(t, o, d) ==
  /\ Running(t)
  /\ Knows(t, o)
  /\ d \in Local \/ Reaches(t, d)
  /\ Empty(d)
  /\ refcount' = [refcount EXCEPT ![o] = Inc(@)]
  /\ pc' = [pc EXCEPT ![t] = "retained"]
  /\ arg' = [arg EXCEPT ![t] = o]
  /\ old' = [old EXCEPT ![t] = refcount[o]]
  /\ dest' = [dest EXCEPT ![t] = d]
  /\ sole' = [sole EXCEPT ![t] = Null]
  /\ UNCHANGED <<heap, loc, stack, aborted>>

\* Mutant: one half of the test is missing.
BadRetainLimitOnly(t) == old[t] = MaxRef

\* The test of the old count; the caller then assigns the copy.
BadRetain(t) == old[t] <= 0 \/ old[t] = MaxRef

RetainReturn(t) ==
  /\ ~aborted /\ pc[t] = "retained" /\ ~BadRetain(t)
  /\ loc' = [loc EXCEPT ![dest[t]] = arg[t]]
  /\ pc' = [pc EXCEPT ![t] = "idle"]
  /\ dest' = [dest EXCEPT ![t] = Null]
  /\ UNCHANGED <<refcount, heap, arg, old, stack, sole, aborted>>

RetainAbort(t) ==
  /\ ~aborted /\ pc[t] = "retained" /\ BadRetain(t)
  /\ aborted' = TRUE
  /\ UNCHANGED <<refcount, heap, loc, pc, arg, old, dest, stack, sole>>

\* The fetch_sub of __tinyswift_release.  The reference given up is that of a
\* variable of the thread or, inside deinit_fn, that of the field of self.
ReleaseSub(t, l) ==
  /\ Running(t)
  /\ loc[l] # Null
  /\ (l \in Local /\ Owner[l] = t) \/ InDeinit(t, l)
  /\ refcount' = [refcount EXCEPT ![loc[l]] = Dec(@)]
  /\ loc' = [loc EXCEPT ![l] = Null]
  /\ pc' = [pc EXCEPT ![t] = "released"]
  /\ arg' = [arg EXCEPT ![t] = loc[l]]
  /\ old' = [old EXCEPT ![t] = refcount[loc[l]]]
  /\ sole' = [sole EXCEPT ![t] = Null]
  /\ UNCHANGED <<heap, dest, stack, aborted>>

\* Mutant: the count is loaded again instead of testing the value fetch_sub
\* returned.
TookLastReloaded(t) == refcount[arg[t]] = 0

\* The tests of the old count.
TookLast(t) == old[t] = 1
BadRelease(t) == old[t] <= 0

\* Mutant: the last release returns like any other.
StillHeldAtLast(t) == ~BadRelease(t)

StillHeld(t) == ~BadRelease(t) /\ ~TookLast(t)

ReleaseReturn(t) ==
  /\ ~aborted /\ pc[t] = "released" /\ StillHeld(t)
  /\ pc' = [pc EXCEPT ![t] = "idle"]
  /\ UNCHANGED <<refcount, heap, loc, arg, old, dest, stack, sole, aborted>>

ReleaseAbort(t) ==
  /\ ~aborted /\ pc[t] = "released" /\ BadRelease(t)
  /\ aborted' = TRUE
  /\ UNCHANGED <<refcount, heap, loc, pc, arg, old, dest, stack, sole>>

\* The last reference is gone: deinit_fn is called.
ReleaseLast(t) ==
  /\ ~aborted /\ pc[t] = "released" /\ ~BadRelease(t) /\ TookLast(t)
  /\ heap' = [heap EXCEPT ![arg[t]] = "dying"]
  /\ stack' = [stack EXCEPT ![t] = <<arg[t]>> \o @]
  /\ pc' = [pc EXCEPT ![t] = "idle"]
  /\ UNCHANGED <<refcount, loc, arg, old, dest, sole, aborted>>

\* deinit_fn, if there was one, has returned: free(header).
Free(t) ==
  /\ Running(t)
  /\ stack[t] # << >>
  /\ heap' = [heap EXCEPT ![Head(stack[t])] = "free"]
  /\ stack' = [stack EXCEPT ![t] = Tail(@)]
  /\ sole' = [sole EXCEPT ![t] = Null]
  /\ UNCHANGED <<refcount, loc, pc, arg, old, dest, aborted>>

\* Mutant: unique as long as at most one other reference is left.
UnsharedLoosely(o) == refcount[o] <= 2

Unshared(o) == refcount[o] = 1

\* __tinyswift_is_unique answers 1 for the variable l, and the thread may now
\* change the object in place.
IsUnique(t, l) ==
  /\ Running(t)
  /\ Owner[l] = t /\ loc[l] # Null
  /\ Unshared(loc[l])
  /\ sole' = [sole EXCEPT ![t] = l]
  /\ UNCHANGED <<refcount, heap, loc, pc, arg, old, dest, stack, aborted>>

\* The part of a call that comes after its atomic operation.
Return(t) ==
  RetainReturn(t) \/ RetainAbort(t) \/ ReleaseReturn(t) \/ ReleaseAbort(t)
  \/ ReleaseLast(t)

Step(t) ==
  \/ \E l \in Local, o \in Obj : Alloc(t, l, o)
  \/ \E o \in Obj, d \in Loc : RetainAdd(t, o, d)
  \/ \E l \in Loc : ReleaseSub(t, l)
  \/ \E l \in Local : IsUnique(t, l)
  \/ Return(t)
  \/ Free(t)

Next == \E t \in Thread : Step(t)

Spec == Init /\ [][Next]_vars

\* A call that has begun ends, and every activation of a deinit_fn returns,
\* however often it calls the runtime, and destroys others, in between.
FreeAt(t, n) == Len(stack[t]) = n /\ Free(t)

Fairness ==
  \A t \in Thread :
    /\ WF_vars(Return(t))
    /\ \A n \in 1..Cardinality(Obj) : SF_vars(FreeAt(t, n))
FairSpec == Spec /\ Fairness

-----------------------------------------------------------------------------
\* What a count counts: the locations that hold the object, and the threads
\* that have incremented it for a location they have not assigned yet.
Tokens(o) == {l \in Loc : loc[l] = o}
             \cup {t \in Thread : pc[t] = "retained" /\ arg[t] = o}

\* A thread whose retain is about to abort the process.
Doomed(o) ==
  {t \in Thread : pc[t] = "retained" /\ arg[t] = o /\ BadRetain(t)}

\* The count of a block is the number of references to it, modulo 2^32, in
\* every interleaving of the atomic operations (retain, release).
CountIsExact ==
  \A o \in Obj : refcount[o] = Wrap(Cardinality(Tokens(o)))

\* A reference a program can follow points to a live block: no thread's
\* release frees what another thread's variable or a field still holds, even
\* in the window where an overflowed count waits for abort().
NoDanglingReference ==
  \A l \in Loc : loc[l] # Null => heap[loc[l]] = "live"

\* When is_unique has answered 1, the variable is the only reference until
\* its thread calls the runtime again: a change in place is seen by no other.
UniqueIsSole ==
  \A t \in Thread : sole[t] # Null => Tokens(loc[sole[t]]) = {sole[t]}

\* A block is destroyed once: no two deinit_fn activations, of one thread or
\* of two, run for one object, and each runs on a block not yet freed.
DestroyedOnce ==
  /\ \A t \in Thread : \A i \in 1..Len(stack[t]) : heap[stack[t][i]] = "dying"
  /\ \A t, u \in Thread :
       \A i \in 1..Len(stack[t]), j \in 1..Len(stack[u]) :
         stack[t][i] = stack[u][j] => t = u /\ i = j

\* The inductive strengthening.  A retain in progress has reserved an empty
\* location, its object is alive, or it is the object that the thread itself
\* is destroying, in which case the count it read was 0.
RetainsHold ==
  \A t \in Thread : pc[t] = "retained" =>
    /\ loc[dest[t]] = Null
    /\ \A u \in Thread : dest[u] = dest[t] => u = t
    /\ \/ heap[arg[t]] = "live"
       \/ heap[arg[t]] = "dying" /\ InDeinit(t, arg[t]) /\ BadRetain(t)

\* Between the fetch_sub that takes the last reference and the call of
\* deinit_fn the block is unreferenced and only that thread will destroy it.
LastHolds ==
  \A t \in Thread : pc[t] = "released" /\ old[t] = 1 =>
    /\ heap[arg[t]] = "live" /\ Tokens(arg[t]) = {}
    /\ \A u \in Thread :
         pc[u] = "released" /\ old[u] = 1 /\ arg[u] = arg[t] => u = t

\* At most MaxRef references are not waiting for abort(): a count that has
\* overflowed never wraps round to a positive one.
WidthHolds ==
  \A o \in Obj : Cardinality(Tokens(o) \ Doomed(o)) <= MaxRef

\* The variable is_unique answered for belongs to its thread, which has not
\* called the runtime since.
SoleHolds ==
  \A t \in Thread : sole[t] # Null =>
    Owner[sole[t]] = t /\ loc[sole[t]] # Null /\ pc[t] = "idle"

IInv ==
  /\ TypeOK /\ CountIsExact /\ NoDanglingReference /\ DestroyedOnce
  /\ UniqueIsSole
  /\ RetainsHold /\ LastHolds /\ WidthHolds /\ SoleHolds

\* No runtime call touches the count of a block that malloc has not handed
\* out: apart from alloc's own store, a count changes only while allocated.
CountsTouchAllocatedOnly ==
  [][\A o \in Obj : refcount'[o] # refcount[o] =>
       heap[o] # "free" \/ (heap'[o] = "live" /\ refcount'[o] = 1)]_vars

\* Every block whose last reference is given up is destroyed and freed, unless
\* the process aborts: no interleaving of releases loses the last one.
LastReleaseFrees ==
  \A o \in Obj :
    (heap[o] # "free" /\ Tokens(o) = {}) ~> (heap[o] = "free" \/ aborted)
=============================================================================
