--------------------------- MODULE CycleCollector ---------------------------
(***************************************************************************)
(* The cycle collector of the TinySwift runtime                            *)
(* (runtime/tinyswift_runtime.c, section Cycle Collection):                *)
(* __tinyswift_release_cycle_candidate, which compiled code calls in place *)
(* of release for classes that can form cycles, and                        *)
(* __tinyswift_collect_cycles, which atexit runs.                          *)
(*                                                                         *)
(* The candidate list is thread-local and collection happens at exit, so   *)
(* one thread is modelled; ArcRuntime has the interleavings of the counts. *)
(* Objects have one reference field, counted like a variable.  deinit_fn   *)
(* is the user's deinit body: it may allocate, retain and release through  *)
(* variables, and does not release the field of self.  An access to the    *)
(* header of a freed block has no defined result: it is recorded in wild   *)
(* and the behaviour is followed no further.                               *)
(***************************************************************************)
EXTENDS Integers, Sequences, FiniteSets

CONSTANTS Var,       \* variables of the program
          Obj,       \* addresses malloc hands out
          Null,      \* the null pointer
          MaxCands   \* CYCLE_CANDIDATES_MAX

ASSUME CandsAssumption == MaxCands \in Nat
ASSUME NamesAssumption == Var \cap Obj = {} /\ Null \notin Obj \cup Var
ASSUME FiniteAssumption == IsFiniteSet(Var) /\ IsFiniteSet(Obj)

VARIABLES
  refcount,   \* header->refcount
  heap,       \* "free", "live", or "dying" while deinit_fn runs
  loc,        \* the reference each variable and each field holds
  depth,      \* how many activations of deinit_fn enclose the code whose
              \* variable it is: 0 for main's and the globals
  cands,      \* cycle_candidates[0 .. cycle_candidate_count - 1], obj only
  dropped,    \* a candidate was skipped because the list was full
  phase,      \* "run", "exit" while the atexit handler runs, or "done"
  pos,        \* the collector's index i, from 1
  stack,      \* the objects whose deinit_fn runs, innermost first
  forced,     \* the object the collector is freeing, or Null
  collected,  \* addresses the collector freed and malloc has not reused
  wild,       \* a freed block was accessed
  aborted     \* abort() ended the process

vars == <<refcount, heap, loc, depth, cands, dropped, phase, pos, stack, forced,
          collected, wild, aborted>>

Loc == Var \cup Obj

TypeOK ==
  /\ refcount \in [Obj -> Nat]
  /\ heap \in [Obj -> {"free", "live", "dying"}]
  /\ loc \in [Loc -> Obj \cup {Null}]
  /\ depth \in [Var -> 0..Cardinality(Obj)]
  /\ cands \in Seq(Obj \cup {Null}) /\ Len(cands) <= MaxCands
  /\ dropped \in BOOLEAN
  /\ phase \in {"run", "exit", "done"}
  /\ pos \in 1..(MaxCands + 1)
  /\ stack \in Seq(Obj)
  /\ forced \in Obj \cup {Null}
  /\ collected \subseteq Obj
  /\ wild \in BOOLEAN /\ aborted \in BOOLEAN

Init ==
  /\ refcount = [o \in Obj |-> 0]
  /\ heap = [o \in Obj |-> "free"]
  /\ loc = [l \in Loc |-> Null] /\ depth = [v \in Var |-> 0]
  /\ cands = << >> /\ dropped = FALSE
  /\ phase = "run" /\ pos = 1
  /\ stack = << >> /\ forced = Null
  /\ collected = {}
  /\ wild = FALSE /\ aborted = FALSE

-----------------------------------------------------------------------------
\* The program's own code runs: before exit, and inside deinit_fn.
Running == ~wild /\ ~aborted /\ (phase = "run" \/ stack # << >>)

\* An access to the header of a freed block.
Wild ==
  /\ wild' = TRUE
  /\ UNCHANGED <<refcount, heap, loc, depth, cands, dropped, phase, pos, stack,
                 forced, collected, aborted>>

\* __tinyswift_alloc into an empty variable.  As in ArcRuntime, an address
\* freed with a reference in its field is not reused.
Alloc(v, o) ==
  /\ Running
  /\ loc[v] = Null /\ heap[o] = "free" /\ loc[o] = Null
  /\ refcount' = [refcount EXCEPT ![o] = 1]
  /\ heap' = [heap EXCEPT ![o] = "live"]
  /\ loc' = [loc EXCEPT ![v] = o]
  /\ depth' = [depth EXCEPT ![v] = Len(stack)]
  /\ collected' = collected \ {o}
  /\ UNCHANGED <<cands, dropped, phase, pos, stack, forced, wild, aborted>>

\* What the program can name: its variables, self in deinit_fn, and their
\* fields.
Self == IF stack = << >> THEN {} ELSE {Head(stack)}
Reached == {o \in Obj : \E v \in Var : loc[v] = o} \cup Self
Known == Reached \cup {o \in Obj : \E p \in Reached : loc[p] = o}

\* __tinyswift_retain for a copy to the empty location d.
Retain(o, d) ==
  /\ Running
  /\ o \in Known
  /\ d \in Var \cup Reached /\ loc[d] = Null
  /\ IF heap[o] = "free" THEN Wild
     ELSE IF refcount[o] <= 0
     THEN /\ aborted' = TRUE
          /\ UNCHANGED <<refcount, heap, loc, depth, cands, dropped, phase, pos,
                         stack, forced, collected, wild>>
     ELSE /\ refcount' = [refcount EXCEPT ![o] = @ + 1]
          /\ loc' = [loc EXCEPT ![d] = o]
          /\ depth' = [v \in Var |-> IF v = d THEN Len(stack) ELSE depth[v]]
          /\ UNCHANGED <<heap, cands, dropped, phase, pos, stack, forced,
                         collected, wild, aborted>>

\* There is a free entry in the candidate list.
Room == Len(cands) < MaxCands

Entered(o) == IF Room THEN Append(cands, o) ELSE cands

\* Mutant: the value left is taken for the value fetch_sub returned.
LastReferenceMisread(o) == refcount[o] <= 2

LastReference(o) == refcount[o] = 1

\* A reference the running code is about to give up.  The cleanup of a function
\* releases the variables of that function and no others.
Releases(v) == Running /\ loc[v] # Null /\ depth[v] = Len(stack)

\* __tinyswift_release_cycle_candidate for the reference in variable v, when
\* the count was 1: deinit_fn is called.
ReleaseLast(v) ==
  /\ Releases(v) /\ LastReference(loc[v])
  /\ refcount' = [refcount EXCEPT ![loc[v]] = 0]
  /\ heap' = [heap EXCEPT ![loc[v]] = "dying"]
  /\ stack' = <<loc[v]>> \o stack
  /\ loc' = [loc EXCEPT ![v] = Null]
  /\ UNCHANGED <<depth, cands, dropped, phase, pos, forced, collected, wild,
                 aborted>>

\* The same when the count was greater: the object becomes a candidate.
ReleaseCandidate(v) ==
  /\ Releases(v) /\ ~LastReference(loc[v])
  /\ refcount' = [refcount EXCEPT ![loc[v]] = @ - 1]
  /\ cands' = Entered(loc[v])
  /\ dropped' = (dropped \/ ~Room)
  /\ loc' = [loc EXCEPT ![v] = Null]
  /\ UNCHANGED <<heap, depth, phase, pos, stack, forced, collected, wild,
                 aborted>>

\* All candidate entries for o nulled out.
Purged(o) ==
  [j \in 1..Len(cands) |-> IF cands[j] = o THEN Null ELSE cands[j]]

\* deinit_fn returns and the block is freed; when the collector had called
\* deinit_fn, it nulls the entries of the object and takes up its loop.
Free ==
  /\ ~wild /\ ~aborted /\ stack # << >>
  /\ \A v \in Var : depth[v] = Len(stack) => loc[v] = Null
  /\ heap' = [heap EXCEPT ![Head(stack)] = "free"]
  /\ stack' = Tail(stack)
  /\ IF Tail(stack) = << >> /\ forced # Null
     THEN /\ cands' = Purged(forced)
          /\ forced' = Null /\ pos' = pos + 1
          /\ collected' = collected \cup {forced}
     ELSE UNCHANGED <<cands, forced, pos, collected>>
  /\ UNCHANGED <<refcount, loc, depth, dropped, phase, wild, aborted>>

\* The program ends and exit() calls the handler, which was registered by the
\* first release of a candidate and returns at once when there is none.
\* Variables may still hold references: those of globals are never released.
Exit ==
  /\ ~wild /\ ~aborted /\ phase = "run" /\ stack = << >>
  /\ phase' = "exit"
  /\ UNCHANGED <<refcount, heap, loc, depth, cands, dropped, pos, stack, forced,
                 collected, wild, aborted>>

Collecting ==
  ~wild /\ ~aborted /\ phase = "exit" /\ stack = << >>

CandidateRefs(o) == Cardinality({j \in 1..Len(cands) : cands[j] = o})

\* An entry that was nulled, or whose header reads 0 or less.
Skip ==
  /\ Collecting /\ pos <= Len(cands)
  /\ \/ cands[pos] = Null /\ UNCHANGED cands
     \/ /\ cands[pos] # Null
        /\ heap[cands[pos]] # "free" /\ refcount[cands[pos]] <= 0
        /\ cands' = [cands EXCEPT ![pos] = Null]
  /\ pos' = pos + 1
  /\ UNCHANGED <<refcount, heap, loc, depth, dropped, phase, stack, forced,
                 collected, wild, aborted>>

\* Mutant: the comparison is strict.
ExpendableStrictly(o) == refcount[o] < CandidateRefs(o)

\* The heuristic test for an object that only a cycle keeps alive.
Expendable(o) == refcount[o] <= CandidateRefs(o)

\* More references than entries: the object stays.
Keep ==
  /\ Collecting /\ pos <= Len(cands) /\ cands[pos] # Null
  /\ heap[cands[pos]] # "free"
  /\ refcount[cands[pos]] > 0 /\ ~Expendable(cands[pos])
  /\ pos' = pos + 1
  /\ UNCHANGED <<refcount, heap, loc, depth, cands, dropped, phase, stack,
                 forced, collected, wild, aborted>>

\* The object is freed by force.
ForceFree ==
  /\ Collecting /\ pos <= Len(cands) /\ cands[pos] # Null
  /\ heap[cands[pos]] # "free"
  /\ refcount[cands[pos]] > 0 /\ Expendable(cands[pos])
  /\ refcount' = [refcount EXCEPT ![cands[pos]] = 0]
  /\ heap' = [heap EXCEPT ![cands[pos]] = "dying"]
  /\ stack' = <<cands[pos]>>
  /\ forced' = cands[pos]
  /\ UNCHANGED <<loc, depth, cands, dropped, phase, pos, collected, wild,
                 aborted>>

\* The header of a candidate that was freed since is read.
ReadFreed ==
  /\ Collecting /\ pos <= Len(cands) /\ cands[pos] # Null
  /\ heap[cands[pos]] = "free" /\ Wild

\* Mutant: the list is never emptied, and the handler begins again.
FinishAgain ==
  /\ Collecting /\ pos > Len(cands)
  /\ pos' = 1
  /\ UNCHANGED <<refcount, heap, loc, depth, cands, dropped, phase, stack,
                 forced, collected, wild, aborted>>

\* The end of the loop, whose bound is read again at every turn.
Finish ==
  /\ Collecting /\ pos > Len(cands)
  /\ cands' = << >>
  /\ phase' = "done"
  /\ UNCHANGED <<refcount, heap, loc, depth, dropped, pos, stack, forced,
                 collected, wild, aborted>>

Collect == Skip \/ Keep \/ ForceFree \/ ReadFreed \/ Finish

Next ==
  \/ \E v \in Var :
       \/ \E o \in Obj : Alloc(v, o)
       \/ ReleaseLast(v) \/ ReleaseCandidate(v)
  \/ \E o \in Obj, d \in Loc : Retain(o, d)
  \/ Free \/ Exit \/ Collect

Spec == Init /\ [][Next]_vars

\* The atexit handler, once called, is not suspended for ever.
FairSpec == Spec /\ WF_vars(Collect)

-----------------------------------------------------------------------------
\* Until exit the collector interferes with nothing: what variables and fields
\* hold is alive and the counts are those of the references, so replacing
\* release by release_cycle_candidate is safe while the program runs.
SafeUntilExit ==
  phase = "run" /\ ~wild =>
    /\ \A l \in Loc : loc[l] # Null => heap[loc[l]] = "live"
    /\ \A o \in Obj : refcount[o] = Cardinality({l \in Loc : loc[l] = o})

\* Every object that no variable holds any more but some field still does is
\* in the candidate list, unless the list overflowed: an object that may be
\* garbage is never forgotten while the program runs.
GarbageIsCandidate ==
  phase = "run" /\ ~dropped =>
    \A o \in Obj :
      heap[o] = "live" /\ (\A v \in Var : loc[v] # o) =>
        \E j \in 1..Len(cands) : cands[j] = o

\* When the collector has freed an object no entry names it any more, however
\* deinit_fn re-entered the runtime meanwhile: it is not freed a second time.
CollectedIsPurged ==
  ~wild => \A o \in collected : \A j \in 1..Len(cands) : cands[j] # o

\* Two objects that refer to each other, and to which nothing else refers, do
\* not survive exit if no candidate was skipped: the two-object cycle the
\* collector's comment says it handles.
PairsAreCollected ==
  phase = "done" /\ ~dropped =>
    ~ \E a, b \in Obj :
        /\ heap[a] = "live" /\ heap[b] = "live"
        /\ loc[a] = b /\ loc[b] = a
        /\ {l \in Loc : loc[l] \in {a, b}} = {a, b}

\* From the release that may leave garbage to the free at exit nothing goes
\* missing and nothing is freed twice: what may be garbage is a candidate,
\* what was collected is none, and no isolated pair is left at the end; the
\* list never outgrows its room.
GarbageIsCollected ==
  TypeOK /\ GarbageIsCandidate /\ CollectedIsPurged /\ PairsAreCollected

\* Collection ends, provided each deinit_fn returns, although deinit_fn may
\* append candidates to the list that the loop runs over: the list is bounded
\* and never shrinks meanwhile.
DeinitsReturn ==
  \A n \in 1..Cardinality(Obj) :
    Len(stack) = n ~> Len(stack) < n \/ wild \/ aborted

CollectionEnds ==
  DeinitsReturn => (phase = "exit" ~> phase = "done" \/ wild \/ aborted)
=============================================================================
