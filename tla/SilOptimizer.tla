---------------------------- MODULE SilOptimizer ----------------------------
(***************************************************************************)
(* The passes over TinySIL (toolchain/tiny_sil_optimizer) and the loop of  *)
(* RunPerformancePasses that runs them: Mem2Reg, ARC elimination and dead  *)
(* code elimination, round after round, after the definite initialisation  *)
(* pass has accepted or rejected the function.  The verifier looks at the  *)
(* function before the passes and after them (PostSilGen).                 *)
(*                                                                         *)
(* A function is built statement by statement, in the shapes tiny_sil_gen  *)
(* emits, as one block, or as an entry block, the block of an if and the   *)
(* block after it.  Then the passes run.  What a function does is the      *)
(* trace of its calls, prints and returned values along a path, computed   *)
(* with symbolic values.                                                   *)
(*                                                                         *)
(* A value is named by its id.  The parameters of the function are two     *)
(* integers and an object.  Left out: loops, block arguments, class-typed  *)
(* vars (ArcInsertion shows what is wrong with those), closures.           *)
(***************************************************************************)
EXTENDS Integers, Sequences, SequencesExt

CONSTANTS MaxStmts,   \* bound: statements in the function
          MaxId       \* bound: values in the function

ASSUME BoundsAssumption == MaxStmts \in Nat /\ MaxId \in Nat /\ MaxId > 3

VARIABLES
  phase,     \* "build", then the pass to run next, then "done"
  stmts,     \* number of statements built
  next,      \* the next value id
  current,   \* the block being built
  ints,      \* the integers in scope
  locals,    \* the alloc_stack of each var in scope
  objects,   \* the class references in scope
  cleanups,  \* the references to release, in order of declaration
  scope,     \* the scope outside the if that is being built
  fn,        \* the function: a sequence of blocks of instructions
  source,    \* the function as it was before the passes
  accepted,  \* success_: no error of the verifier or of the first pass
  iter,      \* the round of RunPerformancePasses
  changed    \* whether a pass of this round changed the function

built == <<stmts, next, current, ints, locals, objects, cleanups, scope>>
vars == <<phase, built, fn, source, accepted, iter, changed>>

kMaxIterations == 4

Id == 1..MaxId

IntParams == {1, 2}
ObjectParam == 3

Kind == {"alloc_stack", "store", "load", "field_addr", "print", "apply",
         "alloc_class", "retain", "release", "extract", "br", "cond_br",
         "return"}

Instr == [kind : Kind, res : {0} \cup Id, args : Seq(Id)]

I(kind, res, args) == [kind |-> kind, res |-> res, args |-> args]

TypeOK ==
  /\ phase \in {"build", "definite init", "mem2reg", "arc", "dce", "done"}
  /\ stmts \in 0..MaxStmts /\ next \in 4..(MaxId + 1) /\ current \in 1..3
  /\ ints \subseteq Id /\ locals \subseteq Id /\ objects \subseteq Id
  /\ cleanups \in Seq(objects)
  /\ scope \in [ints : SUBSET Id, locals : SUBSET Id]
  /\ fn \in Seq(Seq(Instr)) /\ source \in Seq(Seq(Instr))
  /\ accepted \in BOOLEAN /\ iter \in 0..kMaxIterations /\ changed \in BOOLEAN

Init ==
  /\ phase = "build" /\ stmts = 0 /\ next = 4 /\ current = 1
  /\ ints = IntParams /\ locals = {} /\ objects = {ObjectParam}
  /\ cleanups = << >> /\ scope = [ints |-> {}, locals |-> {}]
  /\ fn = << << >> >> /\ source = << << >> >>
  /\ accepted = TRUE /\ iter = 0 /\ changed = FALSE

-----------------------------------------------------------------------------
(* The functions *)

Emitted(code) == [fn EXCEPT ![current] = @ \o code]

\* A statement emits the instructions code, which define n new values.
Statement(code, n) ==
  /\ phase = "build" /\ stmts < MaxStmts
  /\ next + n <= MaxId + 1
  /\ stmts' = stmts + 1
  /\ next' = next + n
  /\ fn' = Emitted(code)
  /\ UNCHANGED <<phase, current, scope, source, accepted, iter, changed>>

\* `var x = v`, and `var x: T` without an initialiser.  The first parameter is
\* for initialisers, the second for assignments.
DeclareVar(v) ==
  /\ v \in ints \ {2}
  /\ Statement(<<I("alloc_stack", next, << >>), I("store", 0, <<v, next>>)>>, 1)
  /\ locals' = locals \cup {next}
  /\ UNCHANGED <<ints, objects, cleanups>>

DeclareUninitialized ==
  /\ Statement(<<I("alloc_stack", next, << >>)>>, 1)
  /\ locals' = locals \cup {next}
  /\ UNCHANGED <<ints, objects, cleanups>>

\* `x = v`
Assign(x, v) ==
  /\ x \in locals /\ v \in ints \ {1}
  /\ Statement(<<I("store", 0, <<v, x>>)>>, 0)
  /\ UNCHANGED <<ints, locals, objects, cleanups>>

\* `x.f = v`, v being the second parameter
AssignField(x) ==
  /\ x \in locals
  /\ Statement(<<I("field_addr", next, <<x>>), I("store", 0, <<2, next>>)>>, 1)
  /\ UNCHANGED <<ints, locals, objects, cleanups>>

\* `let k = x`
Read(x) ==
  /\ x \in locals
  /\ Statement(<<I("load", next, <<x>>)>>, 1)
  /\ ints' = ints \cup {next}
  /\ UNCHANGED <<locals, objects, cleanups>>

\* `print(v)`
PrintValue(v) ==
  /\ v \in ints \ IntParams
  /\ Statement(<<I("print", 0, <<v>>)>>, 0)
  /\ UNCHANGED <<ints, locals, objects, cleanups>>

\* `f(&x)` and `f(a)`
Call(a) ==
  /\ a \in locals \cup objects
  /\ Statement(<<I("apply", next, <<a>>)>>, 1)
  /\ UNCHANGED <<ints, locals, objects, cleanups>>

\* `let a = C()`, by the memberwise initialiser or by a call
NewObject(kind) ==
  /\ current # 2
  /\ Statement(<<I(kind, next, << >>)>>, 1)
  /\ objects' = objects \cup {next}
  /\ cleanups' = Append(cleanups, next)
  /\ UNCHANGED <<ints, locals>>

\* `let b = a`: the binding forwards the value a.
Copy(a) ==
  /\ current # 2
  /\ a \in objects
  /\ Statement(<<I("retain", 0, <<a>>)>>, 0)
  /\ cleanups' = Append(cleanups, a)
  /\ UNCHANGED <<ints, locals, objects>>

\* `print(a.f)`
PrintField(a) ==
  /\ a \in objects
  /\ Statement(<<I("extract", next, <<a>>), I("print", 0, <<next>>)>>, 1)
  /\ UNCHANGED <<ints, locals, objects, cleanups>>

\* The releases and the return instruction of `return v`.
ReturnCode(v) ==
  LET last == Reverse(cleanups)
  IN  [i \in DOMAIN last |-> I("release", 0, <<last[i]>>)]
      \o <<I("return", 0, <<v>>)>>

\* `if c {`: the block of the if and the block after it are added.
BeginIf ==
  /\ phase = "build" /\ Len(fn) = 1 /\ stmts < MaxStmts
  /\ fn' = Emitted(<<I("cond_br", 0, <<1>>)>>) \o << << >>, << >> >>
  /\ current' = 2
  /\ scope' = [ints |-> ints, locals |-> locals]
  /\ UNCHANGED <<phase, stmts, next, ints, locals, objects, cleanups, source,
                 accepted, iter, changed>>

EndBlock(code) ==
  /\ phase = "build" /\ current = 2
  /\ fn' = Emitted(code)
  /\ current' = 3
  /\ ints' = scope.ints /\ locals' = scope.locals
  /\ UNCHANGED <<phase, stmts, next, objects, cleanups, scope, source,
                 accepted, iter, changed>>

\* `}`
EndIf == EndBlock(<<I("br", 0, << >>)>>)

\* `return v }`, v being the last integer that was read
ReturnEarly == EndBlock(ReturnCode(Max(ints)))

EndFunction ==
  /\ phase = "build" /\ current # 2
  /\ fn' = Emitted(ReturnCode(Max(ints)))
  /\ source' = fn'
  /\ phase' = "definite init"
  /\ UNCHANGED <<built, accepted, iter, changed>>

Build ==
  \/ \E v \in Id : DeclareVar(v) \/ PrintValue(v)
  \/ \E x, v \in Id : Assign(x, v)
  \/ \E x \in Id :
       AssignField(x) \/ Read(x) \/ Call(x) \/ Copy(x) \/ PrintField(x)
  \/ \E kind \in {"alloc_class", "apply"} : NewObject(kind)
  \/ DeclareUninitialized
  \/ BeginIf \/ EndIf \/ ReturnEarly \/ EndFunction

-----------------------------------------------------------------------------
(* The passes *)

Uses(i) == Range(i.args)

InstsOf(f, kind) ==
  UNION {{i \in Range(f[b]) : i.kind = kind} : b \in DOMAIN f}

Stored(f) == {i.args[2] : i \in InstsOf(f, "store")}

\* Mutant: only stores to the whole variable count.
HasWholeStore(f, x) == x \in Stored(f)

\* A store to the variable x or to a field of it is somewhere in f.
HasStore(f, x) ==
  \/ x \in Stored(f)
  \/ \E i \in InstsOf(f, "field_addr") : i.args[1] = x /\ i.res \in Stored(f)

\* CheckDefiniteInit: a variable that is loaded has a store in the function.
DefinitelyInitialized(f) ==
  \A i \in InstsOf(f, "load") : HasStore(f, i.args[1])

\* SILVerifier: the blocks end in their only terminator, no value is defined
\* twice, and the operands an instruction of its kind must have are there.
IsTerminator(kind) == kind \in {"br", "cond_br", "return"}

VerifyBasicBlock(b) ==
  b # << >> /\ \A n \in DOMAIN b : IsTerminator(b[n].kind) <=> n = Len(b)

VerifyInstruction(i) ==
  CASE i.kind = "store" -> Len(i.args) = 2
    [] i.kind \in {"cond_br", "return", "load"} -> i.args # << >>
    [] i.kind = "alloc_stack" -> i.res # 0
    [] OTHER -> TRUE

DefinedOnce(f) ==
  LET defining == SelectSeq(FlattenSeq(f), LAMBDA i : i.res # 0)
  IN  IsInjective([n \in DOMAIN defining |-> defining[n].res])

VerifySILModule(f) ==
  /\ DefinedOnce(f)
  /\ \A b \in DOMAIN f :
       VerifyBasicBlock(f[b]) /\ \A i \in Range(f[b]) : VerifyInstruction(i)

\* The verifier and the pass report their errors; the passes that follow run
\* regardless.
DefiniteInitialization ==
  /\ phase = "definite init"
  /\ accepted' = (VerifySILModule(fn) /\ DefinitelyInitialized(fn))
  /\ phase' = "mem2reg" /\ iter' = 1 /\ changed' = FALSE
  /\ UNCHANGED <<built, fn, source>>

\* The alloc_stacks of a block.
Allocs(b) == {i.res : i \in {j \in Range(b) : j.kind = "alloc_stack"}}

\* Mutant: a variable that is passed to a call has not escaped.
ScanWithoutEscapes(allocs, s, i) ==
  CASE i.kind = "store" /\ i.args[2] \in allocs ->
         [s EXCEPT !.stored[i.args[2]] = i.args[1]]
    [] i.kind = "load" -> [s EXCEPT !.promoted[i.res] = s.stored[i.args[1]]]
    [] OTHER -> s

\* One instruction of the scan: the last value stored to each alloc_stack of
\* the block, the alloc_stacks passed to a call, and the value that stands
\* for the result of each load (0 for none).
Scan(allocs, s, i) ==
  CASE i.kind = "apply" ->
         [s EXCEPT !.escaped = @ \cup (Uses(i) \cap allocs)]
    [] i.kind = "store" /\ i.args[2] \in allocs \ s.escaped ->
         [s EXCEPT !.stored[i.args[2]] = i.args[1]]
    [] i.kind = "load" /\ i.args[1] \notin s.escaped ->
         [s EXCEPT !.promoted[i.res] = s.stored[i.args[1]]]
    [] OTHER -> s

\* The value for each load of the block b that is promoted, or 0.
Promoted(b) ==
  LET none == [v \in Id |-> 0]
      step(s, i) == Scan(Allocs(b), s, i)
  IN  FoldLeft(step, [stored |-> none, escaped |-> {}, promoted |-> none],
               b).promoted

\* Mutant: a load that is not promoted is replaced as well.
RenameAlways(b, to) ==
  [n \in DOMAIN b |-> [b[n] EXCEPT !.args = [k \in DOMAIN @ |-> to[@[k]]]]]

\* The instructions of b with the operands replaced that to has values for.
Rename(b, to) ==
  [n \in DOMAIN b |->
     [b[n] EXCEPT !.args = [k \in DOMAIN @ |->
                              IF to[@[k]] # 0 THEN to[@[k]] ELSE @[k]]]]

RunMem2Reg(f) == [b \in DOMAIN f |-> Rename(f[b], Promoted(f[b]))]

Mem2Reg ==
  /\ phase = "mem2reg"
  /\ fn' = RunMem2Reg(fn)
  /\ changed' = \E b \in DOMAIN fn, v \in Id : Promoted(fn[b])[v] # 0
  /\ phase' = "arc"
  /\ UNCHANGED <<built, source, accepted, iter>>

At(p) == fn[p[1]][p[2]]

\* The places of the instructions of a kind that use v, in order.
Places(kind, v) ==
  SelectSeq(FlattenSeq([b \in DOMAIN fn |->
                          [n \in DOMAIN fn[b] |-> <<b, n>>]]),
            LAMBDA p : At(p).kind = kind /\ v \in Uses(At(p)))

Retains(v) == Places("retain", v)
Releases(v) == Places("release", v)

IsAllocClass(v) == \E i \in InstsOf(fn, "alloc_class") : i.res = v

\* ClassifyUse: no instruction that uses v may store it.
OnlyBorrowed(v) ==
  \A b \in DOMAIN fn : \A i \in Range(fn[b]) :
    v \in Uses(i) =>
      /\ i.kind \notin {"apply", "return"}
      /\ i.kind = "store" => i.args[1] # v

\* The retains and releases of v are eliminated as pairs.
Paired(v) ==
  /\ Retains(v) # << >> /\ Releases(v) # << >>
  /\ IsAllocClass(v) => Len(Releases(v)) > Len(Retains(v))
  /\ OnlyBorrowed(v)

\* Mutant: the release that frees the object is not kept.
PairedReleasesAll(v) == Releases(v)

\* Mutant: of an allocation, one release too few is eliminated.
PairedReleasesFewer(v) ==
  IF IsAllocClass(v) THEN SubSeq(Releases(v), 1, Len(Retains(v)) - 1)
  ELSE Releases(v)

\* The releases that are eliminated: for an allocation as many as retains.
PairedReleases(v) ==
  IF IsAllocClass(v) THEN SubSeq(Releases(v), 1, Len(Retains(v)))
  ELSE Releases(v)

\* v is used, by other than a retain or release, after place n of block b.
UsedIn(v, b, from, to) ==
  \E n \in from..to :
    v \in Uses(fn[b][n]) /\ fn[b][n].kind \notin {"retain", "release"}

\* The one retain of v and its first release are eliminated as a move.
Moved(v) ==
  /\ ~Paired(v) /\ ~IsAllocClass(v)
  /\ Len(Retains(v)) = 1 /\ Releases(v) # << >>
  /\ LET p == Head(Retains(v))
          q == Head(Releases(v))
      IN  /\ p[1] = q[1]
          /\ ~UsedIn(v, p[1], p[2] + 1, q[2] - 1)
          /\ ~UsedIn(v, p[1], q[2] + 1, Len(fn[p[1]]))

\* RunARCElimination: the places of the instructions to remove.
ToRemove ==
  UNION {Range(Retains(v)) \cup Range(PairedReleases(v)) :
           v \in {w \in Id : Paired(w)}}
  \cup UNION {{Head(Retains(v)), Head(Releases(v))} :
                v \in {w \in Id : Moved(w)}}

Without(f, places) ==
  [b \in DOMAIN f |->
     LET kept == SelectSeq([n \in DOMAIN f[b] |-> n],
                           LAMBDA n : <<b, n>> \notin places)
     IN  [k \in DOMAIN kept |-> f[b][kept[k]]]]

ARCElimination ==
  /\ phase = "arc"
  /\ fn' = Without(fn, ToRemove)
  /\ changed' = (changed \/ ToRemove # {})
  /\ phase' = "dce"
  /\ UNCHANGED <<built, source, accepted, iter>>

HasSideEffects(i) == i.kind \notin {"load", "field_addr", "extract"}

\* Mutant: the operands of a store are not taken for uses.
UsedIdsNotStored(f) ==
  UNION {UNION {IF i.kind = "store" THEN {} ELSE Uses(i) : i \in Range(f[b])} :
           b \in DOMAIN f}

\* The values that are operands of an instruction.
UsedIds(f) == UNION {UNION {Uses(i) : i \in Range(f[b])} : b \in DOMAIN f}

\* The places of the instructions whose result is not used.
Dead(f) ==
  LET used == UsedIds(f)
      dead(i) == i.res # 0 /\ ~HasSideEffects(i) /\ i.res \notin used
  IN  UNION {{<<b, n>> : n \in {m \in DOMAIN f[b] : dead(f[b][m])}} :
               b \in DOMAIN f}

\* The last pass of a round; another round follows if one changed anything,
\* or else the optimised function is verified.
DeadCodeElimination ==
  /\ phase = "dce"
  /\ fn' = Without(fn, Dead(fn))
  /\ IF (changed \/ Dead(fn) # {}) /\ iter < kMaxIterations
     THEN phase' = "mem2reg" /\ iter' = iter + 1 /\ UNCHANGED accepted
     ELSE /\ phase' = "done" /\ iter' = iter
          /\ accepted' = (accepted /\ VerifySILModule(fn'))
  /\ changed' = FALSE
  /\ UNCHANGED <<built, source>>

Next == Build \/ DefiniteInitialization \/ Mem2Reg \/ ARCElimination
              \/ DeadCodeElimination

Spec == Init /\ [][Next]_vars

-----------------------------------------------------------------------------
(* What a function does.  A symbolic value is a sequence of numbers, and     *)
(* << >> for a value that no instruction has defined.                        *)

Returns(f, b) == Last(f[b]).kind = "return"

\* The paths through the blocks of f.
Paths(f) ==
  IF Len(f) = 1 THEN {<<1>>}
  ELSE {<<1, 3>>, IF Returns(f, 2) THEN <<1, 2>> ELSE <<1, 2, 3>>}

Uninitialized == <<0>>

\* The state of an execution: the value of each id, the alloc_stack an
\* address points into, its content, the reference count of each object, the
\* trace, and what has gone wrong.
Start ==
  [val |-> [v \in Id |-> IF v \in IntParams \cup {ObjectParam} THEN <<v>>
                         ELSE << >>],
   base |-> [v \in Id |-> 0],
   mem |-> [v \in Id |-> Uninitialized],
   refs |-> [v \in Id |-> IF v = ObjectParam THEN 1 ELSE 0],
   trace |-> << >>, undefined |-> FALSE, dead |-> FALSE, uninit |-> FALSE]

\* What an instruction is given: the content of a variable, or a value.
Given(s, v) == IF s.base[v] # 0 THEN s.mem[s.base[v]] ELSE s.val[v]

Result(s, i) ==
  CASE i.kind = "load" -> s.mem[i.args[1]]
    [] i.kind = "extract" -> <<-4>> \o s.val[i.args[1]]
    [] OTHER -> <<-2, Len(s.trace)>>

\* The variable an instruction writes, or 0.
Written(s, i) ==
  CASE i.kind = "store" -> s.base[i.args[2]]
    [] i.kind = "apply" /\ i.args # << >> -> s.base[i.args[1]]
    [] OTHER -> 0

\* The content of the variable x after an instruction that writes it.
Content(s, i, x) ==
  CASE i.kind = "apply" -> <<-3, Len(s.trace)>>
    [] i.kind = "store" /\ i.args[2] = x -> s.val[i.args[1]]
    [] OTHER -> s.mem[x] \o <<-1>> \o s.val[i.args[1]]

Event(s, i) ==
  IF i.kind \notin {"print", "apply", "alloc_class", "return"} THEN << >>
  ELSE << <<i.kind, [k \in DOMAIN i.args |-> Given(s, i.args[k])]>> >>

Execute(s, i) ==
  [val |-> IF i.res = 0 THEN s.val ELSE [s.val EXCEPT ![i.res] = Result(s, i)],
   base |-> CASE i.kind = "alloc_stack" -> [s.base EXCEPT ![i.res] = i.res]
              [] i.kind = "field_addr" -> [s.base EXCEPT ![i.res] = i.args[1]]
              [] OTHER -> s.base,
   mem |-> LET x == Written(s, i)
           IN  IF x = 0 THEN s.mem ELSE [s.mem EXCEPT ![x] = Content(s, i, x)],
   refs |-> CASE i.kind \in {"alloc_class", "apply"} ->
                   [s.refs EXCEPT ![i.res] = 1]
              [] i.kind = "retain" -> [s.refs EXCEPT ![i.args[1]] = @ + 1]
              [] i.kind = "release" -> [s.refs EXCEPT ![i.args[1]] = @ - 1]
              [] OTHER -> s.refs,
   trace |-> s.trace \o Event(s, i),
   undefined |-> s.undefined \/ \E v \in Uses(i) : s.val[v] = << >>,
   dead |-> s.dead \/ /\ i.kind \in {"retain", "release", "extract", "apply"}
                      /\ \E v \in Uses(i) : s.base[v] = 0 /\ s.refs[v] < 1,
   uninit |-> s.uninit \/ /\ i.kind \in {"load", "apply"}
                          /\ \E v \in Uses(i) : Given(s, v) = Uninitialized]

Run(f, path) ==
  FoldLeft(Execute, Start, FlattenSeq([n \in DOMAIN path |-> f[path[n]]]))

\* A field of a variable is assigned.
StoresField == InstsOf(source, "field_addr") # {}

\* A call's result is copied, or an allocation in a function that has two
\* returns.
CopiesOwned ==
  \E i \in InstsOf(source, "retain") :
    /\ i.args[1] # ObjectParam
    /\ \/ \E j \in InstsOf(source, "apply") : j.res = i.args[1]
       \/ Len(source) = 3 /\ Returns(source, 2)

-----------------------------------------------------------------------------
\* The passes do not change what the function does: on every path it makes
\* the same calls, prints and returns the same values, unless it assigns a
\* field of a variable.
SameTrace ==
  phase = "done" /\ ~StoresField =>
    \A path \in Paths(source) :
      Run(fn, path).trace = Run(source, path).trace

\* ARC elimination removes as many retains as releases of an object on every
\* path, unless the function copies a reference it owns in one of two ways.
CountsAreKept ==
  phase = "done" /\ ~CopiesOwned =>
    \A path \in Paths(source) : Run(fn, path).refs = Run(source, path).refs

\* No object is used, retained or released after its count is 0.
ObjectsStayAlive ==
  phase = "done" /\ ~CopiesOwned =>
    \A path \in Paths(source) : ~Run(fn, path).dead

\* On every path, an operand has been defined by an earlier instruction.
DefinedBeforeUse ==
  phase = "done" =>
    \A path \in Paths(source) : ~Run(fn, path).undefined

\* A function that is rejected does read an uninitialised variable: neither
\* what tiny_sil_gen emits nor what the passes make of it fails to verify.
RejectedIsUninitialized ==
  ~accepted => \E path \in Paths(source) : Run(source, path).uninit

\* ARC elimination changes neither what an object's count is in the end nor
\* whether it is alive where it is used.
OwnershipIsKept == CountsAreKept /\ ObjectsStayAlive

\* What the passes accept has no use of what is not defined, also after they
\* have changed it, and what they reject has a read that is wrong.
VerdictIsSound == TypeOK /\ DefinedBeforeUse /\ RejectedIsUninitialized
=============================================================================
