---------------------------- MODULE ArcInsertion ----------------------------
(***************************************************************************)
(* How the checker inserts reference counting into a function body         *)
(* (toolchain/check: handle_decl.cpp, handle_stmt.cpp, handle_function.cpp *)
(* and the cleanup stack of context.cpp), and what the inserted code does  *)
(* when the function runs.                                                 *)
(*                                                                         *)
(* The checker takes the statements of a body in source order, whatever    *)
(* block they are in, and appends instructions to the code; then the code  *)
(* runs.  The locals are of class type; an object is named by the local    *)
(* whose initialiser allocated it.  C() stands for an AllocClass and for a *)
(* call, which both hand over a reference.  Loops, closures, calls of      *)
(* other functions and fields of objects are left out, and so is the body  *)
(* of deinit.                                                              *)
(*                                                                         *)
(* The checker does not treat every form of statement as it should.  The   *)
(* variable forms records which of those it does not have been used.       *)
(***************************************************************************)
EXTENDS Integers, Sequences, FiniteSets, SequencesExt

CONSTANTS Local,      \* names of local variables
          None,       \* no local, no object
          MaxStmts    \* bound: statements in the body

ASSUME NoneAssumption == None \notin Local
ASSUME FiniteAssumption == IsFiniteSet(Local) /\ MaxStmts \in Nat

VARIABLES
  phase,     \* "check", then "run", then "returned"
  stmts,     \* number of statements checked
  block,     \* the block being checked: "body", or the "then" of an if
  ended,     \* IsCurrentBlockTerminated
  decl,      \* how each local was declared: "not", as a "let" or a "var"; a
             \* "temporary" has no name in the program
  cleanups,  \* class_cleanup_stack_.back(): the locals to release
  defers,    \* deferred_blocks_: the local each block uses, or None
  code,      \* the instructions emitted
  open,      \* where the if that is being checked is in the code
  forms,     \* the forms of statement used that are not supported
  pc,        \* the instruction that runs next
  slot,      \* the object each local refers to
  refs,      \* the reference count of each object, 0 when it is free
  result,    \* the object the return expression evaluated to
  pending,   \* the defer statements executed whose block has not run
  released,  \* the locals released, in order
  wild       \* memory that is no live object was accessed

checking == <<stmts, block, ended, decl, cleanups, defers, code, open, forms>>
running == <<pc, slot, refs, result, pending, released, wild>>
vars == <<phase, checking, running>>

Form == {"var", "conditional", "returns class", "returns nothing",
         "implicit return", "defer uses class", "defer, no return"}

Instr == [op : {"new", "retain", "bind", "release", "releaseSlot", "use", "if",
                "defer", "runDeferred", "eval", "ret"},
          v : Local \cup {None} \cup Nat,
          w : Local \cup {None}]

TypeOK ==
  /\ phase \in {"check", "run", "returned"}
  /\ stmts \in 0..MaxStmts /\ block \in {"body", "then"} /\ ended \in BOOLEAN
  /\ decl \in [Local -> {"not", "let", "var", "temporary"}]
  /\ cleanups \in Seq(Local) /\ defers \in Seq(Local \cup {None})
  /\ code \in Seq(Instr) /\ open \in 0..Len(code) /\ forms \subseteq Form
  /\ pc \in 1..(Len(code) + 1)
  /\ slot \in [Local -> Local \cup {None}] /\ refs \in [Local -> Nat]
  /\ result \in Local \cup {None} /\ pending \in Seq(Local \cup {None})
  /\ released \in Seq(Local) /\ wild \in BOOLEAN

Init ==
  /\ phase = "check" /\ stmts = 0 /\ block = "body" /\ ended = FALSE
  /\ decl = [v \in Local |-> "not"] /\ cleanups = << >> /\ defers = << >>
  /\ code = << >> /\ open = 0 /\ forms = {}
  /\ pc = 1 /\ slot = [v \in Local |-> None] /\ refs = [v \in Local |-> 0]
  /\ result = None /\ pending = << >> /\ released = << >> /\ wild = FALSE

I(op, v, w) == [op |-> op, v |-> v, w |-> w]

Declared == {v \in Local : decl[v] \in {"let", "var"}}

-----------------------------------------------------------------------------
(* The checker *)

\* A statement is handled; nothing follows a return in its block.
Statement ==
  /\ phase = "check"
  /\ stmts < MaxStmts
  /\ ~ended
  /\ stmts' = stmts + 1
  /\ UNCHANGED <<phase, running>>

Used(b, form) == IF b THEN {form} ELSE {}

\* Mutant: a copy is taken for a reference that is handed over.
InitUnretained(v, w) ==
  IF w = None THEN <<I("new", v, None)>> ELSE <<I("bind", v, w)>>

\* The code of `let v = C()` (w = None) and of `let v = w`: a copy retains.
InitCode(v, w) ==
  IF w = None THEN <<I("new", v, None)>>
  ELSE <<I("retain", w, None), I("bind", v, w)>>

\* AddClassCleanup
AddClassCleanup(v, w) == Append(cleanups, v)

\* `let v = ...` and `var v = ...`.  The scope of the cleanup is the function,
\* whichever block the declaration is in.
Declare(v, w, kind) ==
  /\ Statement
  /\ decl[v] = "not"
  /\ w \in Declared \cup {None}
  /\ decl' = [decl EXCEPT ![v] = kind]
  /\ code' = code \o InitCode(v, w)
  /\ cleanups' = AddClassCleanup(v, w)
  /\ forms' = forms \cup Used(kind = "var", "var")
                    \cup Used(block = "then", "conditional")
  /\ UNCHANGED <<block, ended, defers, open>>

\* `v = w`: the reference is stored, without a retain or a release.
Assign(v, w) ==
  /\ Statement
  /\ decl[v] = "var" /\ w \in Declared
  /\ code' = Append(code, I("bind", v, w))
  /\ UNCHANGED <<block, ended, decl, cleanups, defers, open, forms>>

\* `C()` as a statement: the object belongs to no local.
Discard(v) ==
  /\ Statement
  /\ decl[v] = "not"
  /\ decl' = [decl EXCEPT ![v] = "temporary"]
  /\ code' = Append(code, I("new", v, None))
  /\ UNCHANGED <<block, ended, cleanups, defers, open, forms>>

\* A statement that reads a field of v.
Use(v) ==
  /\ Statement
  /\ v \in Declared
  /\ code' = Append(code, I("use", v, None))
  /\ UNCHANGED <<block, ended, decl, cleanups, defers, open, forms>>

\* `defer { ... }`: the block is remembered, and emits nothing here.  (The
\* instruction "defer" does nothing but note that the statement was reached.)
Defer(v) ==
  /\ Statement
  /\ v \in Declared \cup {None}
  /\ defers' = Append(defers, v)
  /\ code' = Append(code, I("defer", v, None))
  /\ forms' = forms \cup Used(v # None, "defer uses class")
                    \cup Used(block = "then", "conditional")
  /\ UNCHANGED <<block, ended, decl, cleanups, open>>

\* `if c {`
BeginIf ==
  /\ Statement
  /\ block = "body"
  /\ block' = "then"
  /\ code' = Append(code, I("if", 0, None))
  /\ open' = Len(code) + 1
  /\ UNCHANGED <<ended, decl, cleanups, defers, forms>>

\* `}`: the code that follows is the merge block.
EndIf ==
  /\ phase = "check" /\ block = "then"
  /\ block' = "body" /\ ended' = FALSE
  /\ code' = [code EXCEPT ![open].v = Len(code) + 1]
  /\ open' = 0
  /\ UNCHANGED <<phase, stmts, decl, cleanups, defers, forms, running>>

\* Mutant: the releases are in the order of the declarations.
ReleasesForward == [i \in DOMAIN cleanups |-> I("release", cleanups[i], None)]

\* EmitCleanupReleases and PopCleanupScope: a release of each local, the last
\* one first.  The operand of a var is the address of its storage.
Releases ==
  LET last == Reverse(cleanups)
  IN  [i \in DOMAIN last |->
         I(IF decl[last[i]] = "var" THEN "releaseSlot" ELSE "release",
           last[i], None)]

\* Mutant: the deferred blocks are emitted in the order of the source.
DeferredForward ==
  [i \in DOMAIN defers |-> I("runDeferred", defers[i], None)]

\* The deferred blocks, the last one first.
Deferred ==
  LET last == Reverse(defers)
  IN  [i \in DOMAIN last |-> I("runDeferred", last[i], None)]

\* Mutant: an early return releases nothing.
ReturnReleasesAtEnd == IF block = "then" THEN << >> ELSE Releases

\* The releases of a return statement.
ReturnReleases == Releases

\* `return e`: the expression is evaluated, the locals are released, the
\* deferred blocks run.  e is a local or, as None, no class reference.
Return(e) ==
  /\ Statement
  /\ e \in Declared \cup {None}
  /\ ended' = TRUE
  /\ code' = code \o <<I("eval", e, None)>> \o ReturnReleases \o Deferred
                  \o <<I("ret", None, None)>>
  /\ forms' = forms \cup Used(e # None, "returns class")
  /\ UNCHANGED <<block, decl, cleanups, defers, open>>

\* `return` without an expression: no locals are released.
ReturnNothing ==
  /\ Statement
  /\ ended' = TRUE
  /\ code' = code \o Deferred \o <<I("ret", None, None)>>
  /\ forms' = forms \cup {"returns nothing"}
  /\ UNCHANGED <<block, decl, cleanups, defers, open>>

\* Mutant: the locals are released behind an implicit return as well.
EndReleasesAlways(implicit) == Releases

\* PopCleanupScope releases nothing in a block that a return has ended.
EndReleases(implicit) == IF implicit THEN << >> ELSE Releases

\* The end of the body.  In a function that returns a value the last
\* expression, which may be a local e, is returned; a function without one
\* releases its locals.  The deferred blocks are dropped.
EndBody(implicit, e) ==
  /\ phase = "check" /\ block = "body"
  /\ phase' = "run"
  /\ ended => ~implicit
  /\ e \in IF implicit THEN Declared \cup {None} ELSE {None}
  /\ code' = code \o (IF ended THEN << >>
                      ELSE (IF implicit THEN <<I("eval", e, None)>> ELSE << >>)
                             \o EndReleases(implicit)
                             \o <<I("ret", None, None)>>)
  /\ forms' = forms \cup Used(implicit, "implicit return")
                    \cup Used(~ended /\ defers # << >>, "defer, no return")
  /\ ended' = TRUE
  /\ UNCHANGED <<stmts, block, decl, cleanups, defers, open, running>>

Check ==
  \/ \E v \in Local, w \in Local \cup {None}, kind \in {"let", "var"} :
       Declare(v, w, kind)
  \/ \E v, w \in Local : Assign(v, w)
  \/ \E v \in Local : Discard(v) \/ Use(v)
  \/ \E v \in Local \cup {None} : Defer(v) \/ Return(v)
  \/ BeginIf \/ EndIf \/ ReturnNothing
  \/ \E implicit \in BOOLEAN, e \in Local \cup {None} : EndBody(implicit, e)

-----------------------------------------------------------------------------
(* The function *)

Live(o) == o # None /\ refs[o] > 0

\* The instruction at pc, when it is one of ops; it may access the object o.
Step(ops, o) ==
  /\ phase = "run" /\ ~wild
  /\ code[pc].op \in ops
  /\ pc' = pc + 1
  /\ wild' = ~Live(o)
  /\ UNCHANGED <<phase, checking>>

New ==
  /\ phase = "run" /\ ~wild
  /\ code[pc].op = "new"
  /\ slot' = [slot EXCEPT ![code[pc].v] = code[pc].v]
  /\ refs' = [refs EXCEPT ![code[pc].v] = 1]
  /\ pc' = pc + 1
  /\ UNCHANGED <<phase, checking, result, pending, released, wild>>

Retain ==
  LET o == slot[code[pc].v]
  IN  /\ phase = "run" /\ code[pc].op = "retain"
      /\ Step({"retain"}, o)
      /\ refs' = IF Live(o) THEN [refs EXCEPT ![o] = @ + 1] ELSE refs
      /\ UNCHANGED <<slot, result, pending, released>>

Release ==
  LET v == code[pc].v
  IN  /\ phase = "run" /\ code[pc].op = "release"
      /\ Step({"release"}, slot[v])
      /\ refs' = IF Live(slot[v]) THEN [refs EXCEPT ![slot[v]] = @ - 1] ELSE refs
      /\ released' = Append(released, v)
      /\ UNCHANGED <<slot, result, pending>>

\* The release of a var is called with the address of its storage.
ReleaseSlot ==
  /\ phase = "run"
  /\ Step({"releaseSlot"}, None)
  /\ UNCHANGED <<slot, refs, result, pending, released>>

ReadField ==
  /\ phase = "run" /\ code[pc].op = "use"
  /\ Step({"use"}, slot[code[pc].v])
  /\ UNCHANGED <<slot, refs, result, pending, released>>

\* A deferred block runs; it is the one of the defer statement reached last.
RunDeferred ==
  LET v == code[pc].v
  IN  /\ phase = "run" /\ ~wild
      /\ code[pc].op = "runDeferred"
      /\ pc' = pc + 1
      /\ wild' = (v # None /\ ~Live(slot[v]))
      /\ pending' = IF pending # << >> /\ Last(pending) = v
                    THEN Front(pending) ELSE Append(pending, v)
      /\ UNCHANGED <<phase, checking, slot, refs, result, released>>

\* The instructions that touch no object: a copy of a reference, a defer
\* statement, the branch of an if, the value of the return expression.
Other ==
  LET c == code[pc]
  IN  /\ phase = "run" /\ ~wild
      /\ c.op \in {"bind", "defer", "if", "eval"}
      /\ pc' \in IF c.op = "if" THEN {pc + 1, c.v} ELSE {pc + 1}
      /\ slot' = IF c.op = "bind" THEN [slot EXCEPT ![c.v] = slot[c.w]]
                 ELSE slot
      /\ pending' = IF c.op = "defer" THEN Append(pending, c.v) ELSE pending
      /\ result' = IF c.op = "eval" /\ c.v # None THEN slot[c.v] ELSE result
      /\ UNCHANGED <<phase, checking, refs, released, wild>>

Ret ==
  /\ phase = "run" /\ ~wild
  /\ code[pc].op = "ret"
  /\ phase' = "returned"
  /\ UNCHANGED <<checking, running>>

Run == New \/ Retain \/ Release \/ ReleaseSlot \/ ReadField \/ RunDeferred
         \/ Other \/ Ret

Next == Check \/ Run

Spec == Init /\ [][Next]_vars

\* The locals have no properties of their own: bodies that differ in the names
\* of their locals are one.
LocalSymmetry == Permutations(Local)

-----------------------------------------------------------------------------
\* The function touches no object that is not alive, on whichever path it
\* leaves, unless it uses one of the forms of which this is not true: it
\* declares a class-typed var, declares a local or a defer block in a branch,
\* or has a deferred block that uses a local.
SafeAccess ==
  wild => forms \cap {"var", "conditional", "defer uses class"} # {}

\* Every object but the one returned and the values that were discarded is
\* freed when the function returns, by the releases of its copies, on whichever
\* path it leaves, unless that is an exit that emits no releases at all: a
\* return without a value or an implicit one.
NothingLeaks ==
  phase = "returned" =>
    \/ \A o \in Local \ {result} : decl[o] # "temporary" => refs[o] = 0
    \/ released = << >> /\ forms \cap {"returns nothing", "implicit return"} # {}
    \/ forms \cap {"var", "conditional"} # {}

\* The caller gets an object that is alive, unless it comes from a `return v`,
\* which releases all locals, v too, although "The return value (if
\* class-typed) is excluded from cleanup" (handle_stmt.cpp:76).
ResultIsAlive ==
  phase = "returned" /\ result # None =>
    \/ refs[result] > 0
    \/ released # << >> /\ "returns class" \in forms
    \/ forms \cap {"var", "conditional"} # {}

\* The locals are released in the reverse order of their declarations.
ReleasedInReverse ==
  \A i, j \in DOMAIN released : i < j =>
    \E m, n \in DOMAIN cleanups :
      m > n /\ cleanups[m] = released[i] /\ cleanups[n] = released[j]

\* Every deferred block that was reached has run once when the function
\* returns, the last one first, unless one is in a branch or the body ends
\* without a return.
DefersHaveRun ==
  phase = "returned" =>
    pending = << >> \/ forms \cap {"conditional", "defer, no return"} # {}

\* What a function has to do before it returns it does on every path: each
\* object released, last in first out, but not the one it hands over, and each
\* deferred block run.
CleanupIsComplete ==
  /\ TypeOK
  /\ NothingLeaks /\ ReleasedInReverse
  /\ ResultIsAlive
  /\ DefersHaveRun
=============================================================================
