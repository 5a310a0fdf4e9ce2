---------------------------- MODULE ControlFlow -----------------------------
(***************************************************************************)
(* What becomes of the statements of a function.  The checker builds       *)
(* blocks of instructions from its parse tree (Statements), SIL generation *)
(* and lowering walk the list of these blocks once, in its order           *)
(* (sil_gen.cpp, lower.cpp), and the code runs.  The variables are those   *)
(* of one run; what the calls return is chosen when they are made.  The    *)
(* run is compared with what the statements mean (Meaning), and with the   *)
(* checker's own interpreter for #comptime functions, which comes first.   *)
(***************************************************************************)
EXTENDS StatementMeaning, Integers, Sequences, FiniteSets

-----------------------------------------------------------------------------
(***************************************************************************)
(* The checker's interpreter for #comptime functions                       *)
(* (src/toolchain/check/comptime_eval.cpp): a walk over the same parse     *)
(* trees.  What an expression computes is opaque here as well: a call      *)
(* without an answer is a statement for its effect (an append), one with   *)
(* an answer takes the next of the given answers.  The state is a record:  *)
(* the answers left, what was done, the pending condition, and whether the *)
(* walk goes on, has returned, has met a statement it does not support, or *)
(* has run out of answers.                                                 *)
(***************************************************************************)
ComptimeStart(answers) ==
  [left |-> answers, done |-> <<>>, pending |-> [k |-> "none"],
   env |-> <<>>, status |-> "go"]

Going(m) == m.status = "go"

RECURSIVE EvalExpr(_, _), EvalStmt(_, _), EvalCodeBlockBody(_, _),
          EvalWhile(_, _, _), EvalForIn(_, _, _, _)

\* Both operands of && and || are evaluated.
EvalExpr(m, e) ==
  LET l == EvalExpr(m, e.l)
      r == EvalExpr(l.m, e.r)
      x == EvalExpr(m, e.x)
      c == EvalExpr(m, e.c)
  IN CASE ~Going(m) -> [m |-> m, v |-> FALSE]
       [] e.k = "act" -> [m |-> [m EXCEPT !.done = Append(@, <<"act", e.f>>)],
                          v |-> 0]
       [] e.k = "int" -> [m |-> m, v |-> e.n]
       [] e.k = "name" -> [m |-> m, v |-> m.env[e.name]]
       [] e.k = "show" ->
            [m |-> [x.m EXCEPT !.done = Append(@, <<"show", x.v>>)], v |-> 0]
       [] e.k = "test" ->
            IF m.left = <<>> THEN [m |-> [m EXCEPT !.status = "out"],
                                   v |-> FALSE]
            ELSE [m |-> [m EXCEPT !.left = Tail(@),
                           !.done = Append(@, <<"test", e.f, Head(m.left)>>)],
                  v |-> Head(m.left)]
       [] e.k = "not" -> [m |-> x.m, v |-> ~x.v]
       [] e.k = "and" -> [m |-> r.m, v |-> l.v /\ r.v]
       [] e.k = "or" -> [m |-> r.m, v |-> l.v \/ r.v]
       [] e.k = "tern" -> IF c.v THEN EvalExpr(c.m, e.t)
                          ELSE EvalExpr(c.m, e.f)
       [] OTHER -> [m |-> [m EXCEPT !.status = "error"], v |-> FALSE]

\* Nodes are taken in order; the one before an if or a while is its
\* condition.
EvalCodeBlockBody(m, nodes) ==
  IF nodes = <<>> \/ ~Going(m) THEN m
  ELSE LET n == Head(nodes)
           isExpr == n.k \in {"act", "test", "show", "not", "and", "or",
                              "tern", "name", "int"}
           next == IF Len(nodes) > 1 THEN nodes[2].k ELSE "none"
       IN EvalCodeBlockBody(
            IF isExpr /\ next \in {"if", "while"}
            THEN [m EXCEPT !.pending = n]
            ELSE IF isExpr THEN EvalExpr(m, n).m
            ELSE EvalStmt(m, n), Tail(nodes))

EvalWhile(m, cond, body) ==
  LET x == EvalExpr(m, cond)
      b == EvalCodeBlockBody(x.m, body)
  IN IF ~Going(x.m) \/ ~x.v THEN x.m
     ELSE IF ~Going(b) THEN b ELSE EvalWhile(b, cond, body)

EvalForIn(m, s, i, end) ==
  IF i >= end \/ ~Going(m) THEN m
  ELSE EvalForIn(EvalCodeBlockBody(
         [m EXCEPT !.env = [n \in DOMAIN @ \cup {s.name} |->
                              IF n = s.name THEN i ELSE @[n]]], s.body),
         s, i + 1, end)

\* Mutant: a return goes on with the statement behind it.
ReturnGoesOn(m, s) == [EvalExpr(m, s.x).m EXCEPT
                         !.done = Append(@, <<"return">>)]

EvalReturn(m, s) ==
  LET x == EvalExpr(m, s.x).m
  IN IF Going(x) THEN [x EXCEPT !.done = Append(@, <<"return">>),
                                !.status = "returned"] ELSE x

\* The condition of an else-if is never made pending: such a branch does
\* nothing.
EvalIf(m, s) ==
  LET d == [m EXCEPT !.pending = [k |-> "none"]]
      x == EvalExpr(d, m.pending)
  IN CASE m.pending.k = "none" -> m
       [] m.pending.k # "none" /\ ~Going(x.m) -> x.m
       [] OTHER ->
            IF x.v THEN EvalCodeBlockBody(x.m, s.then)
            ELSE CASE s.else.k = "none" -> x.m
                   [] s.else.k = "block" -> EvalCodeBlockBody(x.m, s.else.body)
                   [] s.else.k = "elseif" -> EvalStmt(x.m, s.else.if)

EvalStmt(m, s) ==
  CASE s.k = "return" -> EvalReturn(m, s)
    [] s.k = "if" -> EvalIf(m, s)
    [] s.k = "while" ->
         IF m.pending.k = "none" THEN m
         ELSE EvalWhile([m EXCEPT !.pending = [k |-> "none"]], m.pending,
                        s.body)
    [] s.k = "for" /\ s.seq.k = "range" ->
         LET lo == EvalExpr(m, s.seq.lo)
             hi == EvalExpr(lo.m, s.seq.hi)
         IN EvalForIn(hi.m, s, lo.v,
                      IF s.seq.op = "..." THEN hi.v + 1 ELSE hi.v)
    [] OTHER -> [m EXCEPT !.status = "error"]

ExecuteFunction(nodes, answers) ==
  EvalCodeBlockBody(ComptimeStart(answers), nodes)

-----------------------------------------------------------------------------
CONSTANTS Programs,     \* a sequence of function bodies
          ForComptime,  \* those a #comptime function may consist of
          MaxAnswers    \* bound: calls with an answer in one run
ASSUME ProgramsAreNumbered == ForComptime \subseteq 1..Len(Programs)
ASSUME MaxAnswersIsBound == MaxAnswers \in Nat

VARIABLES prog,     \* the index of the program that runs
          compiled, \* its code, and what the verifier said of it
          block,    \* the block it is in, 0 when it has ended
          pos,      \* the next instruction of that block
          vals,     \* the values computed so far, by instruction
          cells,    \* the contents of the variables
          error,    \* the pending error of the runtime
          trace     \* what was done, in order
vars == <<prog, compiled, block, pos, vals, cells, error, trace>>

-----------------------------------------------------------------------------
(* SIL generation of a body. *)

SilTerminators == {"return", "throw", "branch", "branchif", "unreachable"}

\* The index of a block in the list of the function, 0 if it is not there.
GetBlock(c, id) ==
  LET at == {i \in 1..Len(c.body) : c.body[i] = id}
  IN IF at = {} THEN None ELSE CHOOSE i \in at : \A j \in at : j <= i

\* An operand without a value leaves a hole; a load, a store or a name
\* without one is left out.
EmitInst(c, a, id) ==
  LET inst == c.insts[id]
      has == \A i \in 1..Len(inst.args) : inst.args[i] \in a.have
      args == [i \in 1..Len(inst.args) |->
                 IF inst.args[i] \in a.have THEN inst.args[i] ELSE None]
      op == IF inst.op # "ref" THEN inst.op
            ELSE IF c.insts[inst.args[1]].op = "var" THEN "load" ELSE "bind"
      sil == [op |-> op, id |-> id, args |-> args, data |-> inst.data,
              yes |-> GetBlock(c, inst.to), no |-> None]
  IN IF op \in {"load", "bind", "assign"} /\ ~has
     THEN [a EXCEPT !.lost = @ \cup {id}]
     ELSE [have |-> a.have \cup {id}, out |-> Append(a.out, sil),
           lost |-> IF has THEN a.lost ELSE a.lost \cup {id}]

Unreachable == [op |-> "unreachable", id |-> None, args |-> <<>>,
                data |-> None, yes |-> None, no |-> None]

\* branchif takes the target of the branch behind it for its false block.
FixUpBranches(insts) ==
  LET Next(out, i) ==
        IF i.op = "branch" /\ out # <<>> /\ Last(out).op = "branchif"
           /\ Last(out).no = None
        THEN [out EXCEPT ![Len(out)].no = i.yes] ELSE Append(out, i)
  IN FoldLeft(Next, <<>>, insts)

EmitBlock(c, acc, id) ==
  LET a == FoldLeft(LAMBDA x, i : EmitInst(c, x, i),
                    [have |-> acc.have, out |-> <<>>, lost |-> acc.lost],
                    c.blocks[id])
      out == IF a.out # <<>> /\ Last(a.out).op \in SilTerminators THEN a.out
             ELSE Append(a.out, Unreachable)
  IN [have |-> a.have, lost |-> a.lost,
      blocks |-> Append(acc.blocks, FixUpBranches(out))]

EmitFunctionBody(c) ==
  FoldLeft(LAMBDA acc, id : After(acc, LAMBDA a : EmitBlock(c, a, id)),
           [have |-> {}, lost |-> {}, blocks |-> <<>>], c.body)

\* The verifier: one terminator, at the end, with its operand and targets.
VerifySIL(sil) ==
  \A b \in 1..Len(sil.blocks) : \A i \in 1..Len(sil.blocks[b]) :
    LET inst == sil.blocks[b][i]
        targets == CASE inst.op = "branch" -> {inst.yes}
                     [] inst.op = "branchif" -> {inst.yes, inst.no}
                     [] OTHER -> {}
    IN /\ inst.op \in SilTerminators <=> i = Len(sil.blocks[b])
       /\ targets \subseteq 1..Len(sil.blocks)
       /\ inst.op \in {"branchif", "return"} => inst.args[1] # None

\* Lowering leaves out what misses an operand, and closes a block that
\* has lost its terminator.
LowerBlock(acc, insts) ==
  LET Next(a, i) ==
        IF \A j \in 1..Len(i.args) : i.args[j] \in a.have
        THEN [have |-> a.have \cup {i.id}, out |-> Append(a.out, i)] ELSE a
      x == FoldLeft(Next, [have |-> acc.have, out |-> <<>>], insts)
      ends == \E i \in 1..Len(x.out) : x.out[i].op \in SilTerminators
  IN [have |-> x.have,
      blocks |-> Append(acc.blocks, IF ends THEN x.out
                                    ELSE Append(x.out, Unreachable))]

LowerSILFunctionBody(sil) ==
  FoldLeft(LAMBDA acc, insts : After(acc, LAMBDA a : LowerBlock(a, insts)),
           [have |-> {}, blocks |-> <<>>], sil.blocks).blocks

Compile(nodes) ==
  LET c == HandleFunctionDefinition(nodes)
  IN Then(EmitFunctionBody(c), LAMBDA sil :
     [code |-> LowerSILFunctionBody(sil), verified |-> VerifySIL(sil),
      lost |-> sil.lost])

-----------------------------------------------------------------------------
(* The run of the compiled function. *)

Init == /\ prog \in 1..Len(Programs) /\ compiled = Compile(Programs[prog])
        /\ block = 1 /\ pos = 1
        /\ vals = <<>> /\ cells = <<>> /\ error = FALSE /\ trace = <<>>

Current == compiled.code[block][pos]
Running == block # 0
Set(f, x, v) == [y \in DOMAIN f \cup {x} |-> IF y = x THEN v ELSE f[y]]
Arg(n) == vals[Current.args[n]]

Answers == Len(SelectSeq(trace, LAMBDA e : Len(e) = 3))

Advance == pos' = pos + 1 /\ UNCHANGED <<prog, compiled, block>>

\* What a call may answer.
AnswersOf(op) == CASE op \in {"test", "may"} -> BOOLEAN
                   [] op = "pick" -> 0..2
                   [] op = "maybe" -> {<<FALSE, 0>>, <<TRUE, 7>>}
                   [] op = "enum" -> {<<0, 5>>, <<1, 6>>}

\* A call without an answer.
Act == /\ Running /\ Current.op \in {"act", "show"}
       /\ trace' = Append(trace, <<Current.op,
                                   IF Current.op = "act" THEN Current.data
                                   ELSE Arg(1)>>)
       /\ vals' = Set(vals, Current.id, 0)
       /\ Advance /\ UNCHANGED <<cells, error>>

\* A call with an answer; one that may throw sets the pending error.
Ask == /\ Running /\ Current.op \in Calls \ {"act"} /\ Answers < MaxAnswers
       /\ \E answer \in AnswersOf(Current.op) :
            /\ trace' = Append(trace, <<Current.op, Current.data, answer>>)
            /\ vals' = Set(vals, Current.id, answer)
            /\ error' = IF Current.op = "may" THEN answer ELSE error
       /\ Advance /\ UNCHANGED cells

ValueOf(i) ==
  CASE i.op \in {"int", "bool", "array"} -> i.data
    [] i.op = "var" -> i.id
    [] i.op = "load" -> cells[Arg(1)]
    [] i.op = "bind" -> Arg(1)
    [] i.op = "field" -> Arg(1)[i.data + 1]
    [] i.op = "elem" -> Arg(2) + 1
    [] i.op = "add" -> Arg(1) + Arg(2)
    [] i.op = "less" -> Arg(1) < Arg(2)
    [] i.op = "lesseq" -> Arg(1) <= Arg(2)
    [] i.op = "eq" -> Arg(1) = Arg(2)
    [] i.op = "not" -> ~Arg(1)
    [] i.op = "and" -> Arg(1) /\ Arg(2)
    [] i.op = "or" -> Arg(1) \/ Arg(2)
    [] i.op = "errorcheck" -> error

Effects == {"assign", "errorclear"}

Compute == /\ Running
           /\ Current.op \notin Calls \cup SilTerminators \cup Effects
                                  \cup {"show"}
           /\ vals' = Set(vals, Current.id, ValueOf(Current))
           /\ Advance /\ UNCHANGED <<cells, error, trace>>

Store == /\ Running /\ Current.op = "assign"
         /\ cells' = Set(cells, Arg(1), Arg(2))
         /\ Advance /\ UNCHANGED <<vals, error, trace>>

ClearError == /\ Running /\ Current.op = "errorclear" /\ error' = FALSE
              /\ Advance /\ UNCHANGED <<vals, cells, trace>>

Jump == /\ Running /\ Current.op \in {"branch", "branchif"}
        /\ block' = IF Current.op = "branch" \/ Arg(1) THEN Current.yes
                    ELSE Current.no
        /\ pos' = 1 /\ UNCHANGED <<prog, compiled, vals, cells,
                                   error, trace>>

\* throw sets the error and returns.
Exit == /\ Running /\ Current.op \in {"return", "throw"}
        /\ trace' = Append(trace, <<Current.op>>)
        /\ error' = (Current.op = "throw" \/ error)
        /\ block' = 0 /\ pos' = 1
        /\ UNCHANGED <<prog, compiled, vals, cells>>

\* Nothing leads on from the end of a block that nobody closed: a run that
\* reached it would be stuck there.
Done == ~Running /\ UNCHANGED vars
Stop == Running /\ Current.op \in Calls \ {"act"} /\ Answers = MaxAnswers
        /\ UNCHANGED vars

Next == Act \/ Ask \/ Compute \/ Store \/ ClearError \/ Jump \/ Exit
        \/ Done \/ Stop

Spec == Init /\ [][Next]_vars

-----------------------------------------------------------------------------
(* Properties. *)

Events(t) == SelectSeq(t, LAMBDA e : Len(e) = 3)
Given == LET asked == Events(trace)
         IN [i \in 1..Len(asked) |-> asked[i][3]]

\* What the compiled function has done is what its statements mean for the
\* answers it was given, and it ends where they end (block order, branch
\* targets and fix-ups, deferred blocks, short circuits, and values that
\* are used in another block than the one that computes them).
RunsAsWritten ==
  Then(Meaning(Programs[prog], Given), LAMBDA m :
  IF Running THEN IsPrefix(trace, m.done)
  ELSE trace = m.done /\ m.ctl \in {"return", "throw"})

\* The verifier accepts what SIL generation makes of these bodies, and no
\* instruction misses an operand when the walk over the blocks reaches it.
VerifierAccepts == compiled.verified /\ compiled.lost = {}

\* The interpreter for #comptime functions does what the compiled function
\* does, in the same order, and ends with it.
ComptimeAgrees ==
  prog \in ForComptime =>
    Then(ExecuteFunction(Programs[prog], Given), LAMBDA m :
    IF Running THEN IsPrefix(trace, m.done)
    ELSE m.status = "returned" /\ m.done = trace)
=============================================================================
