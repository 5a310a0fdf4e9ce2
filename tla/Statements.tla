----------------------------- MODULE Statements -----------------------------
(***************************************************************************)
(* The statement handlers of the checker (src/toolchain/check/             *)
(* handle_stmt.cpp) and the expression handlers that branch                *)
(* (handle_expr.cpp), as operators that extend a context.                  *)
(*                                                                         *)
(* They read parse trees.  A code block is a sequence of sibling nodes,    *)
(* and as in the parse tree the condition of an if, a while or a guard is  *)
(* not a child of the statement but the sibling before it.  What an        *)
(* expression computes is opaque: a call is told from others by a number.  *)
(*   expressions  act, test, maybe, enum, pick, may: calls that return     *)
(*                nothing, a Bool, an optional, an enum with a payload, an *)
(*                Int, or that may throw; show prints its operand;         *)
(*                not, and, or, tern, try; name, int                       *)
(*   conditions   bind: if let / while let, after the sibling ident        *)
(***************************************************************************)
EXTENDS Integers, Sequences, SequencesExt, Stepwise

-----------------------------------------------------------------------------
(***************************************************************************)
(* The part of the checker's Context that builds the body of a function    *)
(* (src/toolchain/check/context.cpp): a list of instructions, a stack of   *)
(* open instruction blocks, the list of the function's body blocks in the  *)
(* order SIL generation and lowering will process them, and the targets    *)
(* the statement handlers keep for break, continue, fallthrough and catch. *)
(*                                                                         *)
(* A context is a record; an operation returns the changed context.  An    *)
(* instruction id is its index in insts, a block id its index in blocks.   *)
(***************************************************************************)
None == 0
NoNode == [k |-> "none"]

\* An instruction: kind, operands, the data it carries, and a branch target.
Inst(op, args, data, to) == [op |-> op, args |-> args, data |-> data,
                             to |-> to]

EmptyContext ==
  [insts |-> <<>>, blocks |-> <<>>, stack |-> <<>>, body |-> <<>>,
   loops |-> <<>>, defers |-> <<>>, catches |-> <<>>, fallthrough |-> None,
   condition |-> NoNode, optName |-> NoNode, scope |-> <<>>]

AddPlaceholder(c) == [c EXCEPT !.blocks = Append(@, <<>>)]
NewestBlock(c) == Len(c.blocks)

AddInst(c, inst) ==
  LET id == Len(c.insts) + 1
  IN Then(Len(c.stack), LAMBDA top :
     [c EXCEPT !.insts = Append(@, inst),
               !.stack = IF top = 0 THEN @
                         ELSE [@ EXCEPT ![top].insts = Append(@, id)]])

\* An instruction whose value the caller goes on with.
AddValue(c, inst) == [ctx |-> AddInst(c, inst), val |-> Len(c.insts) + 1]

PushInstBlockWithId(c, block) ==
  [c EXCEPT !.stack = Append(@, [id |-> block, insts |-> <<>>])]

PushInstBlock(c) ==
  LET d == AddPlaceholder(c) IN PushInstBlockWithId(d, NewestBlock(d))

ReplacePlaceholder(c, block, insts) == [c EXCEPT !.blocks[block] = insts]

PopInstBlock(c) ==
  Then(Last(c.stack), LAMBDA top :
  [ReplacePlaceholder(c, top.id, top.insts) EXCEPT !.stack = Front(@)])

SwitchInstBlock(c, block) ==
  PushInstBlockWithId(IF c.stack = <<>> THEN c ELSE PopInstBlock(c), block)

AddBodyBlock(c, block) == [c EXCEPT !.body = Append(@, block)]

\* Go on in a block that joins the list of the function.
ContinueIn(c, block) == AddBodyBlock(SwitchInstBlock(c, block), block)

Terminators == {"return", "branch", "branchif", "throw"}

IsCurrentBlockTerminated(c) ==
  /\ c.stack # <<>>
  /\ Last(c.stack).insts # <<>>
  /\ c.insts[Last(Last(c.stack).insts)].op \in Terminators

Branch(c, block) == AddInst(c, Inst("branch", <<>>, None, block))

\* BranchIf and Branch always come as a pair.
BranchIfElse(c, cond, yes, no) ==
  Branch(AddInst(c, Inst("branchif", <<cond>>, None, yes)), no)

BranchUnlessTerminated(c, block) ==
  IF IsCurrentBlockTerminated(c) THEN c ELSE Branch(c, block)

PushLoopContext(c, break, continue) ==
  [c EXCEPT !.loops = Append(@, [break |-> break, continue |-> continue])]
PopLoopContext(c) == [c EXCEPT !.loops = Front(@)]

AddNameToScope(c, name, inst) ==
  [c EXCEPT !.scope = [n \in DOMAIN @ \cup {name} |->
                         IF n = name THEN inst ELSE @[n]]]

TakePendingCondition(c) == [c EXCEPT !.condition = NoNode, !.optName = NoNode]

-----------------------------------------------------------------------------
Calls == {"act", "test", "maybe", "enum", "pick", "may"}
ExprKinds == Calls \cup {"show", "not", "and", "or", "tern", "try", "name",
                         "int", "range"}

RECURSIVE HandleExpr(_, _), HandleStatement(_, _), HandleCodeBlock(_, _)

-----------------------------------------------------------------------------
(* Expressions. *)

\* && and ||: the right operand has a block of its own.
ShortCircuit(c, e) ==
  LET lhs == HandleExpr(c, e.l)
  IN Then(AddValue(lhs.ctx, Inst("var", <<>>, None, None)), LAMBDA temp :
     Then(NewestBlock(temp.ctx) + 1, LAMBDA rhsBlock :
     LET scBlock == rhsBlock + 1
         merge == rhsBlock + 2
     IN Then(AddPlaceholder(AddPlaceholder(AddPlaceholder(temp.ctx))),
             LAMBDA c1 :
        LET c2 == IF e.k = "and" THEN BranchIfElse(c1, lhs.val, rhsBlock, scBlock)
                  ELSE BranchIfElse(c1, lhs.val, scBlock, rhsBlock)
        IN Then(HandleExpr(ContinueIn(c2, rhsBlock), e.r), LAMBDA rhs :
           LET c3 == Branch(AddInst(rhs.ctx, Inst("assign", <<temp.val, rhs.val>>,
                                                  None, None)), merge)
           IN Then(AddValue(ContinueIn(c3, scBlock),
                            Inst("bool", <<>>, e.k = "or", None)), LAMBDA lit :
              LET c4 == Branch(AddInst(lit.ctx, Inst("assign", <<temp.val, lit.val>>,
                                                     None, None)), merge)
              IN AddValue(ContinueIn(c4, merge), Inst("ref", <<temp.val>>, None, None)))))))

HandleTernaryExpr(c, e) ==
  LET cond == HandleExpr(c, e.c)
  IN Then(AddValue(cond.ctx, Inst("var", <<>>, None, None)), LAMBDA temp :
     LET then == NewestBlock(temp.ctx) + 1
         else == then + 1
         merge == then + 2
         c1 == AddPlaceholder(AddPlaceholder(AddPlaceholder(temp.ctx)))
         Arm(d, block, expr) ==
           Then(HandleExpr(ContinueIn(d, block), expr), LAMBDA x :
           BranchUnlessTerminated(
             AddInst(x.ctx, Inst("assign", <<temp.val, x.val>>, None, None)),
             merge))
         c2 == Arm(BranchIfElse(c1, cond.val, then, else), then, e.t)
         c3 == Arm(c2, else, e.f)
     IN AddValue(ContinueIn(c3, merge), Inst("ref", <<temp.val>>, None, None)))

\* try: where a catch block is in force, leave for it when an error is set.
HandleTryExpr(c, e) ==
  LET x == HandleExpr(c, e.x)
  IN Then(AddValue(x.ctx, Inst("errorcheck", <<>>, None, None)), LAMBDA check :
     Then(AddPlaceholder(check.ctx), LAMBDA d :
     LET go == NewestBlock(d)
     IN IF c.catches = <<>> THEN x
        ELSE [ctx |-> ContinueIn(BranchIfElse(d, check.val, Last(c.catches), go),
                                 go),
              val |-> x.val]))

HandleExpr(c, e) ==
  CASE e.k \in Calls -> AddValue(c, Inst(e.k, <<>>, e.f, None))
    [] e.k = "int" -> AddValue(c, Inst("int", <<>>, e.n, None))
    [] e.k = "name" -> AddValue(c, Inst("ref", <<c.scope[e.name]>>, None,
                                        None))
    [] e.k \in {"show", "not"} ->
         LET x == HandleExpr(c, e.x)
         IN AddValue(x.ctx, Inst(e.k, <<x.val>>, None, None))
    [] e.k \in {"and", "or"} -> ShortCircuit(c, e)
    [] e.k = "tern" -> HandleTernaryExpr(c, e)
    [] e.k = "try" -> HandleTryExpr(c, e)
    \* An infix operator that no rule knows yields its left operand.
    [] e.k = "range" -> LET lo == HandleExpr(c, e.lo)
                        IN [ctx |-> HandleExpr(lo.ctx, e.hi).ctx,
                            val |-> lo.val]

-----------------------------------------------------------------------------
(* return, defer *)

RunBlocks(c, blocks) == FoldLeft(HandleCodeBlock, c, blocks)

\* Mutant: the deferred blocks run in the order they were written.
DeferredInOrder(c) == RunBlocks(c, c.defers)

\* The deferred blocks run last in, first out.
EmitDeferred(c) == RunBlocks(c, Reverse(c.defers))

\* The value is computed before the deferred blocks run.
HandleReturnStatement(c, s) ==
  Then(HandleExpr(c, s.x), LAMBDA x :
  AddInst(EmitDeferred(x.ctx), Inst("return", <<x.val>>, None, None)))

HandleDeferStatement(c, s) == [c EXCEPT !.defers = Append(@, s.body)]

-----------------------------------------------------------------------------
(* if, while, guard.  The pending condition was left by HandleCodeBlock.   *)

\* The condition is evaluated here: [ctx, val] and, for if let and while
\* let, the optional whose payload the body names.
Condition(c, fallback) ==
  LET node == IF c.condition = NoNode THEN fallback ELSE c.condition
      d == TakePendingCondition(c)
  IN Then(HandleExpr(d, node.x), LAMBDA opt :
     LET has == AddValue(opt.ctx, Inst("field", <<opt.val>>, 0, None))
     IN Then(HandleExpr(d, node), LAMBDA x :
        CASE node.k = "none" -> [ctx |-> d, val |-> None, opt |-> None,
                                 name |-> NoNode]
          [] node.k = "bind" -> [ctx |-> has.ctx, val |-> has.val,
                                 opt |-> opt.val, name |-> c.optName]
          [] OTHER -> [ctx |-> x.ctx, val |-> x.val, opt |-> None,
                       name |-> NoNode]))

\* The payload of the optional gets its name at the start of the body.
BindPayload(c, tuple, name) ==
  LET payload == AddValue(c, Inst("field", <<tuple>>, 1, None))
      bind == AddValue(payload.ctx, Inst("bind", <<payload.val>>, None, None))
  IN AddNameToScope(bind.ctx, name, bind.val)

BindOptional(c, cond) ==
  IF cond.opt = None \/ cond.name = NoNode THEN c
  ELSE BindPayload(c, cond.opt, cond.name.name)

\* Mutant: a branch to the merge block follows a return or break as well.
ThenAlwaysBranches(c, cond, s, then, merge) ==
  PopInstBlock(Branch(
    HandleCodeBlock(BindOptional(AddBodyBlock(PushInstBlockWithId(c, then),
                                              then), cond), s.then), merge))

ThenBlock(c, cond, s, then, merge) ==
  PopInstBlock(BranchUnlessTerminated(
    HandleCodeBlock(BindOptional(AddBodyBlock(PushInstBlockWithId(c, then),
                                              then), cond), s.then), merge))

\* The condition of an else-if is a child of the outer statement, which
\* hands it on as the pending condition of the inner one, unless it had to
\* take it for its own.
ElseIfCondition(s) == IF s.else.k = "elseif" THEN s.else.cond ELSE NoNode

ElseBlock(c, s, else, merge, innerCondition) ==
  LET d == AddBodyBlock(PushInstBlockWithId(c, else), else)
      body == IF s.else.k = "block" THEN HandleCodeBlock(d, s.else.body)
              ELSE HandleStatement([d EXCEPT !.condition = innerCondition],
                                   s.else.if)
  IN PopInstBlock(BranchUnlessTerminated(body, merge))

HandleIfStatement(c, s) ==
  Then(Condition(c, ElseIfCondition(s)), LAMBDA cond :
  LET inner == IF c.condition = NoNode THEN NoNode ELSE ElseIfCondition(s)
      then == NewestBlock(cond.ctx) + 1
      merge == then + 1
      hasElse == s.else.k # "none"
      else == IF hasElse THEN then + 2 ELSE merge
      c1 == AddPlaceholder(AddPlaceholder(cond.ctx))
      c2 == IF hasElse THEN AddPlaceholder(c1) ELSE c1
      c3 == ContinueIn(BranchIfElse(c2, cond.val, then, else), merge)
  IN Then(ThenBlock(c3, cond, s, then, merge), LAMBDA c4 :
     IF hasElse THEN ElseBlock(c4, s, else, merge, inner) ELSE c4))

\* The body of a loop keeps its own deferred blocks, which run at its end.
LoopBody(c, body, break, continue) ==
  LET c1 == PushLoopContext([c EXCEPT !.defers = <<>>], break, continue)
  IN Then(HandleCodeBlock(c1, body), LAMBDA c2 :
     LET c3 == IF IsCurrentBlockTerminated(c2) THEN c2 ELSE EmitDeferred(c2)
     IN [PopLoopContext(c3) EXCEPT !.defers = c.defers])

\* A condition block is built under an id of its own and then copied to
\* the block the loop jumps to.
CopyToBlock(c, block) ==
  LET d == PopInstBlock(c)
  IN AddBodyBlock(ReplacePlaceholder(d, block, d.blocks[Last(c.stack).id]),
                  block)

HandleWhileStatement(c, s) ==
  LET cond == NewestBlock(c) + 1
      body == cond + 1
      merge == cond + 2
      c1 == AddPlaceholder(AddPlaceholder(AddPlaceholder(c)))
  IN Then(Condition(PushInstBlock(Branch(c1, cond)), NoNode), LAMBDA x :
     LET c2 == CopyToBlock(BranchIfElse(x.ctx, x.val, body, merge), cond)
         c3 == AddBodyBlock(PushInstBlockWithId(c2, body), body)
         c4 == LoopBody(BindOptional(c3, x), s.body, merge, cond)
     IN ContinueIn(PopInstBlock(BranchUnlessTerminated(c4, cond)), merge))

\* The else block gets no branch: it has to leave by itself.
HandleGuardStatement(c, s) ==
  Then(Condition(c, NoNode), LAMBDA x :
  LET else == NewestBlock(x.ctx) + 1
      continuation == else + 1
      not == AddValue(AddPlaceholder(AddPlaceholder(x.ctx)),
                      Inst("not", <<x.val>>, None, None))
      c1 == ContinueIn(BranchIfElse(not.ctx, not.val, else, continuation),
                       continuation)
      c2 == AddBodyBlock(PushInstBlockWithId(c1, else), else)
  IN PopInstBlock(HandleCodeBlock(c2, s.else)))

-----------------------------------------------------------------------------
(* for-in over a range, an array literal and a generator *)

\* cond: load the variable, compare with the bound, enter the body or leave.
ForCondition(c, var, op, bound, cond, body, merge) ==
  Then(AddValue(PushInstBlock(Branch(c, cond)),
                Inst("ref", <<var>>, None, None)), LAMBDA i :
  LET t == AddValue(i.ctx, Inst(op, <<i.val, bound>>, None, None))
  IN CopyToBlock(BranchIfElse(t.ctx, t.val, body, merge), cond))

\* Increment, a block of its own so that continue does not skip it.
ForIncrement(c, var, inc, cond) ==
  LET i == AddValue(AddBodyBlock(PushInstBlockWithId(c, inc), inc),
                    Inst("ref", <<var>>, None, None))
      one == AddValue(i.ctx, Inst("int", <<>>, 1, None))
      sum == AddValue(one.ctx, Inst("add", <<i.val, one.val>>, None, None))
  IN PopInstBlock(Branch(AddInst(sum.ctx,
                       Inst("assign", <<var, sum.val>>, None, None)), cond))

\* The where clause chooses between the rest of the body and the increment.
ForBody(c, s, merge, inc) ==
  Then(HandleExpr(c, s.where), LAMBDA x :
  LET exec == NewestBlock(x.ctx) + 1
      c1 == ContinueIn(BranchIfElse(AddPlaceholder(x.ctx), x.val, exec, inc),
                       exec)
      d == IF s.where.k = "none" THEN c ELSE c1
  IN PopInstBlock(BranchUnlessTerminated(LoopBody(d, s.body, merge, inc),
                                         inc)))

ForInRange(c, s) ==
  Then(HandleExpr(c, s.seq.lo), LAMBDA lo :
  Then(HandleExpr(lo.ctx, s.seq.hi), LAMBDA hi :
  LET var == AddValue(hi.ctx, Inst("var", <<>>, None, None))
  IN Then(AddInst(var.ctx, Inst("assign", <<var.val, lo.val>>, None, None)),
          LAMBDA c1 :
     LET cond == NewestBlock(c1) + 1
         body == cond + 1
         merge == cond + 2
         c2 == AddPlaceholder(AddPlaceholder(AddPlaceholder(
                 AddNameToScope(c1, s.name, var.val))))
         op == IF s.seq.op = "..." THEN "lesseq" ELSE "less"
     IN Then(AddPlaceholder(ForCondition(c2, var.val, op, hi.val, cond, body,
                                         merge)), LAMBDA c3 :
        LET inc == NewestBlock(c3)
            c4 == ForBody(AddBodyBlock(PushInstBlockWithId(c3, body), body), s,
                          merge, inc)
        IN ContinueIn(ForIncrement(c4, var.val, inc, cond), merge)))))

\* The element count is a constant taken from the literal.
ForInArray(c, s) ==
  Then(HandleExpr(c, s.seq), LAMBDA ref :
  LET array == ref.ctx.insts[c.scope[s.seq.name]].args[1]
      var == AddValue(ref.ctx, Inst("var", <<>>, None, None))
      zero == AddValue(var.ctx, Inst("int", <<>>, 0, None))
  IN Then(AddValue(AddInst(zero.ctx, Inst("assign",
                               <<var.val, zero.val>>, None, None)),
                   Inst("int", <<>>, ref.ctx.insts[array].data, None)),
          LAMBDA count :
     LET cond == NewestBlock(count.ctx) + 1
         body == cond + 1
         merge == cond + 2
         c1 == AddPlaceholder(AddPlaceholder(AddPlaceholder(count.ctx)))
     IN Then(AddPlaceholder(ForCondition(c1, var.val, "less", count.val, cond,
                                         body, merge)), LAMBDA c2 :
        LET inc == NewestBlock(c2)
        IN Then(AddValue(AddBodyBlock(PushInstBlockWithId(c2, body), body),
                         Inst("ref", <<var.val>>, None, None)), LAMBDA i :
           LET elem == AddValue(i.ctx, Inst("elem", <<array, i.val>>, None, None))
               bind == AddValue(elem.ctx, Inst("bind", <<elem.val>>, None, None))
               c3 == ForBody(AddNameToScope(bind.ctx, s.name, bind.val), s, merge, inc)
           IN ContinueIn(ForIncrement(c3, var.val, inc, cond), merge)))))

\* A generator is asked for its next element in the condition block.
ForInGenerator(c, s) ==
  Then(HandleExpr(c, s.seq.of), LAMBDA gen :
  LET cond == NewestBlock(gen.ctx) + 1
      body == cond + 1
      merge == cond + 2
      c1 == PushInstBlock(Branch(AddPlaceholder(AddPlaceholder(
              AddPlaceholder(gen.ctx))), cond))
  IN Then(AddValue(c1, Inst("maybe", <<>>, s.seq.f, None)), LAMBDA next :
     LET has == AddValue(next.ctx, Inst("field", <<next.val>>, 0, None))
         c2 == CopyToBlock(BranchIfElse(has.ctx, has.val, body, merge), cond)
         c3 == PushLoopContext(AddBodyBlock(PushInstBlockWithId(c2, body), body),
                               merge, cond)
         c4 == PopLoopContext(HandleCodeBlock(BindPayload(c3, next.val, s.name),
                                              s.body))
     IN ContinueIn(PopInstBlock(BranchUnlessTerminated(c4, cond)), merge)))

HandleForInStatement(c, s) ==
  CASE s.seq.k = "range" -> ForInRange(c, s)
    [] s.seq.k = "generator" -> ForInGenerator(c, s)
    [] OTHER -> ForInArray(c, s)

-----------------------------------------------------------------------------
(* switch: all patterns are evaluated first, then a chain of comparisons   *)
(* is built, then the bodies.  An arm has patterns, a label ("values",     *)
(* "where", "case" of an enum, "default") and a body.                      *)

\* The values of an arm's patterns, and the bounds where the last one is a
\* range (they are evaluated a second time).
CollectArm(acc, arm) ==
  LET Next(a, p) == Then(HandleExpr(a.ctx, p), LAMBDA x :
                    [ctx |-> x.ctx, values |-> Append(a.values, x.val)])
  IN Then(FoldLeft(Next, [ctx |-> acc.ctx, values |-> <<>>], arm.patterns),
          LAMBDA pats :
     LET isRange == arm.patterns # <<>> /\ Last(arm.patterns).k = "range"
     IN Then(HandleExpr(pats.ctx, Last(arm.patterns).lo), LAMBDA lo :
        Then(HandleExpr(lo.ctx, Last(arm.patterns).hi), LAMBDA hi :
        IF isRange
        THEN [ctx |-> hi.ctx,
              arms |-> Append(acc.arms, [arm |-> arm, values |-> pats.values,
                                         isRange |-> TRUE, lo |-> lo.val,
                                         hi |-> hi.val])]
        ELSE [ctx |-> pats.ctx,
              arms |-> Append(acc.arms, [arm |-> arm, values |-> pats.values,
                                         isRange |-> FALSE, lo |-> None,
                                         hi |-> None])])))

Compare(c, op, left, right) ==
  AddValue(c, Inst(op, <<left, right>>, None, None))

RangeCondition(c, x, scrutinee) ==
  LET lo == Compare(c, "lesseq", x.lo, scrutinee)
      op == IF Last(x.arm.patterns).op = "..." THEN "lesseq" ELSE "less"
      hi == Compare(lo.ctx, op, scrutinee, x.hi)
  IN Compare(hi.ctx, "and", lo.val, hi.val)

AnyValueCondition(c, x, scrutinee) ==
  LET Next(a, v) == LET eq == Compare(a.ctx, "eq", scrutinee, v)
                    IN Compare(eq.ctx, "or", a.val, eq.val)
  IN FoldLeft(Next, Compare(c, "eq", scrutinee, Head(x.values)),
              Tail(x.values))

\* The condition of an arm, evaluated after those of the arms before it.
ArmCondition(c, x, scrutinee, tag) ==
  LET arm == x.arm
      bind == AddValue(c, Inst("bind", <<scrutinee>>, None, None))
      disc == AddValue(c, Inst("int", <<>>, arm.case, None))
  IN CASE arm.label = "where" ->
            HandleExpr(AddNameToScope(bind.ctx, arm.name, bind.val), arm.cond)
       [] arm.label = "case" -> Compare(disc.ctx, "eq", tag, disc.val)
       [] x.isRange -> RangeCondition(c, x, scrutinee)
       [] OTHER -> AnyValueCondition(c, x, scrutinee)

\* Each test branches to its body or to the next test.
CompareChain(c, xs, bodies, merge, scrutinee, tag) ==
  LET Next(d, i) ==
        LET last == i = Len(xs)
            d1 == IF last THEN d ELSE AddPlaceholder(d)
            next == IF last THEN merge ELSE NewestBlock(d1)
        IN Then(ArmCondition(d1, xs[i], scrutinee, tag), LAMBDA cond :
           LET d2 == IF xs[i].arm.label = "default" THEN Branch(d1, bodies[i])
                     ELSE BranchIfElse(cond.ctx, cond.val, bodies[i], next)
           IN ContinueIn(d2, next))
  IN FoldLeft(Next, c, [i \in 1..Len(xs) |-> i])

\* The children of a case are handled one by one: an expression before an
\* if is not taken for its condition.
CaseStatements(c, nodes) ==
  LET Next(d, n) == IF n.k \in ExprKinds THEN HandleExpr(d, n).ctx
                    ELSE HandleStatement(d, n)
  IN FoldLeft(Next, c, nodes)

ArmBodies(c, xs, bodies, merge, scrutinee) ==
  LET Next(d, i) ==
        LET target == IF i < Len(xs) THEN bodies[i + 1] ELSE None
            d1 == AddBodyBlock(PushInstBlockWithId(d, bodies[i]), bodies[i])
            d2 == IF xs[i].arm.label = "case"
                  THEN BindPayload(d1, scrutinee, xs[i].arm.name) ELSE d1
            d3 == CaseStatements([d2 EXCEPT !.fallthrough = target],
                                 xs[i].arm.body)
        IN PopInstBlock(BranchUnlessTerminated(
             [d3 EXCEPT !.fallthrough = d.fallthrough], merge))
  IN FoldLeft(Next, c, [i \in 1..Len(xs) |-> i])

HandleSwitchStatement(c, s) ==
  Then(HandleExpr(c, s.x), LAMBDA x :
  Then(FoldLeft(CollectArm, [ctx |-> x.ctx, arms |-> <<>>], s.arms),
       LAMBDA acc :
  LET xs == acc.arms
      isEnum == s.x.k = "enum"
      tag == AddValue(acc.ctx, Inst("field", <<x.val>>, 0, None))
      d == IF isEnum THEN tag.ctx ELSE acc.ctx
      merge == NewestBlock(d) + 1
      bodies == [i \in 1..Len(xs) |-> merge + i]
      d1 == FoldLeft(LAMBDA e, i: AddPlaceholder(e), AddPlaceholder(d),
                     bodies)
  IN ArmBodies(CompareChain(d1, xs, bodies, merge, x.val, tag.val), xs,
               bodies, merge, x.val)))

-----------------------------------------------------------------------------
(* repeat, break, continue, fallthrough, throw, do *)

HandleRepeatWhileStatement(c, s) ==
  LET body == NewestBlock(c) + 1
      cond == body + 1
      merge == body + 2
      c1 == Branch(AddPlaceholder(AddPlaceholder(AddPlaceholder(c))), body)
      c2 == PushLoopContext(AddBodyBlock(PushInstBlockWithId(c1, body), body),
                            merge, cond)
      c3 == PopLoopContext(HandleCodeBlock(c2, s.body))
      c4 == PopInstBlock(BranchUnlessTerminated(c3, cond))
  IN Then(HandleExpr(PushInstBlock(c4), s.x), LAMBDA x :
     ContinueIn(CopyToBlock(BranchIfElse(x.ctx, x.val, body, merge), cond),
                merge))

HandleBreakStatement(c) ==
  IF c.loops = <<>> THEN c ELSE Branch(c, Last(c.loops).break)

HandleContinueStatement(c) ==
  IF c.loops = <<>> THEN c ELSE Branch(c, Last(c.loops).continue)

HandleFallthrough(c) ==
  IF c.fallthrough = None THEN c ELSE Branch(c, c.fallthrough)

HandleThrowStatement(c, s) ==
  Then(HandleExpr(c, s.x), LAMBDA x :
  AddInst(x.ctx, Inst("throw", <<x.val>>, None, None)))

\* The catch block clears the error, runs every clause and ends there.
CatchBlock(c, s, catch) ==
  CopyToBlock(RunBlocks(AddInst(PushInstBlock(c),
                                Inst("errorclear", <<>>, None, None)),
                        s.catches), catch)

HandleDoStatement(c, s) ==
  LET catch == NewestBlock(c) + 1
      merge == catch + 1
      c1 == [AddPlaceholder(AddPlaceholder(c)) EXCEPT
               !.catches = Append(@, catch)]
  IN Then([HandleCodeBlock(c1, s.body) EXCEPT !.catches = Front(@)],
          LAMBDA c2 :
     LET c3 == IF IsCurrentBlockTerminated(c2) THEN c2
               ELSE ContinueIn(Branch(c2, merge), merge)
     IN IF s.catches = <<>> THEN HandleCodeBlock(c, s.body)
        ELSE CatchBlock(c3, s, catch))

-----------------------------------------------------------------------------
(* Code blocks and functions. *)

\* let of an array literal with n elements.
HandleLetDecl(c, s) ==
  LET array == AddValue(c, Inst("array", <<>>, s.n, None))
      bind == AddValue(array.ctx, Inst("bind", <<array.val>>, None, None))
  IN AddNameToScope(bind.ctx, s.name, bind.val)

HandleStatement(c, s) ==
  CASE s.k = "let" -> HandleLetDecl(c, s)
    [] s.k = "return" -> HandleReturnStatement(c, s)
    [] s.k = "if" -> HandleIfStatement(c, s)
    [] s.k = "while" -> HandleWhileStatement(c, s)
    [] s.k = "guard" -> HandleGuardStatement(c, s)
    [] s.k = "for" -> HandleForInStatement(c, s)
    [] s.k = "repeat" -> HandleRepeatWhileStatement(c, s)
    [] s.k = "break" -> HandleBreakStatement(c)
    [] s.k = "continue" -> HandleContinueStatement(c)
    [] s.k = "switch" -> HandleSwitchStatement(c, s)
    [] s.k = "defer" -> HandleDeferStatement(c, s)
    [] s.k = "fallthrough" -> HandleFallthrough(c)
    [] s.k = "throw" -> HandleThrowStatement(c, s)
    [] s.k = "do" -> HandleDoStatement(c, s)
    [] OTHER -> c

\* The node before an if, a while or a guard is its condition.
IsCondition(nodes, i) ==
  /\ i < Len(nodes)
  /\ \/ nodes[i].k \in ExprKinds /\ nodes[i + 1].k \in {"if", "while", "guard"}
     \/ nodes[i].k = "bind" /\ nodes[i + 1].k \in {"if", "while"}

HandleCodeBlock(c, nodes) ==
  LET Next(before, i) == After(before, LAMBDA d :
        LET n == nodes[i]
            name == IF n.k = "bind" /\ i > 1 /\ nodes[i - 1].k = "ident"
                    THEN nodes[i - 1] ELSE d.optName
        IN CASE IsCondition(nodes, i) ->
                  [d EXCEPT !.condition = n, !.optName = name]
             [] n.k \in ExprKinds /\ ~IsCondition(nodes, i) ->
                  HandleExpr(d, n).ctx
             [] OTHER -> HandleStatement(d, n))
  IN FoldLeft(Next, c, [i \in 1..Len(nodes) |-> i])

\* Instructions that have a value a function could return.
Typed == Calls \cup {"show", "not", "ref", "int", "bool", "field", "bind",
                     "less", "lesseq", "eq", "and", "or", "add", "elem"}

\* The body of a function that returns a value: an end without a return
\* returns the value of the last instruction, if it has one.
HandleFunctionDefinition(nodes) ==
  LET start == PushInstBlock(EmptyContext)
  IN Then(HandleCodeBlock(AddBodyBlock(start, NewestBlock(start)), nodes),
          LAMBDA c :
     LET last == Last(Last(c.stack).insts)
         implicit == /\ ~IsCurrentBlockTerminated(c)
                     /\ Last(c.stack).insts # <<>>
                     /\ c.insts[last].op \in Typed
     IN PopInstBlock(IF implicit
                     THEN AddInst(c, Inst("return", <<last>>, None, None))
                     ELSE c))
=============================================================================
