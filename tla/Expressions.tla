---------------------------- MODULE Expressions -----------------------------
(***************************************************************************)
(* Straight-line programs, statement by statement, on their way from the   *)
(* syntax tree to what they do: HandleExpr and the handlers of             *)
(* declarations of src/toolchain/check build SemIR, SilGen makes SIL of    *)
(* it, Lowering and Execution say what that does when it runs.             *)
(*                                                                         *)
(* The state is the program so far and the checker's context after it:     *)
(* what one statement leaves in the context (the scope, the tables of      *)
(* collections, a slot that is pending) is there when the next is handled. *)
(***************************************************************************)
EXTENDS ExpressionMeaning

CONSTANTS
  Menus,   \* the sets of statements programs are made of, a sequence each
  MaxLen   \* how long a program gets

VARIABLES
  prog,  \* the statements so far
  menu,  \* the menu they are taken from
  c      \* the checker's context

vars == <<prog, menu, c>>

RECURSIVE HandleExpr(_, _)

\* Operands are handled from left to right.
HandleAll(ctx, es) ==
  FoldLeft(LAMBDA r, e : Then(HandleExpr(r.c, e), LAMBDA x :
                         [c |-> x.c, ids |-> Append(r.ids, x.id)]),
           [c |-> ctx, ids |-> <<>>], es)
Labelled(args, ids) ==
  [i \in DOMAIN args |-> [label |-> args[i].label, id |-> ids[i]]]

\* The callee is handled first, unless it is a name the checker knows.
HandleCall(ctx, e) ==
  Then(e.callee.k = "name" /\ e.callee.name \in Intercepted, LAMBDA known :
  LET callee == IF known THEN Result(ctx, None) ELSE HandleExpr(ctx, e.callee)
  IN Then(HandleAll(callee.c, [i \in DOMAIN e.args |-> e.args[i].e]),
          LAMBDA all :
     LET args == Labelled(e.args, all.ids)
     IN IF known THEN InterceptedCall(all.c, e.callee.name, e.elem, args)
        ELSE CallExpr(all.c, callee.id, args)))

HandleExpr(ctx, e) ==
  Then(HandleAll(ctx, e.es), LAMBDA all :
  LET ids == all.ids
      half == Len(ids) \div 2
  IN CASE e.k = "int" -> IntLiteral(ctx, e.n)
       [] e.k = "float" -> FloatLiteral(ctx, e.n)
       [] e.k = "bool" -> BoolLiteral(ctx, e.n = 1)
       [] e.k = "string" -> StringLiteral(ctx, e.s)
       [] e.k = "interp" -> InterpolatedString(ctx, e.segs)
       [] e.k = "nil" -> NilLiteral(ctx)
       [] e.k = "name" -> IdentifierNameExpr(ctx, e.name)
       [] e.k = "addr" -> AddressOfExpr(ctx, e.name)
       [] e.k = "closure" -> ClosureExpr(ctx, e.params, e.names)
       [] e.k = "call" -> HandleCall(ctx, e)
       [] e.k = "member" ->
            MemberAccessExpr(all.c, ids[1], e.name, e.chain)
       [] e.k = "infix" -> InfixOperatorExpr(all.c, e.name, ids[1], ids[2])
       [] e.k = "prefix" -> PrefixOperatorExpr(all.c, e.name, ids[1])
       [] e.k = "postfix" -> PostfixOperatorExpr(all.c, e.name, ids[1])
       [] e.k = "array" -> ArrayExpr(all.c, ids)
       [] e.k = "dict" ->
            DictionaryExpr(all.c, [i \in 1..half |-> ids[2 * i - 1]],
                           [i \in 1..half |-> ids[2 * i]])
       [] e.k = "sub" -> SubscriptExpr(all.c, ids[1], ids[2])
       [] e.k = "tuple" -> TupleExpr(all.c, ids)
       [] e.k = "is" -> IsExpr(all.c, ids[1], e.name)
       [] e.k = "as" -> AsExpr(all.c, ids[1])
       [] e.k = "as?" -> AsQuestionExpr(all.c, ids[1], e.name))

-----------------------------------------------------------------------------
(* Statements. *)

\* The left side is handled before the right one: of a subscript its base
\* and index, of a field of a variable nothing, else the whole of it.
AssignTarget(ctx, lhs) ==
  LET field == /\ lhs.k = "member" /\ lhs.es[1].k = "name"
               /\ HasFieldTarget(ctx, lhs.es[1].name, lhs.name)
      parts == CASE field -> <<>> [] lhs.k = "sub" -> lhs.es
                 [] OTHER -> <<lhs>>
  IN Then(HandleAll(ctx, parts), LAMBDA all :
     CASE field -> FieldTarget(ctx, lhs.es[1].name, lhs.name)
       [] lhs.k = "sub" -> SubscriptTarget(all.c, all.ids[1], all.ids[2])
       [] OTHER -> ValueTarget(Result(all.c, all.ids[1])))
HandleAssign(st) ==
  /\ st.k = "assign"
  /\ c' = Then(AssignTarget(c, st.lhs), LAMBDA target :
          Then(HandleExpr(target.c, st.e), LAMBDA value :
          AssignTo(value.c, target, value.id).c))

\* Statements of one expression, whose value is x.
HandleLet(st, x) ==
  st.k = "let" /\ c' = LetDecl(x.c, st.names[1], st.type, x.id)
HandleVar(st, x) ==
  st.k = "var" /\ c' = VariableDecl(x.c, st.names[1], st.type, x.id)
HandleTuple(st, x) ==
  \/ st.k = "let()" /\ c' = LetTuple(x.c, st.names, x.id)
  \/ st.k = "var()" /\ c' = VarTuple(x.c, st.names, x.id)
HandleExprStatement(st, x) == st.k = "expr" /\ c' = x.c

HandleStatement(st) ==
  \/ HandleAssign(st)
  \/ /\ st.k # "assign"
     /\ \E x \in {HandleExpr(Annotate(c, st.type), st.e)} :
          \/ HandleLet(st, x) \/ HandleVar(st, x) \/ HandleTuple(st, x)
          \/ HandleExprStatement(st, x)

Init ==
  /\ prog = <<>> /\ menu \in DOMAIN Menus
  /\ c = EmptyContext

\* A file with an error is not compiled further.
Next ==
  /\ Len(prog) < MaxLen /\ ~c.error
  /\ \E i \in DOMAIN Menus[menu] :
       /\ prog' = Append(prog, i)
       /\ HandleStatement(Menus[menu][i])
  /\ UNCHANGED menu

Spec == Init /\ [][Next]_vars

-----------------------------------------------------------------------------
(* Properties.  They speak of the programs ExpressionMeaning gives a       *)
(* meaning: Swift accepts them, they do not trap, and they are of no kind  *)
(* that module lists as treated otherwise.                                 *)

Swift == Meaning([i \in DOMAIN prog |-> Menus[menu][prog[i]]])
Ran == Executed(c.insts)

\* The checker accepts such a program, and what it prints, what it asks the
\* system and what its functions are called with, in which order, is what
\* Swift says (handle_expr.cpp to lower.cpp, whole).
RunsAsSwift == Then(Swift, LAMBDA meant :
  meant.ok => ~c.error /\ Ran.out = meant.out)

\* No instruction of such a program is left out because an operand became no
\* value, no list becomes shorter on the way, and every function is called
\* with the arguments it has parameters for: sil_gen.cpp and lower.cpp skip
\* what is missing without a word.
NothingIsLost == Swift.ok => Ran.bad \cap {"lost", "signature"} = {}

\* The runtime is handed what it was made for: an array function an array, a
\* table of strings strings, a store what the storage was made for.  The
\* checker tracks which instruction made a collection, not what type it has.
RuntimeCallsFit ==
  Swift.ok => Ran.bad \cap {"family", "width", "undefined"} = {}
=============================================================================
