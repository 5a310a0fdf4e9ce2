----------------------------- MODULE Operators ------------------------------
(***************************************************************************)
(* The checker's handlers of literals, names and operators                 *)
(* (src/toolchain/check/handle_expr.cpp), as operators that extend a       *)
(* context.  A handler is given the ids of the operands it has handled and *)
(* returns the changed context with the id of the value.                   *)
(*                                                                         *)
(* A context holds the instructions of a straight piece of code, what each *)
(* name stands for, whether an error was reported, the tables that say     *)
(* which instruction made the collection a variable was declared with, and *)
(* the slots in which one handler leaves something for another.  The       *)
(* blocks of ?? and ?. are abstracted to one instruction, choose; &&, ||,  *)
(* ?: and try are in Statements.                                           *)
(***************************************************************************)
EXTENDS Integers, Sequences, SequencesExt, FiniteSets, Stepwise

CONSTANTS
  Types,      \* name -> [kind, fields: Seq([name, type]), members: name ->
              \*          [k: method, static, computed, case, ..., fn]]
  Functions,  \* name -> [params: Seq([name, type, default]), ret, mutating]
  Optionals   \* name of an optional type -> name of what it wraps

None == 0

Inst(op, type, args) == [op |-> op, type |-> type, args |-> args,
                         data |-> <<>>, name |-> ""]
With(inst, data) == [inst EXCEPT !.data = data]
Named(inst, name) == [inst EXCEPT !.name = name]

EmptyContext ==
  [insts |-> <<>>, scope |-> <<>>, error |-> FALSE,
   arrays |-> <<>>, lists |-> <<>>, dicts |-> <<>>, sets |-> <<>>,
   dictTypes |-> <<>>, pendingDict |-> <<>>]

Put(f, x, v) == [y \in DOMAIN f \cup {x} |-> IF y = x THEN v ELSE f[y]]

Result(c, id) == [c |-> c, id |-> id]
AddInst(c, inst) ==
  Result([c EXCEPT !.insts = Append(@, inst)], Len(c.insts) + 1)

\* An error that was reported, and one that is passed on without a word.
ErrorInst(c) == AddInst(c, Inst("ErrorInst", "Error", <<>>))
EmitError(c) == ErrorInst([c EXCEPT !.error = TRUE])

GetInstType(c, id) == IF id = None THEN "Error" ELSE c.insts[id].type
OpOf(c, id) == IF id = None THEN "none" ELSE c.insts[id].op

Kind(type) == IF type \in DOMAIN Types THEN Types[type].kind ELSE "builtin"
IsNominal(type) == Kind(type) \in {"struct", "class"}
IsFloatType(type) == type \in {"Double", "Float"}
IsNonBoolIntegerType(type) == type = "Int"

IsOptional(type) == type \in DOMAIN Optionals
OptionalOf(type) ==
  IF \E o \in DOMAIN Optionals : Optionals[o] = type
  THEN CHOOSE o \in DOMAIN Optionals : Optionals[o] = type ELSE "?"
MembersOf(type) ==
  IF type \in DOMAIN Types THEN Types[type].members ELSE <<>>

-----------------------------------------------------------------------------
(* Literals and names. *)

IntLiteral(c, n) == AddInst(c, With(Inst("IntValue", "Int", <<>>), <<n>>))
FloatLiteral(c, n) ==
  AddInst(c, With(Inst("FloatValue", "Double", <<>>), <<n>>))
BoolLiteral(c, b) ==
  AddInst(c, With(Inst("BoolLiteral", "Bool", <<>>), <<IF b THEN 1 ELSE 0>>))
StringLiteral(c, s) ==
  AddInst(c, With(Inst("StringLiteral", "String", <<>>), s))
NilLiteral(c) == AddInst(c, Inst("OptionalNone", "Error", <<>>))

NameRef(c, name, entity) ==
  AddInst(c, Named(Inst("NameRef", GetInstType(c, entity), <<entity>>), name))

\* What a declaration left: the instruction of a function or a type.
DeclOf(name) ==
  Named(Inst(IF name \in DOMAIN Functions THEN "FunctionDecl"
             ELSE CASE Kind(name) = "struct" -> "StructType"
                    [] Kind(name) = "class" -> "ClassType"
                    [] OTHER -> "EnumDecl", "Type", <<>>), name)
Declared(name) ==
  name \in DOMAIN Functions \/ Kind(name) \in {"struct", "class", "enum"}
RefToDecl(c, name) ==
  Then(AddInst(c, DeclOf(name)), LAMBDA decl :
  NameRef(decl.c, name, decl.id))

IdentifierNameExpr(c, name) ==
  IF name \in DOMAIN c.scope THEN NameRef(c, name, c.scope[name])
  ELSE IF Declared(name) THEN RefToDecl(c, name) ELSE EmitError(c)

FieldAccess(c, base, type, index) ==
  AddInst(c, With(Inst("FieldAccess", type, <<base>>), <<index>>))

FieldIndex(type, name) ==
  Then({i \in 1..Len(Types[type].fields) :
          Types[type].fields[i].name = name}, LAMBDA at :
  IF at = {} THEN 0 ELSE CHOOSE i \in at : TRUE)

-----------------------------------------------------------------------------
(* Interpolated strings.  A segment is text, or what stands between the    *)
(* parentheses: an integer, a name, name.member, or two of the first two   *)
(* around an operator; anything else is "other".                           *)

Concat(c, l, r) ==
  IF l = None THEN Result(c, r) ELSE IF r = None THEN Result(c, l)
  ELSE AddInst(c, Inst("StringConcat", "String", <<l, r>>))

\* Int and Bool are converted, what is of another type is used as it is.
ToStringInst(c, id) ==
  IF GetInstType(c, id) \in {"Int", "Bool"}
  THEN AddInst(c, Inst("IntToString", "String", <<id>>)) ELSE Result(c, id)

ResolveName(c, name) ==
  IF name \in DOMAIN c.scope THEN NameRef(c, name, c.scope[name])
  ELSE Result(c, None)

InterpolatedMember(c, seg) ==
  Then(ResolveName(c, seg.name), LAMBDA obj :
  LET type == GetInstType(obj.c, obj.id)
      index == IF IsNominal(type) THEN FieldIndex(type, seg.member) ELSE 0
      field == FieldAccess(obj.c, obj.id, Types[type].fields[index].type,
                           index)
  IN IF obj.id = None \/ index = 0 THEN Result(obj.c, None)
     ELSE ToStringInst(field.c, field.id))

\* Digits between the parentheses are read into four bits each, of which the
\* highest is then taken for the sign: 8 and 9 become -8 and -7.
InterpolatedInt(n) ==
  LET width == 4 * Len(ToString(n))
  IN IF n < 2^(width - 1) THEN n ELSE n - 2^width

InterpolatedOperand(c, x) ==
  IF x.k = "int" THEN IntLiteral(c, InterpolatedInt(x.n))
  ELSE ResolveName(c, x.name)

IntOps == [o \in {"+", "-", "*", "/", "%"} |->
             CASE o = "+" -> "IntAdd" [] o = "-" -> "IntSub"
               [] o = "*" -> "IntMul" [] o = "/" -> "IntDiv"
               [] o = "%" -> "IntMod"]

\* The operation is that of Int, whatever the operands are.
InterpolatedInfix(c, seg) ==
  Then(InterpolatedOperand(c, seg.l), LAMBDA l :
  Then(InterpolatedOperand(l.c, seg.r), LAMBDA r :
  LET x == AddInst(r.c, Inst(IntOps[seg.op], "Int", <<l.id, r.id>>))
  IN IF l.id = None \/ r.id = None THEN Result(r.c, None)
     ELSE AddInst(x.c, Inst("IntToString", "String", <<x.id>>))))

InterpolatedSegment(c, seg) ==
  CASE seg.k = "text" -> StringLiteral(c, seg.s)
    [] seg.k = "int" -> LET x == IntLiteral(c, InterpolatedInt(seg.n))
                        IN ToStringInst(x.c, x.id)
    [] seg.k = "name" -> LET x == ResolveName(c, seg.name)
                         IN ToStringInst(x.c, x.id)
    [] seg.k = "member" -> InterpolatedMember(c, seg)
    [] seg.k = "infix" -> InterpolatedInfix(c, seg)
    [] seg.k = "other" -> Result(c, None)

InterpolatedString(c, segments) ==
  LET Step(r, seg) == Then(InterpolatedSegment(r.c, seg), LAMBDA x :
                      Concat(x.c, r.id, x.id))
  IN Then(FoldLeft(Step, Result(c, None), segments), LAMBDA all :
     IF all.id = None THEN StringLiteral(all.c, <<>>) ELSE all)

-----------------------------------------------------------------------------
(* Infix operators. *)

Arithmetics == {"+", "-", "*", "/", "%"}
Comparisons == {"==", "!=", "<", ">", "<=", ">="}
Compounds == [o \in {"+=", "-=", "*=", "/=", "%="} |->
                CASE o = "+=" -> "+" [] o = "-=" -> "-" [] o = "*=" -> "*"
                  [] o = "/=" -> "/" [] o = "%=" -> "%"]

FloatOps == [o \in Arithmetics \ {"%"} |->
               CASE o = "+" -> "FloatAdd" [] o = "-" -> "FloatSub"
                 [] o = "*" -> "FloatMul" [] o = "/" -> "FloatDiv"]
IntCompares ==
  [o \in Comparisons |->
     CASE o = "==" -> "IntEq" [] o = "!=" -> "IntNeq"
       [] o = "<" -> "IntLess" [] o = ">" -> "IntGreater"
       [] o = "<=" -> "IntLessEq" [] o = ">=" -> "IntGreaterEq"]
FloatCompares ==
  [o \in Comparisons |->
     CASE o = "==" -> "FloatEq" [] o = "!=" -> "FloatNeq"
       [] o = "<" -> "FloatLess" [] o = ">" -> "FloatGreater"
       [] o = "<=" -> "FloatLessEq" [] o = ">=" -> "FloatGreaterEq"]
Bitwises ==
  [o \in {"&", "|", "^", "<<", ">>"} |->
     CASE o = "&" -> "IntBitwiseAnd" [] o = "|" -> "IntBitwiseOr"
       [] o = "^" -> "IntBitwiseXor" [] o = "<<" -> "IntShiftLeft"
       [] o = ">>" -> "IntShiftRight"]

Binary(c, op, type, l, r) == AddInst(c, Inst(op, type, <<l, r>>))

\* x op= y: the operation and a store.  Only the type of x is looked at;
\* %= of a float has no operation and gives x.
CompoundAssign(c, op, l, r) ==
  LET type == GetInstType(c, l)
  IN Then(Binary(c, IF IsFloatType(type) THEN FloatOps[Compounds[op]]
                    ELSE IntOps[Compounds[op]], type, l, r), LAMBDA result :
     IF ~IsFloatType(type) /\ ~IsNonBoolIntegerType(type) THEN EmitError(c)
     ELSE IF IsFloatType(type) /\ op = "%=" THEN Result(c, l)
     ELSE Result(AddInst(result.c, Inst("Assign", "none", <<l, result.id>>)).c,
                 result.id))

\* x ?? y: both operands have been evaluated; the type is that of y.
Coalesce(c, l, r) ==
  LET type == GetInstType(c, r)
      has == AddInst(c, With(Inst("TupleAccess", "Bool", <<l>>), <<1>>))
  IN Then(AddInst(has.c, With(Inst("TupleAccess", type, <<l>>), <<2>>)),
          LAMBDA some :
     IF type = "Error" THEN ErrorInst(c)
     ELSE IF OpOf(c, l) = "OptionalNone" THEN Result(c, r)
     ELSE AddInst(some.c, Inst("choose", type, <<has.id, some.id, r>>)))

\* An operator function of a struct or class.
OverloadOf(type, op) ==
  IF IsNominal(type) /\ op \in DOMAIN MembersOf(type)
  THEN MembersOf(type)[op].fn ELSE ""

CallOverload(c, op, l, r) ==
  LET fn == OverloadOf(GetInstType(c, l), op)
  IN AddInst(c, Named(Inst("Call", Functions[fn].ret, <<l, r>>), fn))

Arithmetic(c, op, l, r) ==
  LET type == GetInstType(c, l)
  IN CASE op = "+" /\ type = "String" /\ GetInstType(c, r) = "String" ->
            Binary(c, "StringConcat", type, l, r)
       [] type # GetInstType(c, r) -> EmitError(c)
       [] IsFloatType(type) /\ op \in DOMAIN FloatOps ->
            Binary(c, FloatOps[op], type, l, r)
       [] IsNonBoolIntegerType(type) -> Binary(c, IntOps[op], type, l, r)
       [] OverloadOf(type, op) # "" -> CallOverload(c, op, l, r)
       [] OTHER -> EmitError(c)

\* There is no overload of a comparison, nor an order of String or Bool.
Comparison(c, op, l, r) ==
  LET type == GetInstType(c, l)
      equality == op \in {"==", "!="}
  IN CASE type # GetInstType(c, r) -> EmitError(c)
       [] IsFloatType(type) -> Binary(c, FloatCompares[op], "Bool", l, r)
       [] type = "String" /\ equality ->
            Binary(c, IF op = "==" THEN "StringEq" ELSE "StringNeq", "Bool",
                   l, r)
       [] type = "Bool" /\ equality ->
            Binary(c, IntCompares[op], "Bool", l, r)
       [] IsNonBoolIntegerType(type) ->
            Binary(c, IntCompares[op], "Bool", l, r)
       [] OTHER -> EmitError(c)

\* Only the left operand's type is looked at.
Bitwise(c, op, l, r) ==
  IF IsNonBoolIntegerType(GetInstType(c, l))
  THEN Binary(c, Bitwises[op], GetInstType(c, l), l, r) ELSE EmitError(c)

\* An operator nobody knows gives its left operand.
OtherInfix(c, op, l, r) ==
  IF OverloadOf(GetInstType(c, l), op) # "" THEN CallOverload(c, op, l, r)
  ELSE Result(c, l)

InfixOperatorExpr(c, op, l, r) ==
  CASE op \in DOMAIN Compounds -> CompoundAssign(c, op, l, r)
    [] op = "??" -> Coalesce(c, l, r)
    [] op \notin DOMAIN Compounds \cup {"??"}
       /\ "Error" \in {GetInstType(c, l), GetInstType(c, r)} -> ErrorInst(c)
    [] OTHER -> CASE op \in Arithmetics -> Arithmetic(c, op, l, r)
                  [] op \in Comparisons -> Comparison(c, op, l, r)
                  [] op \in DOMAIN Bitwises -> Bitwise(c, op, l, r)
                  [] OTHER -> OtherInfix(c, op, l, r)

-----------------------------------------------------------------------------
(* Prefix and postfix operators, casts. *)

Unary(c, op, x) == AddInst(c, Inst(op, GetInstType(c, x), <<x>>))

PrefixOperatorExpr(c, op, x) ==
  LET type == GetInstType(c, x)
  IN CASE type = "Error" -> ErrorInst(c)
       [] op = "-" /\ IsFloatType(type) -> Unary(c, "FloatNegate", x)
       [] op = "-" /\ IsNonBoolIntegerType(type) -> Unary(c, "IntNegate", x)
       [] op = "!" /\ type = "Bool" -> Unary(c, "BoolNot", x)
       [] op = "~" /\ IsNonBoolIntegerType(type) ->
            Unary(c, "IntBitwiseNot", x)
       [] OTHER -> IF op \in {"-", "!", "~"} /\ type # "Error"
                   THEN EmitError(c) ELSE Result(c, x)

\* x!: the payload, without a look at the flag.
PostfixOperatorExpr(c, op, x) ==
  LET type == GetInstType(c, x)
  IN IF op = "!" /\ IsOptional(type)
     THEN AddInst(c, With(Inst("TupleAccess", Optionals[type], <<x>>), <<2>>))
     ELSE Result(c, x)

\* The casts are decided by the static type.
IsExpr(c, x, type) == BoolLiteral(c, x # None /\ GetInstType(c, x) = type)
AsExpr(c, x) == Result(c, x)
AsQuestionExpr(c, x, type) ==
  IF GetInstType(c, x) = type
  THEN AddInst(c, Inst("OptionalSome", OptionalOf(type), <<x>>))
  ELSE AddInst(c, Inst("OptionalNone", "Error", <<>>))

\* &x: only of a name.
AddressOfExpr(c, name) ==
  IF name \notin DOMAIN c.scope THEN Result(c, None)
  ELSE LET entity == c.scope[name]
       IN AddInst(c, Inst("AddressOf",
                          IF OpOf(c, entity) = "VarStorage"
                          THEN GetInstType(c, entity) ELSE "Error",
                          <<entity>>))

\* A tuple of n values has the tuple type of their types.
TupleTypeOf(types) ==
  IF \E t \in DOMAIN Types : /\ Types[t].kind = "tuple"
                            /\ [i \in DOMAIN Types[t].fields |->
                                  Types[t].fields[i].type] = types
  THEN CHOOSE t \in DOMAIN Types :
         /\ Types[t].kind = "tuple"
         /\ [i \in DOMAIN Types[t].fields |->
               Types[t].fields[i].type] = types
  ELSE "Tuple"
TupleExpr(c, ids) ==
  AddInst(c, Inst("TupleInit",
                  TupleTypeOf([i \in DOMAIN ids |-> GetInstType(c, ids[i])]),
                  ids))
=============================================================================
