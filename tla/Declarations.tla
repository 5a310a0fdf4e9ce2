--------------------------- MODULE Declarations ---------------------------
(***************************************************************************)
(* How the checker enters the declarations of a program's files            *)
(* (src/toolchain/check/check.cpp, handle_type_decl.cpp,                   *)
(* handle_function.cpp): one context for all files, and four passes over   *)
(* their roots - types, function signatures, extensions, and the rest.      *)
(*                                                                          *)
(* A file is a sequence of nodes; a modifier is a node of its own in front *)
(* of what it belongs to, as in the parse tree.  Of a body only what       *)
(* concerns names is kept: uses of a name (`site` tells them apart), of a  *)
(* member of a type, local variables, and functions declared inside.        *)
(* Specialization of generic functions and types is left out: a template   *)
(* is entered, its body is not looked at.                                   *)
(***************************************************************************)
EXTENDS CheckContext

-----------------------------------------------------------------------------
(***************************************************************************)
(* The members the checker writes for a type that declares a conformance   *)
(* (src/toolchain/check/synthesis.cpp): `==` and `!=` for Equatable, `<`   *)
(* for Comparable, `hash` for Hashable, `description` for                   *)
(* CustomStringConvertible.  The body of a member is an expression over    *)
(* its parameters; Evaluate runs it on the stored fields of objects.        *)
(*                                                                          *)
(* A Float is the number of its halves, and no NaN; a string is its text.   *)
(***************************************************************************)
Field(of, i, type) ==
  [op |-> "FieldAccess", of |-> of, index |-> i, type |-> type]
Binary(op, lhs, rhs) == [op |-> op, lhs |-> lhs, rhs |-> rhs]
Unary(op, operand) == [op |-> op, operand |-> operand]
Constant(value) == [op |-> "Literal", value |-> value]

BuiltinName(type) == IF type.kind = "Builtin" THEN type.name ELSE ""

\* The comparison of one field of both sides, chosen by the field's type;
\* what has no case of its own is compared as an integer.
CompareField(i, type, op) ==
  Binary((CASE BuiltinName(type) = "String" /\ op = "Eq" -> "String"
            [] BuiltinName(type) = "Float" -> "Float"
            [] OTHER -> "Int") \o op,
         Field("lhs", i, type), Field("rhs", i, type))

EmitFieldEq(i, type) == CompareField(i, type, "Eq")
EmitFieldLess(i, type) == CompareField(i, type, "Less")
EmitFieldGreater(i, type) == CompareField(i, type, "Greater")

\* Fields are read at their position among the type's own stored fields.
EqualityBody(fields) ==
  IF fields = <<>> THEN Constant(TRUE)
  ELSE FoldLeftDomain(
         LAMBDA result, i :
           IF i = 1 THEN result
           ELSE Binary("BoolAnd", result, EmitFieldEq(i, fields[i].type)),
         EmitFieldEq(1, fields[1].type), fields)

\* Less in a field, or equal in it and less in those behind it.
LessAt(i, type, rest) ==
  LET less == EmitFieldLess(i, type)
      equal == Binary("BoolAnd", Unary("BoolNot", less),
                      Unary("BoolNot", EmitFieldGreater(i, type)))
  IN  Binary("BoolOr", less, Binary("BoolAnd", equal, rest))

\* Mutant: the fields are folded from the first to the last.
LessBodyForward(fields) ==
  FoldLeftDomain(LAMBDA rest, i : LessAt(i, fields[i].type, rest),
                 Constant(FALSE), fields)

\* The last field is compared first, so the first one decides.
LessBody(fields) ==
  FoldRightDomain(LAMBDA i, rest : LessAt(i, fields[i].type, rest),
                  fields, Constant(FALSE))

FieldHash(i, type) ==
  CASE BuiltinName(type) = "String" ->
         Unary("StringLen", Field("self", i, type))
    [] BuiltinName(type) = "Float" ->
         Unary("FloatToInt", Field("self", i, type))
    [] OTHER -> Field("self", i, type)

HashBody(fields) ==
  FoldLeftDomain(
    LAMBDA hash, i :
      Binary("IntAdd", Binary("IntMul", hash, Constant(31)),
             FieldHash(i, fields[i].type)),
    Constant(5381), fields)

FieldText(i, type) ==
  CASE BuiltinName(type) \in {"Int", "Bool"} ->
         Unary("IntToString", Field("self", i, type))
    [] BuiltinName(type) = "Float" ->
         Unary("IntToString", Unary("FloatToInt", Field("self", i, type)))
    [] OTHER -> Field("self", i, type)

DescriptionBody(fields, name) ==
  LET Label(i) == (IF i > 1 THEN ", " ELSE "") \o fields[i].name \o ": "
      Append2(text, i) ==
        Binary("StringConcat",
               Binary("StringConcat", text, Constant(Label(i))),
               FieldText(i, fields[i].type))
  IN  Binary("StringConcat",
             FoldLeftDomain(Append2, Constant(name \o "("), fields),
             Constant(")"))

-----------------------------------------------------------------------------
\* Entering a synthesized member in the type's scope.

IsNameInScope(c, scope, name) == name \in DOMAIN c.scopes[scope].names

\* The function, its declaration and the scope of its parameters, which is
\* popped again when the body has been emitted.
AddMember(c, scope, type, name, params, body) ==
  Then([name |-> c.scopes[scope].name \o "." \o name, scope |-> scope,
        static |-> FALSE, generic |-> FALSE, comptime |-> FALSE,
        level |-> "internal", attribute |-> NoNode,
        params |-> params, result |-> type, body |-> body], LAMBDA fn :
  After([c EXCEPT !.functions = Append(@, fn)], LAMBDA added :
  LET declared == AddInst(added, [kind |-> "FunctionDecl", node |-> NoNode,
                                  function |-> Len(added.functions)])
      scoped == AddScope(declared, fn.name, scope)
  IN [scoped EXCEPT !.function = None]))

AddOperator(c, scope, name, body) ==
  After(AddMember(c, scope, Builtin("Bool"), name,
                  <<"lhs", "rhs">>, body), LAMBDA added :
  AddNameToScope(added, name, LastInst(added)))

AddProperty(c, scope, type, name, body) ==
  After(AddMember(c, scope, type, name, <<"self">>, body), LAMBDA added :
  LET property == AddInst(added, [kind |-> "ComputedPropertyDecl",
                                  type |-> type, node |-> NoNode,
                                  getter |-> LastInst(added)])
  IN AddNameToScope(property, name, LastInst(property)))

\* `!=` calls the `==` that was synthesized with it.
SynthesizeEquatable(c, scope, fields) ==
  After(AddOperator(c, scope, "__eq__", EqualityBody(fields)), LAMBDA eq :
  IF IsNameInScope(c, scope, "__eq__") THEN c
  ELSE IF IsNameInScope(eq, scope, "__neq__") THEN eq
  ELSE AddOperator(eq, scope, "__neq__",
                   Unary("BoolNot", EqualityBody(fields))))

SynthesizeComparable(c, scope, fields) ==
  IF IsNameInScope(c, scope, "__lt__") THEN c
  ELSE AddOperator(c, scope, "__lt__", LessBody(fields))

SynthesizeHashable(c, scope, fields) ==
  IF IsNameInScope(c, scope, "hash") THEN c
  ELSE AddProperty(c, scope, Builtin("Int"), "hash", HashBody(fields))

SynthesizeDescription(c, scope, fields, name) ==
  IF IsNameInScope(c, scope, "description") THEN c
  ELSE AddProperty(c, scope, Builtin("String"), "description",
                   DescriptionBody(fields, name))

\* The protocols a type lists, in order; others leave a conformance only.
Conform(c, type, scope, fields, protocols) ==
  LET name == c.scopes[scope].name
      Add(d, protocol) ==
        CASE protocol = "Equatable" -> SynthesizeEquatable(d, scope, fields)
          [] protocol = "Comparable" -> SynthesizeComparable(d, scope, fields)
          [] protocol = "Hashable" -> SynthesizeHashable(d, scope, fields)
          [] protocol = "CustomStringConvertible" ->
               SynthesizeDescription(d, scope, fields, name)
          [] OTHER -> d
      conforming == [c EXCEPT !.conformances = (type :> protocols) @@ @]
  IN  IF protocols = <<>> THEN c ELSE FoldLeft(Add, conforming, protocols)

-----------------------------------------------------------------------------
\* Running a body: `args` gives the stored fields of each parameter.

\* A Float becomes an Int by leaving out its fraction.
FloatToInt(halves) ==
  IF halves < 0 THEN -((-halves) \div 2) ELSE halves \div 2

RECURSIVE Evaluate(_, _)
Evaluate(e, args) ==
  LET L == Evaluate(e.lhs, args)
      R == Evaluate(e.rhs, args)
      X == Evaluate(e.operand, args)
  IN  CASE e.op = "Literal" -> e.value
        [] e.op = "FieldAccess" -> args[e.of][e.index]
        [] e.op \in {"IntEq", "FloatEq", "StringEq"} -> L = R
        [] e.op \in {"IntLess", "FloatLess"} -> L < R
        [] e.op \in {"IntGreater", "FloatGreater"} -> L > R
        [] e.op = "BoolAnd" -> L /\ R
        [] e.op = "BoolOr" -> L \/ R
        [] e.op = "BoolNot" -> ~X
        [] e.op = "IntAdd" -> L + R
        [] e.op = "IntMul" -> L * R
        [] e.op = "StringLen" -> Len(X)
        [] e.op = "FloatToInt" -> FloatToInt(X)
        [] e.op = "IntToString" -> ToString(X)
        [] e.op = "StringConcat" -> L \o R

-----------------------------------------------------------------------------
Diagnose(c, kind, node) ==
  [c EXCEPT !.diagnostics =
     Append(@, [kind |-> kind, node |-> node, file |-> c.file,
                at |-> c.at])]

RecordUse(c, site, node, via) ==
  [c EXCEPT !.uses = Append(@, [site |-> site, node |-> node, via |-> via,
                                file |-> c.file])]

\* Modifier nodes, at the top level and before a member.
ModifierKinds == {"AccessModifier", "Attribute", "ComptimeModifier"}

HandleModifier(c, m) ==
  CASE m.kind = "AccessModifier" -> SetPendingAccessLevel(c, m.text)
    [] m.kind = "Attribute" -> [c EXCEPT !.attribute = m.name]
    [] m.kind = "ComptimeModifier" -> [c EXCEPT !.comptime = TRUE]

\* The accessors of a property or subscript are the bodies written: none of
\* a stored property, the getter's, and the setter's behind it.  Without
\* `get` and `set` the whole block is the getter.
GetterBody(accessors) == accessors[1]
HasSetter(accessors) == Len(accessors) = 2
SetterBody(accessors) == accessors[2]

-----------------------------------------------------------------------------
\* Functions.

ParamsOf(c, params) ==
  [i \in DOMAIN params |->
     [name |-> params[i].name, node |-> params[i].node,
      type |-> HandleTypeExpr(c, params[i].type)]]

\* The store entry and the FunctionDecl instruction; the context given is
\* the one the signature was read in.
AddFunction(c, fn, node) ==
  After([c EXCEPT !.functions = Append(@, fn)], LAMBDA added :
  AddInst(added, [kind |-> "FunctionDecl", node |-> node,
                  function |-> Len(added.functions)]))

FunctionOf(c, name, params, result) ==
  [name |-> name, scope |-> CurrentScope(c), static |-> FALSE,
   generic |-> FALSE, comptime |-> FALSE, level |-> "internal",
   attribute |-> NoNode, params |-> params, result |-> result,
   body |-> <<>>]

ResultOf(c, f) ==
  IF f.result = NoType THEN NoType ELSE HandleTypeExpr(c, f.result)

\* A signature on its own: pass 1b enters every top-level function so, and
\* bodiless declarations are entered no other way.  The comptime hint stays.
HandleFunctionDecl(c, f) ==
  Then([FunctionOf(c, f.name, ParamsOf(c, f.params), ResultOf(c, f))
          EXCEPT !.level = TakePendingAccessLevel(c),
                 !.attribute = c.attribute,
                 !.generic = f.generic], LAMBDA fn :
  LET added == AddFunction(PendingTaken(c), fn, f.node)
      named == AddNameToScope(added, f.name, LastInst(added))
  IN SetAccessLevel(named, LastInst(named), fn.level, CurrentScope(c)))

\* A template: nothing pending is taken and its body is not processed.
EnterTemplate(c, f, static) ==
  LET fn == [FunctionOf(c, f.name, ParamsOf(c, f.params), ResultOf(c, f))
               EXCEPT !.generic = TRUE, !.static = static]
  IN After(AddFunction(c, fn, f.node), LAMBDA added :
     AddNameToScope(added, f.name, LastInst(added)))

\* The name in the object file: of a method with its type, of a function in
\* a function with a number.
MangledName(c, name) ==
  IF c.type # None
  THEN IF TypeName(c, c.type) = "" THEN name
       ELSE TypeName(c, c.type) \o "." \o name
  ELSE IF c.function # None
  THEN "__nested_" \o ToString(c.nested_counter) \o "_" \o name
  ELSE name

CountNested(c) ==
  IF c.type = None /\ c.function # None
  THEN [c EXCEPT !.nested_counter = @ + 1] ELSE c

SelfParam(c) ==
  [name |-> "self", node |-> "self",
   type |-> IF c.type = None THEN ErrorType ELSE TypeOfInst(c, c.type)]

\* The scope of a body with its parameters, the body, and the scope popped.
RECURSIVE HandleStatement(_, _)

HandleBody(c, name, params, body) ==
  After(AddScope(c, name, CurrentScope(c)), LAMBDA scoped :
  LET AddParam(d, p) ==
        After(AddInst(d, [kind |-> "ValueParam", node |-> p.node,
                          type |-> p.type]), LAMBDA inst :
        AddNameToScope(inst, p.name, LastInst(inst)))
      entered == FoldLeft(AddParam, PushScope(scoped, LastScope(scoped)),
                          params)
  IN PopScope(FoldLeft(HandleStatement, entered, body)))

\* Inside a type a function is a method and gets a `self` unless static;
\* its own name, not the mangled one, enters the scope.
DefineFunction(c, f, static) ==
  LET is_method == c.type # None
      self == IF is_method /\ ~static THEN <<SelfParam(c)>> ELSE <<>>
  IN Then(self \o ParamsOf(c, f.params), LAMBDA params :
     Then([FunctionOf(c, MangledName(c, f.name), params, ResultOf(c, f))
             EXCEPT !.level = TakePendingAccessLevel(c),
                    !.attribute = c.attribute,
                    !.comptime = c.comptime, !.static = static], LAMBDA fn :
     LET taken == [CountNested(PendingTaken(c)) EXCEPT !.comptime = FALSE]
     IN After(AddFunction(taken, fn, f.node), LAMBDA added :
        LET decl == LastInst(added)
        IN After(SetAccessLevel(AddNameToScope(added, f.name, decl),
                                decl, fn.level, CurrentScope(c)), LAMBDA named :
           LET current == [named EXCEPT !.function = Len(named.functions)]
           IN [HandleBody(current, fn.name, params, f.body)
                 EXCEPT !.function = c.function]))))

HandleFunctionDefinition(c, f, static) ==
  IF f.generic THEN EnterTemplate(c, f, static)
  ELSE DefineFunction(c, f, static)

-----------------------------------------------------------------------------
\* Members that are functions in disguise.

\* Struct and class names prefix accessors and initializers; of an enum or
\* a built-in type nothing does.
NominalName(c) ==
  IF c.type = None THEN ""
  ELSE IF c.insts[c.type].kind \in {"StructType", "ClassType"}
  THEN TypeName(c, c.type)
  ELSE ""

\* A function entered under `name`, with its body, which has `locals` besides
\* the parameters; the current function is cleared afterwards, not restored.
AddAccessor(c, mangled, name, params, locals, result, body, node) ==
  LET fn == FunctionOf(c, mangled, params, result)
  IN After(AddFunction(c, fn, node), LAMBDA added :
     LET decl == LastInst(added)
     IN After(AddNameToScope(added, name, decl), LAMBDA named :
        LET current == [named EXCEPT !.function = Len(named.functions)]
        IN [HandleBody(current, mangled, params \o locals, body)
              EXCEPT !.function = None]))

\* The property's name stands for a ComputedPropertyDecl that leads to the
\* getter; the setter is entered as `name.set`.
GenerateComputedPropertyGetter(c, v) ==
  Then(IF v.type = NoType THEN ErrorType ELSE HandleTypeExpr(c, v.type),
       LAMBDA type :
  LET prefix == NominalName(c)
  IN Then(IF prefix = "" THEN v.name ELSE prefix \o "." \o v.name,
          LAMBDA getter :
     LET fn == FunctionOf(c, getter, <<SelfParam(c)>>, type)
     IN After(AddFunction(c, fn, v.node), LAMBDA added :
        LET property == AddInst(added, [kind |-> "ComputedPropertyDecl",
                                        node |-> v.node, type |-> type,
                                        getter |-> LastInst(added)])
            named == AddNameToScope(property, v.name, LastInst(property))
            current == [named EXCEPT !.function = Len(named.functions)]
        IN After([HandleBody(current, getter, <<SelfParam(c)>>,
                             GetterBody(v.accessors)) EXCEPT !.function = None],
                 LAMBDA got :
           LET new_value == [name |-> "newValue", node |-> "newValue", type |-> type]
           IN IF ~HasSetter(v.accessors) THEN got
              ELSE AddAccessor(got, prefix \o "." \o v.name \o ".set",
                               v.name \o ".set", <<SelfParam(c), new_value>>, <<>>,
                               NoType, SetterBody(v.accessors), v.node)))))

\* Both accessors take the index; behind each the enclosing type is cleared.
HandleSubscriptDefinition(c, s) ==
  LET prefix == NominalName(c) \o ".subscript"
  IN Then(HandleTypeExpr(c, s.result), LAMBDA result :
     Then(<<SelfParam(c)>> \o ParamsOf(c, s.params), LAMBDA params :
     LET Cleared(d) == [d EXCEPT !.type = None]
     IN After(Cleared(AddAccessor(c, prefix \o ".get", "subscript", params,
                                  <<>>, result, GetterBody(s.accessors),
                                  s.node)), LAMBDA got :
        LET new_value == [name |-> "newValue", node |-> "newValue",
                          type |-> result]
        IN IF c.type = None THEN c
           ELSE IF ~HasSetter(s.accessors) THEN got
           ELSE Cleared(AddAccessor([got EXCEPT !.type = c.type],
                                    prefix \o ".set", "subscript.set",
                                    Append(params, new_value), <<>>, NoType,
                                    SetterBody(s.accessors), s.node)))))

\* `self` is a variable of the body, declared behind the parameters.
HandleInitDefinition(c, m) ==
  IF c.type = None THEN c
  ELSE AddAccessor(c, NominalName(c) \o ".init", "init",
                   ParamsOf(c, m.params), <<SelfParam(c)>>,
                   TypeOfInst(c, c.type), m.body, m.node)

HandleDeinitDefinition(c, m) ==
  IF c.type = None THEN c
  ELSE IF c.insts[c.type].kind # "ClassType" THEN c
  ELSE AddAccessor(c, NominalName(c) \o ".__deinit", "__deinit",
                   <<SelfParam(c)>>, <<>>, NoType, m.body, m.node)

-----------------------------------------------------------------------------
\* The members of a type.

IsComputedProperty(m) == m.accessors # <<>>

\* The stored properties of a struct or class, in order.
CollectFieldDecls(c, members) ==
  Then(SelectSeq(members, LAMBDA m : m.kind = "VariableDecl"
                                     /\ ~IsComputedProperty(m)),
       LAMBDA stored :
  [i \in DOMAIN stored |->
     [name |-> stored[i].name, node |-> stored[i].node,
      type |-> IF stored[i].type = NoType THEN ErrorType
               ELSE HandleTypeExpr(c, stored[i].type)]])

\* Fields are entered before any member; indexes go on from `index`.
AddFields(c, fields, index) ==
  LET AddField(d, i) ==
        LET field == AddInst(d, [kind |-> "StructField",
                                 node |-> fields[i].node,
                                 type |-> fields[i].type,
                                 index |-> index + i - 1])
        IN  AddNameToScope(field, fields[i].name, LastInst(field))
  IN  FoldLeftDomain(AddField, c, fields)

\* One member with what modifiers stand in front of it.  `static` and
\* `mutating` are kept by the loop, levels and attributes by the context; a
\* property takes neither, and they wait for the next function.
HandleMember(s, m) ==
  LET c == s.context
      Done(d) == [context |-> d, static |-> FALSE]
  IN  CASE m.kind = "EnumCaseDecl" -> s
        [] m.kind = "StaticModifier" -> [s EXCEPT !.static = TRUE]
        [] m.kind = "MutatingModifier" -> s
        [] m.kind \in {"AccessModifier", "Attribute"} ->
             [s EXCEPT !.context = HandleModifier(c, m)]
        [] m.kind = "VariableDecl" ->
             Done(IF IsComputedProperty(m)
                  THEN GenerateComputedPropertyGetter(c, m) ELSE c)
        [] m.kind = "InitDefinition" -> Done(HandleInitDefinition(c, m))
        [] m.kind = "DeinitDefinition" -> Done(HandleDeinitDefinition(c, m))
        [] m.kind = "FunctionDefinition" ->
             Done(HandleFunctionDefinition(c, m, s.static))
        [] m.kind = "SubscriptDefinition" ->
             Done(HandleSubscriptDefinition(c, m))
        [] OTHER -> Done(HandleStatement(c, m))

HandleTypeMembers(c, members) ==
  FoldLeft(HandleMember, [context |-> c, static |-> FALSE], members).context

-----------------------------------------------------------------------------
\* Type definitions.  Each ends with no current type, whatever it was
\* before.

DeclareType(c, kind, d) ==
  LET scoped == AddScope(c, d.name, CurrentScope(c))
      added == AddInst(scoped, [kind |-> kind, node |-> d.node,
                                scope |-> LastScope(scoped)])
  IN  AddNameToScope(added, d.name, LastInst(added))

\* Of a template only the name is entered; the first of a name stays.
TypeTemplate(c, kind, d) ==
  After(DeclareType(c, kind, d), LAMBDA declared :
  [declared EXCEPT !.generic_type_templates =
     @ @@ (d.name :> LastInst(declared))])

EndType(c) == PopScope([c EXCEPT !.type = None])

HandleStructDefinition(c, d) ==
  After(DeclareType(c, "StructType", d), LAMBDA declared :
  LET type == LastInst(declared)
      fields == CollectFieldDecls(declared, d.members)
      entered == AddFields(PushScope(declared, LastScope(declared)),
                           fields, 0)
      body == HandleTypeMembers([entered EXCEPT !.type = type], d.members)
  IN IF d.generic THEN TypeTemplate(c, "StructType", d)
     ELSE EndType(Conform(body, type, declared.insts[type].scope, fields,
                          d.inherits)))

\* The last class the inheritance clause names is the superclass, looked up
\* where the class is defined; what is no class (yet) is a protocol.
IsClassName(c, name) ==
  LET inst == LookupName(c, name)
  IN  inst # None /\ c.insts[inst].kind = "ClassType"

Superclass(c, d) ==
  LET classes == SelectSeq(d.inherits, LAMBDA n : IsClassName(c, n))
  IN  IF classes = <<>> THEN None ELSE LookupName(c, Last(classes))

\* Mutant: the superclass's names are not copied.
CopyNothing(c, super) == c

\* A subclass starts with a copy of its superclass's names.
CopySuperclass(c, super) ==
  LET names == c.scopes[c.insts[super].scope].names
      scope == CurrentScope(c)
  IN  IF super = None THEN c
      ELSE [c EXCEPT !.stack[Len(c.stack)].names = names @@ @,
                     !.scopes[scope].names = names @@ @]

NextFieldIndex(c) ==
  LET names == c.scopes[CurrentScope(c)].names
      fields == {n \in DOMAIN names :
                   c.insts[names[n]].kind = "StructField"}
  IN  IF fields = {} THEN 0
      ELSE 1 + Max({c.insts[names[n]].index : n \in fields})

HandleClassDefinition(c, d) ==
  LET protocols == SelectSeq(d.inherits, LAMBDA n : ~IsClassName(c, n))
  IN After(DeclareType(c, "ClassType", d), LAMBDA declared :
     LET type == LastInst(declared)
         scope == LastScope(declared)
         fields == CollectFieldDecls(declared, d.members)
     IN After(CopySuperclass(PushScope(declared, scope), Superclass(c, d)),
              LAMBDA copied :
        LET entered == AddFields(copied, fields, NextFieldIndex(copied))
            analyzed == AnalyzeCycleCapability(entered, type, scope)
            body == HandleTypeMembers([analyzed EXCEPT !.type = type], d.members)
        IN IF d.generic THEN TypeTemplate(c, "ClassType", d)
           ELSE EndType(Conform(body, type, scope, fields, protocols))))

\* Cases are numbered across the declarations of the body.
AddCases(c, type, members) ==
  LET cases == FlattenSeq([i \in DOMAIN members |->
                  IF members[i].kind = "EnumCaseDecl"
                  THEN members[i].elements ELSE <<>>])
      AddCase(d, i) ==
        LET case == AddInst(d, [kind |-> "EnumCase", node |-> cases[i].node,
                                type |-> Declared(type),
                                discriminant |-> i - 1])
        IN  AddNameToScope(case, cases[i].name, LastInst(case))
  IN  FoldLeftDomain(AddCase, c, cases)

HandleEnumDefinition(c, d) ==
  After(DeclareType(c, "EnumDecl", d), LAMBDA declared :
  LET type == LastInst(declared)
      scope == LastScope(declared)
      entered == AddCases(PushScope(declared, scope), type, d.members)
      body == HandleTypeMembers([entered EXCEPT !.type = type], d.members)
  IN IF d.generic THEN TypeTemplate(c, "EnumDecl", d)
     ELSE EndType(Conform(body, type, scope, <<>>, d.inherits)))

\* A protocol is a type without members: its body is not looked at.
HandleProtocolDefinition(c, d) == DeclareType(c, "StructType", d)

\* Members of an extension land in the extended type's scope, which is
\* pushed again with none of its names; an unknown type is skipped.
HandleExtensionDefinition(c, d) ==
  LET type == LookupName(c, d.name)
      opened == IF c.insts[type].kind = "BuiltinType"
                THEN GetOrCreateBuiltinTypeScope(c, type) ELSE c
      scope == TypeScope(opened, type)
      entered == PushScope([opened EXCEPT !.type = type], scope)
  IN  IF type = None THEN c
      ELSE IF c.insts[type].kind \notin TypeKinds \cup {"BuiltinType"}
      THEN c
      ELSE EndType(HandleTypeMembers(entered, d.members))

\* Aliases are of the whole program, and the first of a name stays.
HandleTypealiasDecl(c, d) ==
  LET type == HandleTypeExpr(c, d.type)
  IN  IF type = ErrorType THEN c
      ELSE [c EXCEPT !.typealias_map = @ @@ (d.name :> type)]

-----------------------------------------------------------------------------
\* Statements, as far as names go.

\* A member of the enclosing type found by its bare name is a member of
\* `self`: a field, a property, or a method of this very type.
ImplicitSelf(c, inst) ==
  LET found == c.insts[inst]
      IsOwnMethod ==
        LET fn == c.functions[found.function]
        IN  /\ ~fn.static
            /\ TypeScope(c, c.type) # None
            /\ fn.scope = TypeScope(c, c.type)
  IN  /\ c.type # None
      /\ LookupName(c, "self") # None
      /\ \/ found.kind \in {"StructField", "ComputedPropertyDecl"}
         \/ found.kind = "FunctionDecl" /\ IsOwnMethod

HandleIdentifierNameExpr(c, use) ==
  LET inst == LookupName(c, use.name)
  IN  IF inst = None
      THEN RecordUse(Diagnose(c, "UndefinedName", use.site), use.site,
                     NoNode, "error")
      ELSE RecordUse(c, use.site, c.insts[inst].node,
                     IF ImplicitSelf(c, inst) THEN "self" ELSE "name")

\* A member of a value of a named type, found in the scope the type left
\* behind; of a built-in type, extension methods only.  Access levels are
\* not looked at.
MemberNames(c, type) ==
  CASE type.kind = "Declared" -> c.scopes[c.insts[type.inst].scope].names
    [] type.kind = "Builtin" ->
         LET inst == c.scopes[1].names[type.name]
             names == c.scopes[TypeScope(c, inst)].names
         IN  IF TypeScope(c, inst) = None THEN NoNames
             ELSE Restrict(names, {n \in DOMAIN names :
                             c.insts[names[n]].kind = "FunctionDecl"})
    [] OTHER -> NoNames

HandleMemberAccessExpr(c, use) ==
  LET names == MemberNames(c, HandleTypeExpr(c, use.type))
  IN  IF use.name \in DOMAIN names
      THEN RecordUse(c, use.site, c.insts[names[use.name]].node, "member")
      ELSE RecordUse(Diagnose(c, "InvalidMemberAccess", use.site), use.site,
                     NoNode, "error")

\* A variable is entered behind its initializer.
HandleVariableDecl(c, v) ==
  LET valued == FoldLeft(HandleStatement, c, v.init)
      storage == AddInst(valued, [kind |-> "VarStorage", node |-> v.node,
                                  type |-> IF v.type = NoType THEN ErrorType
                                           ELSE HandleTypeExpr(c, v.type)])
  IN  AddNameToScope(storage, v.name, LastInst(storage))

HandleStatement(c, s) ==
  CASE s.kind = "Name" -> HandleIdentifierNameExpr(c, s)
    [] s.kind = "Member" -> HandleMemberAccessExpr(c, s)
    [] s.kind = "VariableDecl" -> HandleVariableDecl(c, s)
    [] s.kind = "FunctionDefinition" -> HandleFunctionDefinition(c, s, FALSE)
    [] s.kind = "FunctionDecl" -> HandleFunctionDecl(c, s)
    [] s.kind = "StructDefinition" -> HandleStructDefinition(c, s)
    [] s.kind = "ClassDefinition" -> HandleClassDefinition(c, s)
    [] s.kind = "EnumDefinition" -> HandleEnumDefinition(c, s)
    [] s.kind = "ProtocolDefinition" -> HandleProtocolDefinition(c, s)
    [] s.kind = "ExtensionDefinition" -> HandleExtensionDefinition(c, s)
    [] s.kind = "TypealiasDecl" -> HandleTypealiasDecl(c, s)

-----------------------------------------------------------------------------
\* The passes.

EnterBuiltins(c) ==
  FoldLeft(LAMBDA d, name :
             LET type == AddInst(d, [kind |-> "BuiltinType", name |-> name,
                                     node |-> name])
             IN  AddNameToScope(type, name, LastInst(type)),
           c, BuiltinNames)

\* One pass over a file: what was pending is dropped first, modifiers are
\* read again in every pass, and the pass takes the nodes it is for.
Pass(c, f, nodes, Takes(_), Handle(_, _)) ==
  LET Node(d, i) ==
        LET n == nodes[i]
            here == [d EXCEPT !.at = i]
        IN  IF n.kind \in ModifierKinds THEN HandleModifier(here, n)
            ELSE IF Takes(n) THEN Handle(here, n)
            ELSE here
  IN  FoldLeftDomain(Node, [PendingTaken(c) EXCEPT !.file = f], nodes)

IsType(n) ==
  n.kind \in {"StructDefinition", "ClassDefinition", "EnumDefinition",
              "ProtocolDefinition", "TypealiasDecl"}
IsFunction(n) == n.kind \in {"FunctionDecl", "FunctionDefinition"}
IsExtension(n) == n.kind = "ExtensionDefinition"
IsRest(n) == ~(IsType(n) \/ IsExtension(n) \/ n.kind = "FunctionDecl")

EnterTypes(c, f, nodes) == Pass(c, f, nodes, IsType, HandleStatement)

\* Mutant: functions are not entered before bodies are looked at.
EnterNoFunctions(c, f, nodes) == c

EnterFunctions(c, f, nodes) ==
  Pass(c, f, nodes, IsFunction, HandleFunctionDecl)

EnterExtensions(c, f, nodes) == Pass(c, f, nodes, IsExtension, HandleStatement)

HandleRest(c, f, nodes) == Pass(c, f, nodes, IsRest, HandleStatement)

\* The context of all files: the package scope with the built-in types.
PackageContext ==
  LET package == AddScope(NewContext, NoNode, None)
  IN  EnterBuiltins(PushScope(package, LastScope(package)))

\* The passes in their order, each over every file before the next.
CheckPass(c, pass, f, nodes) ==
  CASE pass = 1 -> EnterTypes(c, f, nodes)
    [] pass = 2 -> EnterFunctions(c, f, nodes)
    [] pass = 3 -> EnterExtensions(c, f, nodes)
    [] pass = 4 -> HandleRest(c, f, nodes)
=============================================================================
