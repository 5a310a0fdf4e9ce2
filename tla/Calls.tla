------------------------------- MODULE Calls --------------------------------
(***************************************************************************)
(* The checker's handlers of calls, members and closures                   *)
(* (src/toolchain/check/handle_expr.cpp): what a call calls is told by the *)
(* instruction its callee became, and each kind of callee binds arguments  *)
(* to parameters in its own way.                                           *)
(*                                                                         *)
(* An argument is [label, id], its value already evaluated; a label of ""  *)
(* is none.  The parameters of a function are those the caller writes; a   *)
(* method's receiver comes before them.                                    *)
(***************************************************************************)
EXTENDS Collections

-----------------------------------------------------------------------------
(* Members. *)

HasMember(type, member, kinds) ==
  member \in DOMAIN MembersOf(type) /\ MembersOf(type)[member].k \in kinds

\* x?.member: Optional<T> of a field of T; there is no chain to a method.
ChainReaches(c, base, member) ==
  LET type == GetInstType(c, base)
  IN /\ IsOptional(type) /\ IsNominal(Optionals[type])
     /\ FieldIndex(Optionals[type], member) # 0
OptionalChain(c, base, member) ==
  LET inner == Optionals[GetInstType(c, base)]
      index == FieldIndex(inner, member)
      field == Types[inner].fields[index].type
      type == OptionalOf(field)
      has == AddInst(c, With(Inst("TupleAccess", "Bool", <<base>>), <<1>>))
  IN Then(AddInst(has.c, With(Inst("TupleAccess", inner, <<base>>),
                              <<2>>)), LAMBDA payload :
     LET value == FieldAccess(payload.c, payload.id, field, index)
     IN Then(AddInst(value.c, Inst("OptionalSome", type, <<value.id>>)),
             LAMBDA some :
        LET none == AddInst(some.c, Inst("OptionalNone", "Error", <<>>))
        IN AddInst(none.c, Inst("choose", type, <<has.id, some.id, none.id>>))))

\* Type.member: a case of an enum, a static method or a nested type.
TypeNamed(c, base) ==
  LET e == Underlying(c, base)
  IN IF OpOf(c, e) \in {"StructType", "ClassType", "EnumDecl"}
     THEN c.insts[e].name ELSE ""
EnumMember(c, type, member) ==
  LET m == MembersOf(type)[member]
      case == Named(With(Inst("EnumCaseWithPayload", type, <<>>), <<m.tag>>),
                    member)
      decl == AddInst(c, case)
  IN CASE HasMember(type, member, {"case"}) ->
            AddInst(c, With(Inst("EnumInit", type, <<>>), <<m.tag>>))
       [] HasMember(type, member, {"payload"}) ->
            NameRef(decl.c, member, decl.id)
       [] OTHER -> EmitError(c)

BoundMethod(c, base, fn) ==
  AddInst(c, Named(Inst("BoundMethod", "Type", <<base>>), fn))

\* A member of a struct, class or enum value: a computed property calls its
\* getter, a method waits for the call, a field is read; the type of what is
\* none of these is not known, and field 1 is read.
ScopeMember(c, base, member) ==
  LET type == GetInstType(c, base)
      m == MembersOf(type)[member]
      index == IF IsNominal(type) THEN FieldIndex(type, member) ELSE 0
      unknown == FieldAccess([c EXCEPT !.error = @ \/ Kind(type) \in
                                {"struct", "class", "enum"}],
                             base, "Error", 1)
  IN CASE HasMember(type, member, {"computed"}) ->
            AddInst(c, Named(Inst("Call", Functions[m.fn].ret, <<base>>), m.fn))
       [] HasMember(type, member, {"static"}) -> RefToDecl(c, m.fn)
       [] HasMember(type, member, {"method"}) -> BoundMethod(c, base, m.fn)
       [] OTHER -> IF index # 0
                   THEN FieldAccess(c, base, Types[type].fields[index].type,
                                    index)
                   ELSE unknown

TupleMember(c, base, index) ==
  AddInst(c, With(Inst("TupleAccess",
                       Types[GetInstType(c, base)].fields[index].type, <<base>>),
                  <<index>>))

\* The order of the tests decides; they stand in the order of the handler.
MemberAccessExpr(c, base, member, chain) ==
  LET type == GetInstType(c, base)
  IN Then(TypeNamed(c, base), LAMBDA named :
     LET index == IF Kind(type) = "tuple" THEN FieldIndex(type, member) ELSE 0
     IN IF chain /\ ChainReaches(c, base, member)
        THEN OptionalChain(c, base, member)
        ELSE IF Kind(named) = "enum" THEN EnumMember(c, named, member)
        ELSE IF IsNominal(named) /\ HasMember(named, member, {"static", "type"})
        THEN RefToDecl(c, MembersOf(named)[member].fn)
        ELSE IF Kind(type) = "builtin" /\ HasMember(type, member, {"method"})
        THEN BoundMethod(c, base, MembersOf(type)[member].fn)
        ELSE IF HasStaticCount(c, base, member) THEN StaticCount(c, base)
        ELSE IF IsStringMember(c, base, member) THEN StringMember(c, base, member)
        ELSE IF IsPointerMember(c, base, member)
        THEN PointerMember(c, base, member)
        ELSE IF DictOf(c, base) # None /\ member \in DictMembers
        THEN DictMember(c, DictOf(c, base), member)
        ELSE IF SetOf(c, base) # None /\ member \in SetMembers
        THEN SetMember(c, SetOf(c, base), member)
        ELSE IF ListOf(c, base) # None /\ member \in ListMembers
        THEN ListMember(c, ListOf(c, base), member)
        ELSE IF type = "Error" THEN ErrorInst(c)
        ELSE IF index # 0 THEN TupleMember(c, base, index)
        ELSE ScopeMember(c, base, member))

-----------------------------------------------------------------------------
(* Calls of what the language provides. *)

ArgId(args, i) == IF i <= Len(args) THEN args[i].id ELSE None
ArgIds(args) == [i \in DOMAIN args |-> args[i].id]

PrintCall(c, args) ==
  AddInst(c, Inst("PrintValue", "Error", <<ArgId(args, 1)>>))

\* name -> <<instruction, type, how many arguments it takes>>
FileCalls ==
  [n \in {"readLine", "getCurrentDirectory", "readFile", "fileExists",
          "removeFile", "writeFile", "appendFile"} |->
     CASE n = "readLine" -> <<"ReadLine", "String", 0>>
       [] n = "getCurrentDirectory" -> <<"FileGetCwd", "String", 0>>
       [] n = "readFile" -> <<"FileReadAll", "String", 1>>
       [] n = "fileExists" -> <<"FileExists", "Bool", 1>>
       [] n = "removeFile" -> <<"FileRemove", "Bool", 1>>
       [] n = "writeFile" -> <<"FileWriteAll", "Bool", 2>>
       [] n = "appendFile" -> <<"FileAppendAll", "Bool", 2>>]
OsCalls ==
  [n \in {"getArgs", "exit", "getEnv", "setEnv", "createDirectory",
          "listDirectory", "isDirectory", "copyFile"} |->
     CASE n = "getArgs" -> <<"ProcessGetArgs", "Int", 0>>
       [] n = "exit" -> <<"ProcessExit", "Int", 1>>
       [] n = "getEnv" -> <<"EnvGet", "String", 1>>
       [] n = "setEnv" -> <<"EnvSet", "Bool", 2>>
       [] n = "createDirectory" -> <<"FsMkdir", "Bool", 1>>
       [] n = "listDirectory" -> <<"FsListDir", "Int", 1>>
       [] n = "isDirectory" -> <<"FsIsDir", "Bool", 1>>
       [] n = "copyFile" -> <<"FsCopy", "Bool", 2>>]
NetCalls ==
  [n \in {"tcpConnect", "tcpListen", "tcpAccept", "tcpRead", "tcpWrite",
          "tcpClose"} |->
     CASE n = "tcpConnect" -> <<"TcpConnect", "Int", 2>>
       [] n = "tcpListen" -> <<"TcpListen", "Int", 1>>
       [] n = "tcpAccept" -> <<"TcpAccept", "Int", 1>>
       [] n = "tcpRead" -> <<"TcpRead", "String", 2>>
       [] n = "tcpWrite" -> <<"TcpWrite", "Int", 2>>
       [] n = "tcpClose" -> <<"TcpClose", "Bool", 1>>]

\* Too few arguments: no value, and nothing is said.
SystemCall(c, call, args) ==
  IF Len(args) < call[3] THEN Result(c, None)
  ELSE AddInst(c, Inst(call[1], call[2],
                       [i \in 1..call[3] |-> args[i].id]))

SetConstructor(c, elem) == AddInst(c, Inst("SetCreate", elem, <<>>))

\* Int(x) of a Double, Double(x) of an Int, and no other conversion.
Coercion(c, target, args) ==
  LET type == GetInstType(c, ArgId(args, 1))
  IN CASE target = "Int" /\ IsFloatType(type) ->
            AddInst(c, Inst("FloatToInt", "Int", <<ArgId(args, 1)>>))
       [] target = "Double" /\ type = "Int" ->
            AddInst(c, Inst("IntToFloat", "Double", <<ArgId(args, 1)>>))
       [] OTHER -> EmitError(c)

-----------------------------------------------------------------------------
(* Binding of arguments. *)

Holes(params) == <<>> \o [i \in 1..Len(params) |-> None]
Filled(ids) == SelectSeq(ids, LAMBDA id : id # None)
ParamIndex(params, label) ==
  LET at == {i \in DOMAIN params : params[i].name = label}
  IN IF at = {} THEN 0 ELSE CHOOSE i \in at : \A j \in at : i <= j
FirstHole(ids) ==
  Then({i \in DOMAIN ids : ids[i] = None}, LAMBDA holes :
  IF holes = {} THEN 0 ELSE CHOOSE i \in holes : \A j \in holes : i <= j)

\* Labelled arguments first, by name; a parameter that has one keeps it.
PlaceLabelled(params, args, ids) ==
  LET Place(s, a) == Then(ParamIndex(params, a.label), LAMBDA i :
                     IF a.label = "" \/ i = 0 \/ s[i] # None THEN s
                     ELSE [s EXCEPT ![i] = a.id])
  IN FoldLeft(Place, ids, args)
\* Then the others, each in the first parameter that has none.
PlacePositional(params, args, ids) ==
  LET Place(s, a) == IF a.label # "" \/ FirstHole(s) = 0 THEN s
                     ELSE [s EXCEPT ![FirstHole(s)] = a.id]
  IN FoldLeft(Place, ids, args)

\* Mutant: positional arguments first, so that a label comes too late.
PositionalFirst(params, args) ==
  PlaceLabelled(params, args,
                PlacePositional(params, args, Holes(params)))

MatchArguments(params, args) ==
  PlacePositional(params, args,
                  PlaceLabelled(params, args, Holes(params)))

UnknownLabel(params, args) ==
  \E i \in DOMAIN args : /\ args[i].label # ""
                         /\ ParamIndex(params, args[i].label) = 0

Call(c, fn, ids) ==
  AddInst(c, Named(Inst("Call", Functions[fn].ret, Filled(ids)), fn))

\* The defaults are literals; they are evaluated where the call is.
FillDefaults(c, params, ids) ==
  LET Fill(r, i) ==
        IF r.ids[i] # None \/ params[i].default = <<>> THEN r
        ELSE Then(IntLiteral(r.c, params[i].default[1]), LAMBDA x :
             [c |-> x.c, ids |-> [r.ids EXCEPT ![i] = x.id]])
  IN FoldLeft(Fill, [c |-> c, ids |-> ids], [i \in 1..Len(params) |-> i])

\* Defaults fill the holes only when there are fewer arguments than
\* parameters.
CallFunction(c, fn, args) ==
  LET params == Functions[fn].params
  IN Then(IF params = <<>> THEN ArgIds(args)
          ELSE MatchArguments(params, args), LAMBDA matched :
     Then(IF Len(args) < Len(params)
          THEN FillDefaults(c, params, matched)
          ELSE [c |-> c, ids |-> matched], LAMBDA filled :
     LET wrong == \/ params # <<>> /\ UnknownLabel(params, args)
                  \/ Len(args) > Len(params)
                  \/ Len(args) < Len(params) /\ FirstHole(filled.ids) # 0
     IN Call([filled.c EXCEPT !.error = @ \/ wrong], fn, filled.ids)))

\* A template is specialised; nothing is said of labels or of their number.
CallGeneric(c, fn, args) ==
  LET params == Functions[fn].params
  IN IF args = <<>> THEN EmitError(c)
     ELSE Call(c, fn, MatchArguments(params, args))

\* A method takes no default.  A mutating one gets the receiver's address
\* when the receiver is a stored variable.
CallMethod(c, bound, args) ==
  LET fn == c.insts[bound].name
      base == c.insts[bound].args[1]
      params == Functions[fn].params
      var == Underlying(c, base)
      byAddress == Functions[fn].mutating /\ OpOf(c, var) = "VarStorage"
  IN Then(IF byAddress THEN AddInst(c, Inst("AddressOf", "Error", <<var>>))
          ELSE Result(c, base), LAMBDA self :
     LET wrong == params # <<>> /\ (Len(args) # Len(params)
                                    \/ UnknownLabel(params, args))
     IN Call([self.c EXCEPT !.error = @ \/ wrong], fn,
             <<self.id>> \o MatchArguments(params, args)))

\* An initializer takes what has its label and nothing else.
CallInit(c, type, fn, args) ==
  LET params == Functions[fn].params
      Bound(i) == LET at == {j \in DOMAIN args : args[j].label = params[i].name}
                  IN IF at = {} THEN None
                     ELSE args[CHOOSE j \in at : \A k \in at : j <= k].id
      ids == IF params = <<>> THEN ArgIds(args)
             ELSE [i \in DOMAIN params |-> Bound(i)]
  IN AddInst(c, Named(Inst("Call", type, Filled(ids)), fn))

\* Field by field, in the order of the arguments; a label given twice
\* overwrites.
Memberwise(type, args) ==
  LET fields == Types[type].fields
      Place(s, a) == LET i == IF a.label = "" THEN FirstHole(s)
                              ELSE FieldIndex(type, a.label)
                     IN IF i = 0 THEN s ELSE [s EXCEPT ![i] = a.id]
  IN FoldLeft(Place, Holes(fields), args)

\* A struct says what is missing or unknown, a class does not.
CallType(c, type, args) ==
  Then(Memberwise(type, args), LAMBDA ids :
  LET wrong == \/ FirstHole(ids) # 0
               \/ \E i \in DOMAIN args : /\ args[i].label # ""
                                         /\ FieldIndex(type, args[i].label) = 0
                                         /\ args[i].label \notin
                                              DOMAIN MembersOf(type)
  IN IF "init" \in DOMAIN MembersOf(type)
     THEN CallInit(c, type, MembersOf(type)["init"].fn, args)
     ELSE IF Kind(type) = "struct"
     THEN AddInst([c EXCEPT !.error = @ \/ wrong],
                  Inst("StructInit", type, ids))
     ELSE AddInst(c, Inst("AllocClass", type, ids)))

\* An enum case with a payload: the tag and the first argument.
CallCase(c, case, args) ==
  Then(IntConstant(c, c.insts[case].data[1]), LAMBDA tag :
  AddInst(tag.c, Inst("TupleInit", GetInstType(c, case),
                      Filled(<<tag.id, ArgId(args, 1)>>))))

-----------------------------------------------------------------------------
(* Methods of builtin types. *)

\* What one argument does to the collection, and its type.
MethodOps ==
  [r \in {"StringMethodRef", "DictMethodRef", "SetMethodRef"} |->
     CASE r = "StringMethodRef" ->
            [m \in {"hasPrefix", "hasSuffix", "contains"} |->
               CASE m = "hasPrefix" -> <<"StringHasPrefix", "Bool">>
                 [] m = "hasSuffix" -> <<"StringHasSuffix", "Bool">>
                 [] m = "contains" -> <<"StringContains", "Bool">>]
       [] r = "DictMethodRef" ->
            [m \in {"contains", "removeValue"} |->
               CASE m = "contains" -> <<"DictContains", "Bool">>
                 [] m = "removeValue" -> <<"DictRemove", "Error">>]
       [] r = "SetMethodRef" ->
            [m \in {"insert", "contains", "remove"} |->
               CASE m = "insert" -> <<"SetInsert", "Error">>
                 [] m = "contains" -> <<"SetContains", "Bool">>
                 [] m = "remove" -> <<"SetRemove", "Error">>]]

CallBuiltinMethod(c, ref, args) ==
  LET r == c.insts[ref]
      op == MethodOps[r.op][r.name]
  IN AddInst(c, Inst(op[1], op[2], <<r.args[1], ArgId(args, 1)>>))

Append1(c, ref, args) ==
  IF args = <<>> THEN EmitError(c)
  ELSE AddInst(c, Inst("DynamicArrayAppend", "Error",
                       <<c.insts[ref].args[1], args[1].id>>))

CallPointerMethod(c, ref, args) ==
  LET r == c.insts[ref]
  IN Then(IF args = <<>> THEN IntConstant(c, 1) ELSE Result(c, args[1].id),
          LAMBDA room :
     IF r.name = "deallocate"
     THEN AddInst(c, Inst("UnsafePtrDeallocate", "Error", <<r.args[1]>>))
     ELSE AddInst(room.c, Inst("UnsafePtrAllocate", GetInstType(c, r.args[1]),
                               <<room.id>>)))

-----------------------------------------------------------------------------
(* Closures and the choice. *)

\* The names of a body that are variables outside of it and not parameters,
\* in the order they are met.
Captures(c, params, names) ==
  LET Seen(s, n) ==
        IF /\ n \in DOMAIN c.scope
           /\ OpOf(c, c.scope[n]) \in {"VarStorage", "ValueBinding"}
           /\ \A i \in DOMAIN params : params[i] # n
           /\ \A i \in DOMAIN s : s[i] # n
        THEN Append(s, n) ELSE s
  IN FoldLeft(Seen, <<>>, names)

\* The value a captured variable has now is what the closure keeps.  The
\* body is the sum of the names it mentions.
ClosureExpr(c, params, names) ==
  LET captured == Captures(c, params, names)
      Ref(r, n) == LET x == AddInst(r.c, Inst("CaptureRef",
                                              GetInstType(r.c, c.scope[n]),
                                              <<c.scope[n]>>))
                   IN [c |-> x.c, ids |-> Append(r.ids, x.id)]
  IN Then(FoldLeft(Ref, [c |-> c, ids |-> <<>>], captured), LAMBDA refs :
     Then(captured \o params, LAMBDA all :
     LET index == [i \in DOMAIN names |->
                     IF \E j \in DOMAIN all : all[j] = names[i]
                     THEN CHOOSE j \in DOMAIN all : all[j] = names[i] ELSE 0]
         unknown == \E i \in DOMAIN index : index[i] = 0
     IN AddInst([refs.c EXCEPT !.error = @ \/ unknown],
                With(Inst("ClosureExpr", "Closure", refs.ids), index))))

\* What a callee is, once names and let bindings are looked through.
CalleeOf(c, callee) == BoundTo(c, Underlying(c, callee))

CallValue(c, callee, type, args) ==
  AddInst(c, Inst("Apply", type, <<callee>> \o Filled(ArgIds(args))))

CallExpr(c, callee, args) ==
  Then(CalleeOf(c, callee), LAMBDA target :
  Then(OpOf(c, target), LAMBDA op :
  LET name == IF target = None THEN "" ELSE c.insts[target].name
      lost == GetInstType(c, callee) # "Error"
      waits == op \in DOMAIN MethodOps
  IN CASE op = "EnumCaseWithPayload" -> CallCase(c, target, args)
       [] waits /\ (args # <<>> \/ op = "StringMethodRef") ->
            CallBuiltinMethod(c, target, args)
       [] op = "DynamicArrayMethodRef" -> Append1(c, target, args)
       [] op = "UnsafePtrMethodRef" -> CallPointerMethod(c, target, args)
       [] op = "BoundMethod" -> CallMethod(c, target, args)
       [] op = "FunctionDecl" -> IF Functions[name].generic
                                 THEN CallGeneric(c, name, args)
                                 ELSE CallFunction(c, name, args)
       [] op \in {"StructType", "ClassType"} -> CallType(c, name, args)
       [] op \in {"ClosureExpr", "ValueParam"} ->
            CallValue(c, callee, "Int", args)
       [] OTHER -> CallValue([c EXCEPT !.error = @ \/ (target # None /\ lost)],
                             callee, "Error", args)))

\* Names the checker knows without looking them up.
Intercepted == {"print", "Set", "Int", "Double", "blockOn"}
                 \cup DOMAIN FileCalls \cup DOMAIN OsCalls \cup DOMAIN NetCalls
InterceptedCall(c, name, elem, args) ==
  CASE name = "print" -> PrintCall(c, args)
    [] name = "Set" -> SetConstructor(c, elem)
    [] name = "blockOn" -> Result(c, ArgId(args, 1))
    [] name \in {"Int", "Double"} ->
         IF Len(args) = 1 THEN Coercion(c, name, args)
         ELSE CallExpr(c, None, args)
    [] name \in DOMAIN FileCalls -> SystemCall(c, FileCalls[name], args)
    [] name \in DOMAIN OsCalls -> SystemCall(c, OsCalls[name], args)
    [] name \in DOMAIN NetCalls -> SystemCall(c, NetCalls[name], args)
=============================================================================
