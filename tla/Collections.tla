---------------------------- MODULE Collections -----------------------------
(***************************************************************************)
(* The checker's handlers of arrays, dictionaries, sets, strings and       *)
(* pointers, of let and var, and of assignments                            *)
(* (src/toolchain/check/handle_expr.cpp, handle_decl.cpp, handle_type.cpp).*)
(*                                                                         *)
(* A variable declared with a collection is entered in a table with the    *)
(* instruction that made the collection, and its members are compiled to   *)
(* operations on that instruction's value: the declaration decides, and an *)
(* assignment to the variable later does not.                              *)
(***************************************************************************)
EXTENDS Operators

CONSTANT DictTypes  \* annotation of a dictionary -> <<key type, value type>>

\* What a name refers to, and what a let was bound to.
Underlying(c, id) ==
  IF OpOf(c, id) = "NameRef" THEN c.insts[id].args[1] ELSE id
BoundTo(c, id) ==
  IF OpOf(c, id) = "ValueBinding" THEN c.insts[id].args[1] ELSE id

Lookup(table, id) == IF id \in DOMAIN table THEN table[id] ELSE None

\* The array literal, dynamic array, dictionary or set a value stands for.
ArrayOf(c, id) ==
  Then(Underlying(c, id), LAMBDA e :
  CASE OpOf(c, e) = "VarStorage" -> Lookup(c.arrays, e)
    [] OpOf(c, e) = "ValueBinding" -> BoundTo(c, e)
    [] OTHER -> None)
CollectionOf(c, id, table, makers) ==
  Then(Underlying(c, id), LAMBDA e :
  CASE OpOf(c, e) = "VarStorage" -> Lookup(table, e)
    [] OpOf(c, e) \in makers -> e
    [] OTHER -> None)
ListOf(c, id) == CollectionOf(c, id, c.lists, {"DynamicArrayInit"})
DictOf(c, id) == CollectionOf(c, id, c.dicts, {"DictCreate", "DictInit"})
SetOf(c, id) == CollectionOf(c, id, c.sets, {"SetCreate"})

ArrayExpr(c, ids) ==
  LET types == {GetInstType(c, ids[i]) : i \in {j \in DOMAIN ids :
                                                  ids[j] # None}}
      c1 == IF Cardinality(types) > 1 THEN [c EXCEPT !.error = TRUE] ELSE c
  IN IF ids = <<>> THEN AddInst(c, Inst("DynamicArrayInit", "Int", <<>>))
     ELSE AddInst(c1, Inst("ArrayLiteralInit", GetInstType(c, ids[1]), ids))

OrElse(type, default) == IF type = "Error" THEN default ELSE type

\* [:] is a dictionary of Int until a declaration says otherwise; the types
\* of a literal are those of its first pair.
DictionaryExpr(c, keys, values) ==
  LET kt == OrElse(GetInstType(c, keys[1]), "String")
      vt == OrElse(GetInstType(c, values[1]), "Int")
      entries == [i \in 1..2 * Len(keys) |->
                    IF i % 2 = 1 THEN keys[(i + 1) \div 2] ELSE values[i \div 2]]
  IN Then(AddInst(c, Inst("DictInit", kt, entries)), LAMBDA dict :
     IF keys = <<>> THEN AddInst(c, Inst("DictCreate", "Int", <<>>))
     ELSE Result([dict.c EXCEPT !.dictTypes = Put(@, dict.id, <<kt, vt>>)],
                 dict.id))

-----------------------------------------------------------------------------
(* Members of builtin types. *)

IntConstant(c, n) == AddInst(c, With(Inst("IntValue", "Int", <<>>), <<n>>))

\* x.isEmpty: the count is 0.
IsEmpty(c, op, id) ==
  Then(AddInst(c, Inst(op, "Int", <<id>>)), LAMBDA count :
  Then(IntConstant(count.c, 0), LAMBDA zero :
  AddInst(zero.c, Inst("IntEq", "Bool", <<count.id, zero.id>>))))

\* A method that takes an argument waits for the call.
MethodRef(c, op, id, member) ==
  AddInst(c, Named(Inst(op, "Error", <<id>>), member))

\* The array is the one of the declaration: its length is a constant.
HasStaticCount(c, base, member) ==
  member = "count" /\ OpOf(c, ArrayOf(c, base)) = "ArrayLiteralInit"
StaticCount(c, base) ==
  IntConstant(c, Len(c.insts[ArrayOf(c, base)].args))

StringMembers == {"count", "isEmpty", "uppercased", "lowercased", "trimmed",
                  "hasPrefix", "hasSuffix", "contains"}
IsStringMember(c, base, member) ==
  LET e == Underlying(c, base)
  IN /\ GetInstType(c, base) = "String" /\ member \in StringMembers
     /\ ~(OpOf(c, e) = "VarStorage"
          /\ e \in DOMAIN c.lists \cup DOMAIN c.dicts \cup DOMAIN c.sets)
StringMember(c, base, member) ==
  CASE member = "count" -> AddInst(c, Inst("StringLen", "Int", <<base>>))
    [] member = "isEmpty" -> IsEmpty(c, "StringLen", base)
    [] member = "uppercased" ->
         AddInst(c, Inst("StringUppercased", "String", <<base>>))
    [] member = "lowercased" ->
         AddInst(c, Inst("StringLowercased", "String", <<base>>))
    [] member = "trimmed" ->
         AddInst(c, Inst("StringTrimmed", "String", <<base>>))
    [] OTHER -> MethodRef(c, "StringMethodRef", base, member)

IsPointerMember(c, base, member) ==
  /\ Kind(GetInstType(c, base)) = "pointer"
  /\ member \in {"deallocate", "allocate"}
PointerMember(c, base, member) ==
  MethodRef(c, "UnsafePtrMethodRef", base, member)

DictMembers == {"count", "isEmpty", "contains", "removeValue"}
DictMember(c, dict, member) ==
  CASE member = "count" -> AddInst(c, Inst("DictCount", "Int", <<dict>>))
    [] member = "isEmpty" -> IsEmpty(c, "DictCount", dict)
    [] OTHER -> MethodRef(c, "DictMethodRef", dict, member)

SetMembers == {"count", "isEmpty", "insert", "contains", "remove"}
SetMember(c, set, member) ==
  CASE member = "count" -> AddInst(c, Inst("SetCount", "Int", <<set>>))
    [] member = "isEmpty" -> IsEmpty(c, "SetCount", set)
    [] OTHER -> MethodRef(c, "SetMethodRef", set, member)

ListMembers == {"count", "isEmpty", "append"}
ListMember(c, list, member) ==
  CASE member = "count" ->
         AddInst(c, Inst("DynamicArrayCount", "Int", <<list>>))
    [] member = "isEmpty" -> IsEmpty(c, "DynamicArrayCount", list)
    [] OTHER -> MethodRef(c, "DynamicArrayMethodRef", list, member)

-----------------------------------------------------------------------------
(* Subscripts. *)

\* The dictionary of a subscript is also found through a let.
SubscriptDict(c, base) ==
  Then(BoundTo(c, Underlying(c, base)), LAMBDA e :
  IF OpOf(c, e) \in {"DictInit", "DictCreate"} THEN e
  ELSE IF OpOf(c, e) = "VarStorage" THEN Lookup(c.dicts, e) ELSE None)

DictGet(c, dict, key) ==
  LET vt == IF dict \in DOMAIN c.dictTypes THEN c.dictTypes[dict][2] ELSE "Int"
  IN AddInst(c, Inst("DictGet", OptionalOf(vt), <<dict, key>>))

\* The array the subscript reads or writes, and the type of its elements.
SubscriptArray(c, base) ==
  IF ArrayOf(c, base) = None THEN base ELSE ArrayOf(c, base)
ElementType(c, array, default) ==
  IF OpOf(c, array) = "ArrayLiteralInit" THEN GetInstType(c, array)
  ELSE default

\* Mutant: a subscript does not look for a dynamic array.
NoList(c, base) == None

ListOfVar(c, base) ==
  IF OpOf(c, Underlying(c, base)) = "VarStorage"
  THEN Lookup(c.lists, Underlying(c, base)) ELSE None

SubscriptExpr(c, base, index) ==
  LET type == GetInstType(c, base)
  IN Then(ListOfVar(c, base), LAMBDA list :
     LET dict == SubscriptDict(c, base)
     IN Then(SubscriptArray(c, base), LAMBDA array :
        LET fn == OverloadOf(type, "subscript")
        IN CASE Kind(type) = "pointer" ->
                  AddInst(c, Inst("UnsafePtrSubscript", "Int", <<base, index>>))
             [] Kind(type) # "pointer" /\ list # None ->
                  AddInst(c, Inst("DynamicArrayAccess", GetInstType(c, list),
                                  <<list, index>>))
             [] Kind(type) # "pointer" /\ list = None /\ dict # None ->
                  DictGet(c, dict, index)
             [] OTHER ->
                  IF fn # ""
                  THEN AddInst(c, Named(Inst("Call", Functions[fn].ret,
                                             <<base, index>>), fn))
                  ELSE AddInst(c, Inst("ArrayAccess",
                                       ElementType(c, array, "Error"),
                                       <<array, index>>))))

-----------------------------------------------------------------------------
(* Assignment.  The target is found first, then the value is evaluated;    *)
(* what is done with both depends on the target.                           *)

Target(c, how, id, key, name) ==
  [c |-> c, how |-> how, id |-> id, key |-> key, name |-> name]

\* name.member = ...: only a stored variable's field has an address; other
\* bases are read, and there is nowhere to store.
HasFieldTarget(c, name, member) ==
  /\ name \in DOMAIN c.scope
  /\ OpOf(c, c.scope[name]) \in {"VarStorage", "InoutParam"}
  /\ LET type == GetInstType(c, c.scope[name])
     IN /\ IsNominal(type)
        /\ \/ FieldIndex(type, member) # 0
           \/ member \in DOMAIN MembersOf(type)
              /\ MembersOf(type)[member].k = "computed"
              /\ member \o ".set" \in DOMAIN MembersOf(type)
FieldTarget(c, name, member) ==
  LET var == c.scope[name]
      type == GetInstType(c, var)
      index == FieldIndex(type, member)
      field == AddInst(c, With(Inst("FieldAddr", Types[type].fields[index].type,
                                    <<var>>), <<index>>))
      self == AddInst(c, Inst("AddressOf", "Error", <<var>>))
  IN IF index # 0 THEN Target(field.c, "store", field.id, None, "")
     ELSE Target(self.c, "setter", self.id, None,
                 MembersOf(type)[member \o ".set"].fn)

\* base[key] = ...: an element of the array the variable was declared with;
\* a dynamic array is taken for the array itself.
SubscriptTarget(c, base, key) ==
  LET pointer == Kind(GetInstType(c, base)) = "pointer"
      dict == IF OpOf(c, Underlying(c, base)) = "VarStorage"
              THEN Lookup(c.dicts, Underlying(c, base)) ELSE None
      array == SubscriptArray(c, base)
      at == AddInst(c, IF pointer
                       THEN Inst("UnsafePtrSubscriptAddr", "Int", <<base, key>>)
                       ELSE Inst("ArrayElementAddr",
                                 ElementType(c, array, "Int"), <<array, key>>))
  IN IF ~pointer /\ dict # None THEN Target(c, "dict", dict, key, "")
     ELSE Target(at.c, "store", at.id, None, "")

ValueTarget(r) == Target(r.c, "store", r.id, None, "")

AssignTo(c, target, value) ==
  CASE target.how = "store" ->
         AddInst(c, Inst("Assign", "none", <<target.id, value>>))
    [] target.how = "setter" ->
         AddInst(c, Named(Inst("Call", Functions[target.name].ret,
                               <<target.id, value>>), target.name))
    [] target.how = "dict" ->
         AddInst(c, Inst("DictSet", "Error", <<target.id, target.key, value>>))

-----------------------------------------------------------------------------
(* let and var. *)

Annotate(c, type) ==
  IF type \in DOMAIN DictTypes
  THEN [c EXCEPT !.pendingDict = DictTypes[type]] ELSE c

\* T where T? is declared is wrapped.
Coerce(c, type, init) ==
  IF /\ IsOptional(type) /\ init # None
     /\ OpOf(c, init) \notin {"OptionalNone", "OptionalSome"}
     /\ ~IsOptional(GetInstType(c, init))
  THEN AddInst(c, Inst("OptionalSome", type, <<init>>)) ELSE Result(c, init)

\* Another reference to an object is counted; a new object's is not.
RetainCopy(c, type, init) ==
  IF Kind(type) = "class" /\ init # None
     /\ OpOf(c, init) \notin {"AllocClass", "Call"}
  THEN AddInst(c, Inst("Retain", "Error", <<init>>)).c ELSE c

AddNameToScope(c, name, id) == [c EXCEPT !.scope = Put(@, name, id)]

DeclaredType(c, annotation, init) ==
  IF annotation # "" THEN annotation ELSE GetInstType(c, init)

LetDecl(c, name, annotation, init) ==
  LET type == DeclaredType(c, annotation, init)
      value == Coerce(c, type, init)
      binding == AddInst(RetainCopy(value.c, type, value.id),
                         Named(Inst("ValueBinding", type, <<value.id>>), name))
  IN AddNameToScope(binding.c, name, binding.id)

Retyped(c, id, type) == [c EXCEPT !.insts[id].type = type]

\* Mutant: the types of an annotation are not taken by the variable.
TrackNoTypes(c, var, init, type) ==
  CASE OpOf(c, init) = "ArrayLiteralInit" ->
         [c EXCEPT !.arrays = Put(@, var, init)]
    [] OpOf(c, init) = "DynamicArrayInit" ->
         [c EXCEPT !.lists = Put(@, var, init)]
    [] OpOf(c, init) \in {"DictCreate", "DictInit"} ->
         [c EXCEPT !.dicts = Put(@, var, init)]
    [] OpOf(c, init) = "SetCreate" -> [c EXCEPT !.sets = Put(@, var, init)]
    [] OTHER -> c

\* The tables; what an annotation left of the types of a dictionary is taken
\* by the next variable that is declared with one.
TrackVar(c, var, init, type) ==
  LET pending == c.pendingDict
      typed == [c EXCEPT !.dictTypes = Put(@, init, pending),
                         !.pendingDict = <<>>]
      taken == IF pending = <<>> THEN c
               ELSE IF OpOf(c, init) = "DictCreate"
               THEN Retyped(typed, init, pending[1]) ELSE typed
  IN CASE OpOf(c, init) = "ArrayLiteralInit" ->
            [c EXCEPT !.arrays = Put(@, var, init)]
       [] OpOf(c, init) = "DynamicArrayInit" ->
            [Retyped(c, init, type) EXCEPT !.lists = Put(@, var, init)]
       [] OpOf(c, init) \in {"DictCreate", "DictInit"} ->
            [taken EXCEPT !.dicts = Put(@, var, init)]
       [] OpOf(c, init) = "SetCreate" -> [c EXCEPT !.sets = Put(@, var, init)]
       [] OTHER -> c

VariableDecl(c, name, annotation, init) ==
  LET type == DeclaredType(c, annotation, init)
      value == Coerce(c, type, init)
      var == AddInst(value.c, Named(Inst("VarStorage", type, <<>>), name))
      stored == AddInst(RetainCopy(var.c, type, value.id),
                        Inst("Assign", "none", <<var.id, value.id>>)).c
      tracked == IF value.id = None THEN var.c
                 ELSE TrackVar(stored, var.id, value.id, type)
  IN AddNameToScope(tracked, name, var.id)

\* let (a, b) = ... and var (a, b) = ...: element by element.
TupleElement(c, tuple, i) ==
  LET type == GetInstType(c, tuple)
      known == Kind(type) = "tuple" /\ i <= Len(Types[type].fields)
  IN AddInst(c, With(Inst("TupleAccess",
                          IF known THEN Types[type].fields[i].type
                          ELSE "Error", <<tuple>>), <<i>>))

LetTuple(c, names, tuple) ==
  LET Bind(cc, i) ==
        LET x == TupleElement(cc, tuple, i)
            b == AddInst(x.c, Named(Inst("ValueBinding",
                                         GetInstType(x.c, x.id), <<x.id>>),
                                    names[i]))
        IN AddNameToScope(b.c, names[i], b.id)
  IN FoldLeft(Bind, c, [i \in 1..Len(names) |-> i])

VarTuple(c, names, tuple) ==
  LET Store(cc, i) ==
        LET x == TupleElement(cc, tuple, i)
            v == AddInst(x.c, Named(Inst("VarStorage", GetInstType(x.c, x.id),
                                         <<>>), names[i]))
            s == AddInst(v.c, Inst("Assign", "none", <<v.id, x.id>>))
        IN AddNameToScope(s.c, names[i], v.id)
  IN FoldLeft(Store, c, [i \in 1..Len(names) |-> i])
=============================================================================
