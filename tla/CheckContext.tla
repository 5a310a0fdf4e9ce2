---------------------------- MODULE CheckContext ----------------------------
(***************************************************************************)
(* The state of the checker that declarations are entered in               *)
(* (src/toolchain/check/context.cpp, context.h): the stack of scopes names *)
(* are looked up in, the scopes that stay behind for member access, access *)
(* levels, and what a modifier leaves pending for the next declaration.    *)
(*                                                                          *)
(* Instructions, scopes and functions are numbered from one; zero is None. *)
(* The `node` of an instruction is the piece of source it was made for;    *)
(* `file` and `at` are the file and the root of it being looked at.        *)
(* A type is a record of its shape: two optionals of one type are one      *)
(* value here, where the checker makes an instruction for each.            *)
(***************************************************************************)
EXTENDS Naturals, Sequences, SequencesExt, Stepwise

None == 0
NoNode == "<none>"
NoNames == <<>>

ErrorType == [kind |-> "Error"]
NoType == [kind |-> "None"]
Builtin(name) == [kind |-> "Builtin", name |-> name]
Declared(inst) == [kind |-> "Declared", inst |-> inst]

BuiltinNames ==
  <<"String", "Float", "Double", "Bool", "Int", "UInt", "Int8", "Int16",
    "Int32", "Int64", "UInt8", "UInt16", "UInt32", "UInt64">>

NewContext ==
  [stack |-> <<>>, scopes |-> <<>>, insts |-> <<>>, functions |-> <<>>,
   access_level_map |-> NoNames, file |-> 0, at |-> 0,
   access |-> NoNode, attribute |-> NoNode, comptime |-> FALSE,
   type |-> None, function |-> None, nested_counter |-> 0,
   typealias_map |-> NoNames, generic_type_templates |-> NoNames,
   builtin_type_scopes |-> NoNames, cycle_capable |-> {},
   conformances |-> NoNames, uses |-> <<>>, diagnostics |-> <<>>]

-----------------------------------------------------------------------------
AddInst(c, inst) == [c EXCEPT !.insts = Append(@, inst)]
LastInst(c) == Len(c.insts)

AddScope(c, name, parent) ==
  [c EXCEPT !.scopes = Append(@, [name |-> name, parent |-> parent,
                                  names |-> NoNames])]
LastScope(c) == Len(c.scopes)

PushScope(c, scope) ==
  [c EXCEPT !.stack = Append(@, [scope |-> scope, names |-> NoNames])]
PopScope(c) == [c EXCEPT !.stack = Front(@)]
CurrentScope(c) == Last(c.stack).scope

AddNameToScope(c, name, inst) ==
  [c EXCEPT !.stack[Len(c.stack)].names = (name :> inst) @@ @,
            !.scopes[CurrentScope(c)].names = (name :> inst) @@ @]

SetAccessLevel(c, inst, level, scope) ==
  [c EXCEPT !.access_level_map =
     (inst :> [level |-> level, scope |-> scope, file |-> c.file]) @@ @]

\* Mutant: the level of a name is not looked at.
IsAccessibleToAll(c, inst) == TRUE

\* Private names are seen while their scope is on the stack, fileprivate
\* names in their file.
IsAccessible(c, inst) ==
  inst \in DOMAIN c.access_level_map =>
    LET access == c.access_level_map[inst]
    IN  CASE access.level = "private" ->
               \E k \in DOMAIN c.stack : c.stack[k].scope = access.scope
          [] access.level = "fileprivate" -> access.file = c.file
          [] OTHER -> TRUE

LookupName(c, name) ==
  LET Holds(k) == /\ name \in DOMAIN c.stack[k].names
                  /\ IsAccessible(c, c.stack[k].names[name])
  IN Then({k \in DOMAIN c.stack : Holds(k)}, LAMBDA found :
     IF found = {} THEN None ELSE c.stack[Max(found)].names[name])

-----------------------------------------------------------------------------
\* What a modifier leaves for the next declaration.

TakePendingAccessLevel(c) ==
  IF c.access = NoNode THEN "internal" ELSE c.access
\* Mutant: an attribute and a level stay pending.
PendingKept(c) == c

PendingTaken(c) == [c EXCEPT !.access = NoNode, !.attribute = NoNode]

SetPendingAccessLevel(c, text) ==
  [c EXCEPT !.access =
     IF text \in {"public", "private", "fileprivate"} THEN text
     ELSE "internal"]

-----------------------------------------------------------------------------
\* Types by name and by shape.

TypeKinds == {"StructType", "ClassType", "EnumDecl"}

NamedType(c, name) ==
  Then(LookupName(c, name), LAMBDA inst :
  IF name \in DOMAIN c.typealias_map THEN c.typealias_map[name]
  ELSE IF name \in DOMAIN c.generic_type_templates
  THEN Declared(c.generic_type_templates[name])
  ELSE IF name \in ToSet(BuiltinNames) THEN Builtin(name)
  ELSE IF inst # None /\ c.insts[inst].kind \in TypeKinds
  THEN Declared(inst)
  ELSE ErrorType)

RECURSIVE HandleTypeExpr(_, _)
HandleTypeExpr(c, t) ==
  LET Of(part) == HandleTypeExpr(c, part)
  IN  CASE t.kind = "IdentifierType" -> NamedType(c, t.name)
        [] t.kind = "OptionalType" -> [kind |-> "Optional", of |-> Of(t.of)]
        [] t.kind = "ArrayType" ->
             IF Of(t.of) = ErrorType THEN ErrorType
             ELSE [kind |-> "Array", of |-> Of(t.of)]
        [] t.kind = "DictionaryType" -> [kind |-> "Dict", of |-> Of(t.key)]
        [] t.kind = "GeneratorType" ->
             [kind |-> "Generator", of |-> Of(t.of)]
        [] t.kind = "FunctionType" ->
             [kind |-> "Closure", of |-> Of(t.result)]
        [] t.kind = "TupleType" -> [kind |-> "Tuple"]

\* The type an instruction of a type stands for, as its fields name it.
TypeOfInst(c, inst) ==
  IF c.insts[inst].kind = "BuiltinType" THEN Builtin(c.insts[inst].name)
  ELSE Declared(inst)

\* The scope of a type's members; built-in types get one when extended.
TypeScope(c, inst) ==
  IF c.insts[inst].kind \in TypeKinds THEN c.insts[inst].scope
  ELSE IF inst \in DOMAIN c.builtin_type_scopes
  THEN c.builtin_type_scopes[inst]
  ELSE None

GetOrCreateBuiltinTypeScope(c, inst) ==
  IF inst \in DOMAIN c.builtin_type_scopes THEN c
  ELSE LET added == AddScope(c, NoNode, None)
       IN  [added EXCEPT !.builtin_type_scopes =
              (inst :> LastScope(added)) @@ @]

\* The prefix of a method's mangled name; fixed-width integers have none.
TypeName(c, inst) ==
  LET type == c.insts[inst]
  IN  IF type.kind \in TypeKinds THEN c.scopes[type.scope].name
      ELSE IF type.name \in {"Bool", "Int", "UInt", "String", "Float",
                             "Double"}
      THEN type.name
      ELSE ""

-----------------------------------------------------------------------------
IsReferenceType(c, type) ==
  type.kind = "Declared" /\ c.insts[type.inst].kind = "ClassType"

\* A class that stores a class, or an optional one, may form a cycle.
AnalyzeCycleCapability(c, class, scope) ==
  LET names == c.scopes[scope].names
      MayCycle(type) ==
        \/ IsReferenceType(c, type)
        \/ type.kind = "Optional" /\ IsReferenceType(c, type.of)
  IN  IF \E name \in DOMAIN names :
           LET inst == c.insts[names[name]]
           IN  inst.kind = "StructField" /\ MayCycle(inst.type)
      THEN [c EXCEPT !.cycle_capable = @ \cup {class}]
      ELSE c
=============================================================================
