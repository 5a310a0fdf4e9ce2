------------------------ MODULE DeclarationMeaning ------------------------
(***************************************************************************)
(* What the declarations of a program mean in Swift, said of the whole     *)
(* program at once: neither passes nor the order of files and declarations *)
(* play a part.  It is the reference the checker's result is compared with.*)
(*                                                                          *)
(* Operators take `p`, the files of the program; a place in it is a file f *)
(* and a position i.                                                        *)
(*                                                                          *)
(* It ends with what the driver's run of the checker over a program must   *)
(* have entered: here the driver of Driver gets the checker of Declarations.*)
(***************************************************************************)
EXTENDS Declarations, Driver

CONSTANT FieldValues  \* of a field type by name, the values of a field

Nodes(p) == FlattenSeq(p)
Places(p) == {<<f, i>> : f \in DOMAIN p, i \in 1..Max({Len(p[g]) : g \in DOMAIN p})}
NodesAt(p) == {<<f, i>> \in Places(p) : i \in DOMAIN p[f]}

\* The modifiers that stand directly in front of the i-th of some nodes.
Marks(nodes, i) ==
  LET all == ModifierKinds \cup {"StaticModifier", "MutatingModifier"}
  IN  {nodes[k] : k \in {k \in 1..(i - 1) :
                           \A l \in k..(i - 1) : nodes[l].kind \in all}}
MarksOf(nodes, i, kind) == {m \in Marks(nodes, i) : m.kind = kind}

WrittenLevel(nodes, i) ==
  LET levels == {m.text : m \in MarksOf(nodes, i, "AccessModifier")}
  IN  IF levels = {} THEN "internal" ELSE CHOOSE l \in levels : TRUE
WrittenAttribute(nodes, i) ==
  LET names == {m.name : m \in MarksOf(nodes, i, "Attribute")}
  IN  IF names = {} THEN NoNode ELSE CHOOSE a \in names : TRUE
IsMarked(nodes, i, kind) == MarksOf(nodes, i, kind) # {}

-----------------------------------------------------------------------------
\* Types and their members.

NominalKinds ==
  {"StructDefinition", "ClassDefinition", "EnumDefinition"}

\* What a type name stands for when aliases are followed.
MeantType(p, name) ==
  LET aliases == {p[q[1]][q[2]] : q \in NodesAt(p)}
      named == {a \in aliases : a.kind = "TypealiasDecl" /\ a.name = name}
  IN  IF named = {} THEN name ELSE (CHOOSE a \in named : TRUE).type.name

DefinitionsOf(p, type) ==
  SelectSeq(Nodes(p), LAMBDA n : n.kind \in NominalKinds /\ n.name = type)
IsClass(p, type) ==
  \E i \in DOMAIN DefinitionsOf(p, type) :
    DefinitionsOf(p, type)[i].kind = "ClassDefinition"

\* All that is written between the braces of the type and its extensions.
WrittenIn(p, type) ==
  Then(SelectSeq(Nodes(p), LAMBDA n :
         /\ n.kind \in NominalKinds \cup {"ExtensionDefinition"}
         /\ n.name = type), LAMBDA parts :
  FlattenSeq([i \in DOMAIN parts |-> parts[i].members]))

Superclasses(p, type) ==
  LET named == FlattenSeq([i \in DOMAIN DefinitionsOf(p, type) |->
                             DefinitionsOf(p, type)[i].inherits])
  IN  {name \in ToSet(named) : IsClass(p, name)}

MemberEntry(m, role) == [name |-> m.name, node |-> m.node, role |-> role]

EntriesOf(members, i) ==
  LET m == members[i]
  IN  CASE m.kind = "VariableDecl" -> {MemberEntry(m, "property")}
        [] m.kind = "FunctionDefinition" ->
             {MemberEntry(m, IF IsMarked(members, i, "StaticModifier")
                             THEN "static" ELSE "method")}
        [] m.kind = "EnumCaseDecl" ->
             {MemberEntry(m.elements[k], "case") : k \in DOMAIN m.elements}
        [] OTHER -> {}

\* A type's own members, and its superclass's that it does not override.
RECURSIVE Members(_, _)
Members(p, type) ==
  Then(WrittenIn(p, type), LAMBDA written :
  Then(UNION {EntriesOf(written, i) : i \in DOMAIN written}, LAMBDA own :
  LET inherited == UNION {Members(p, s) : s \in Superclasses(p, type)}
  IN own \cup {m \in inherited : \A o \in own : o.name # m.name}))

\* Classes whose objects can reach an object of a class.
CycleCapable(p) ==
  LET Stored(type) ==
        LET w == WrittenIn(p, type)
        IN  {w[i].type : i \in {i \in DOMAIN w : w[i].kind = "VariableDecl"
                                             /\ ~IsComputedProperty(w[i])}}
      Names(t) == IF t.kind = "IdentifierType" THEN {t.name}
                  ELSE IF t.kind = "OptionalType" THEN {t.of.name} ELSE {}
      Holds(type) == \E t \in Stored(type) : \E n \in Names(t) : IsClass(p, n)
      Reaches(type) == Holds(type) \/ \E s \in Superclasses(p, type) : Holds(s)
      classes == {p[q[1]][q[2]] : q \in NodesAt(p)}
  IN  {d.node : d \in {d \in classes : d.kind = "ClassDefinition"
                                       /\ Reaches(d.name)}}

-----------------------------------------------------------------------------
\* Names.  `env` is where a name is used: the file, the enclosing type or
\* "", and the local names with what they stand for.

GlobalKinds ==
  NominalKinds \cup {"ProtocolDefinition", "FunctionDefinition",
                     "FunctionDecl", "VariableDecl"}

\* The nodes of a name that another file does not keep to itself.
Globals(p, file, name) ==
  {p[q[1]][q[2]].node :
     q \in {q \in NodesAt(p) :
              /\ p[q[1]][q[2]].kind \in GlobalKinds
              /\ p[q[1]][q[2]].name = name
              /\ \/ q[1] = file
                 \/ WrittenLevel(p[q[1]], q[2])
                      \notin {"private", "fileprivate"}}}

Found(node, via) == [node |-> node, via |-> via]

Resolve(p, env, name) ==
  Then({m \in Members(p, env.type) : m.name = name}, LAMBDA members :
  LET member == CHOOSE m \in members : TRUE
  IN Then(Globals(p, env.file, name), LAMBDA globals :
     CASE name \in DOMAIN env.locals -> Found(env.locals[name], "name")
       [] name \notin DOMAIN env.locals /\ members # {} ->
            Found(member.node, IF member.role \in {"property", "method"}
                               THEN "self" ELSE "name")
       [] name \notin DOMAIN env.locals /\ members = {} /\ globals # {} ->
            Found(CHOOSE g \in globals : TRUE, "name")
       [] OTHER -> IF name \in ToSet(BuiltinNames) THEN Found(name, "name")
                   ELSE Found(NoNode, "error")))

ResolveMember(p, use) ==
  Then({m \in Members(p, MeantType(p, use.type.name)) :
          m.name = use.name}, LAMBDA members :
  IF members = {} THEN Found(NoNode, "error")
  ELSE Found((CHOOSE m \in members : TRUE).node, "member"))

UseAt(site, found, file) ==
  [site |-> site, node |-> found.node, via |-> found.via, file |-> file]

WithNames(env, params) ==
  FoldLeft(LAMBDA e, q : [e EXCEPT !.locals = (q.name :> q.node) @@ @],
           env, params)

\* What the uses in a body stand for; a local name is seen behind its
\* declaration, a function in its own body too.
RECURSIVE UsesOf(_, _, _)
UsesOf(p, env, body) ==
  LET s == Head(body)
      after == IF s.kind \in {"VariableDecl", "FunctionDefinition"}
               THEN WithNames(env, <<s>>) ELSE env
      here ==
        CASE s.kind = "Name" ->
               {UseAt(s.site, Resolve(p, env, s.name), env.file)}
          [] s.kind = "Member" ->
               {UseAt(s.site, ResolveMember(p, s), env.file)}
          [] s.kind = "VariableDecl" -> UsesOf(p, env, s.init)
          [] s.kind = "FunctionDefinition" ->
               UsesOf(p, WithNames(after, s.params), s.body)
  IN  IF body = <<>> THEN {} ELSE here \cup UsesOf(p, after, Tail(body))

Local(name) == [name |-> name, node |-> name]

UsesOfMember(p, env, m) ==
  LET method == WithNames(env, <<Local("self")>>)
      setter == WithNames(method, <<Local("newValue")>>)
      In(e, params, body) == UsesOf(p, WithNames(e, params), body)
  IN  CASE m.kind \in {"FunctionDefinition", "InitDefinition",
                       "DeinitDefinition"} -> In(method, m.params, m.body)
        [] m.kind = "VariableDecl" /\ IsComputedProperty(m) ->
             In(method, <<>>, GetterBody(m.accessors))
               \cup (IF HasSetter(m.accessors)
                     THEN In(setter, <<>>, SetterBody(m.accessors)) ELSE {})
        [] m.kind = "SubscriptDefinition" ->
             In(method, m.params, GetterBody(m.accessors))
        [] OTHER -> {}

UsesOfRoot(p, f, n) ==
  LET env == [file |-> f, type |-> "", locals |-> NoNames]
      Within(m) == UsesOfMember(p, [env EXCEPT !.type = n.name], m)
  IN  CASE n.kind = "FunctionDefinition" ->
             UsesOf(p, WithNames(env, n.params), n.body)
        [] n.kind = "VariableDecl" -> UsesOf(p, env, n.init)
        [] n.kind \in NominalKinds \cup {"ExtensionDefinition"} ->
             UNION {Within(n.members[k]) : k \in DOMAIN n.members}
        [] OTHER -> {}

MeantUses(p) ==
  UNION {UsesOfRoot(p, q[1], p[q[1]][q[2]]) : q \in NodesAt(p)}

-----------------------------------------------------------------------------
\* Functions as their modifiers say.

FunctionsWritten(nodes) ==
  {[node |-> nodes[i].node, level |-> WrittenLevel(nodes, i),
    attribute |-> WrittenAttribute(nodes, i),
    comptime |-> IsMarked(nodes, i, "ComptimeModifier"),
    static |-> IsMarked(nodes, i, "StaticModifier")] :
     i \in {i \in DOMAIN nodes :
              nodes[i].kind \in {"FunctionDefinition", "FunctionDecl"}}}

MeantFunctions(p) ==
  LET Inside(n) ==
        IF n.kind \in NominalKinds \cup {"ExtensionDefinition"}
        THEN FunctionsWritten(n.members) ELSE {}
  IN  UNION {FunctionsWritten(p[f]) : f \in DOMAIN p}
        \cup UNION {Inside(p[q[1]][q[2]]) : q \in NodesAt(p)}

-----------------------------------------------------------------------------
\* What synthesized members of two objects with fields l and r answer.

MeantLess(l, r) ==
  \E k \in DOMAIN l : l[k] < r[k] /\ \A j \in 1..(k - 1) : l[j] = r[j]

FieldValueText(v, type) == IF type = "String" THEN v ELSE ToString(v)

\* Name(field: value, field: value)
MeantDescription(name, fields, values) ==
  FoldLeftDomain(LAMBDA text, i :
                   text \o (IF i = 1 THEN "" ELSE ", ")
                        \o fields[i].name \o ": "
                        \o FieldValueText(values[i], fields[i].type.name),
                 name \o "(", fields) \o ")"

-----------------------------------------------------------------------------
\* Properties of what the checker enters.

\* The program checked, and whether all of it has been.
Program ==
  [f \in DOMAIN CheckUnits |-> world.files[units[CheckUnits[f]].name].nodes]
IsChecked == at = "done" /\ units # <<>> /\ pass > 4

\* The function entered last for a node: pass 1b enters a signature first.
EnteredFor(node) ==
  LET decls == {i \in DOMAIN context.insts :
                  /\ context.insts[i].kind = "FunctionDecl"
                  /\ context.insts[i].node = node}
  IN  context.functions[context.insts[Max(decls)].function]

UsesAsMeant ==
  /\ ToSet(context.uses) = MeantUses(Program)
  /\ Len(context.uses) = Cardinality(MeantUses(Program))

ErrorsAsMeant ==
  {<<context.diagnostics[i].node, context.diagnostics[i].file>> :
     i \in DOMAIN context.diagnostics}
    = {<<u.site, u.file>> :
         u \in {u \in MeantUses(Program) : u.via = "error"}}

FunctionsAsMeant ==
  \A f \in MeantFunctions(Program) :
    LET fn == EnteredFor(f.node)
    IN  /\ fn.level = f.level
        /\ fn.attribute = f.attribute
        /\ fn.comptime = f.comptime
        /\ fn.static = f.static

CyclesAsMeant ==
  {context.insts[i].node : i \in context.cycle_capable}
    = CycleCapable(Program)

\* For the programs of the runs the four passes find what Swift's rules
\* say, however the declarations are ordered and spread over files: every
\* use of a name stands for the declaration meant, through `self` where a
\* member is; what is not visible is an error at that use and nowhere else;
\* every function has its own modifiers; and the classes traced for cycles
\* are those that can reach a class (CheckParseTrees).
CheckedAsSwift ==
  IsChecked =>
    UsesAsMeant /\ ErrorsAsMeant /\ FunctionsAsMeant /\ CyclesAsMeant

\* The objects of some fields.
Objects(fields) ==
  FoldLeft(LAMBDA objects, field :
             {Append(o, v) : o \in objects, v \in FieldValues[field.type.name]},
           {<<>>}, fields)

FieldsWritten(name) ==
  SelectSeq(WrittenIn(Program, name),
            LAMBDA m : m.kind = "VariableDecl" /\ ~IsComputedProperty(m))

\* A member of a type by its name; a synthesized one has no node, and its
\* body is the function's or the property's getter's.
MemberOf(type, name) ==
  context.insts[context.scopes[context.insts[type].scope].names[name]]
BodyOf(type, name) ==
  LET member == MemberOf(type, name)
      decl == IF member.kind = "FunctionDecl" THEN member
              ELSE context.insts[member.getter]
  IN  context.functions[decl.function].body

\* The objects differ in one Int, or in the whole part of one Float: a hash
\* has neither the fraction of a Float nor the characters of a String.
DifferInOneNumber(l, r, fields) ==
  \E i \in DOMAIN fields :
    /\ \/ fields[i].type.name = "Int" /\ l[i] # r[i]
       \/ /\ fields[i].type.name = "Float"
          /\ FloatToInt(l[i]) # FloatToInt(r[i])
    /\ \A j \in DOMAIN fields \ {i} : l[j] = r[j]

ConformsAsMeant(type) ==
  LET name == context.insts[type].node
      protocols == ToSet(context.conformances[type])
      fields == FieldsWritten(name)
      Asked(protocol, member) ==
        protocol \in protocols /\ MemberOf(type, member).node = NoNode
      Of(member, args) == Evaluate(BodyOf(type, member), args)
      Compared(member, l, r) == Of(member, [lhs |-> l, rhs |-> r])
      Property(member, o) == Of(member, [self |-> o])
  IN  \A l, r \in Objects(fields) :
        /\ Asked("Equatable", "__eq__") =>
             Compared("__eq__", l, r) = (l = r)
        /\ Asked("Equatable", "__neq__") =>
             Compared("__neq__", l, r) = (l # r)
        /\ Asked("Comparable", "__lt__") =>
             Compared("__lt__", l, r) = MeantLess(l, r)
        /\ Asked("Hashable", "hash") =>
             (DifferInOneNumber(l, r, fields)
                => Property("hash", l) # Property("hash", r))
        /\ Asked("CustomStringConvertible", "description") =>
             Property("description", l) = MeantDescription(name, fields, l)

\* The members written for a conformance do what their protocols ask of all
\* stored fields: `==` is equality of the objects, `<` their lexicographic
\* order, the hash tells objects apart that differ in one Int or in the
\* whole part of one Float, and the description is the constructor's text
\* (synthesis.cpp).
SynthesizedAsWritten ==
  IsChecked =>
    \A type \in DOMAIN context.conformances : ConformsAsMeant(type)
=============================================================================
