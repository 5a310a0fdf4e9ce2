------------------------------ MODULE MCDriver ------------------------------
(***************************************************************************)
(* Scenarios for the driver: command lines of every shape over one file;   *)
(* a few command lines over worlds where something is wrong; programs      *)
(* whose declarations are ordered and spread over two files in every way   *)
(* that keeps a superclass in front of its subclass and a type in front of *)
(* the functions of its file; and structs of every short list of fields.   *)
(***************************************************************************)
EXTENDS DeclarationMeaning

-----------------------------------------------------------------------------
\* Source, in short.  Sites of uses are named by piece and number.

Id(name) == [kind |-> "IdentifierType", name |-> name]
Opt(name) == [kind |-> "OptionalType", of |-> Id(name)]
Use(site, name) == [kind |-> "Name", site |-> site, name |-> name]
Uses(site, names) ==
  [i \in DOMAIN names |-> Use(site \o ToString(i), names[i])]
Of(site, type, name) ==
  [kind |-> "Member", site |-> site, type |-> Id(type), name |-> name]
Param(name, type) == [name |-> name, node |-> name, type |-> Id(type)]
Prop(name, node, type, accessors) ==
  [kind |-> "VariableDecl", name |-> name, node |-> node, type |-> type,
   init |-> <<>>, accessors |-> accessors]
Var(name, node, type) == Prop(name, node, type, <<>>)
FuncDecl(name, params) ==
  [kind |-> "FunctionDecl", name |-> name, node |-> name, generic |-> FALSE,
   params |-> params, result |-> NoType]
Func(name, node, params, body) ==
  [kind |-> "FunctionDefinition", name |-> name, node |-> node,
   generic |-> FALSE, params |-> params, result |-> NoType, body |-> body]
Special(kind, node, params, body) ==
  [kind |-> kind, node |-> node, params |-> params, body |-> body]
Level(text) == [kind |-> "AccessModifier", text |-> text]
Attribute(name) == [kind |-> "Attribute", name |-> name]
Marked(kind) == [kind |-> kind]
Type(kind, name, inherits, members) ==
  [kind |-> kind, name |-> name, node |-> name, inherits |-> inherits,
   generic |-> FALSE, members |-> members]
Extension(name, members) ==
  [kind |-> "ExtensionDefinition", name |-> name, node |-> "extension",
   members |-> members]
Case(name) == [name |-> name, node |-> "Color." \o name]

-----------------------------------------------------------------------------
\* The pieces of the programs that are put together in every order.

Point ==
  Type("StructDefinition", "Point", <<"Hashable", "Equatable">>,
    <<Var("x", "Point.x", Id("Int")), Var("y", "Point.y", Id("Int")),
      Special("InitDefinition", "Point.init", <<Param("x", "Int")>>,
              Uses("init", <<"x", "y", "self">>)),
      Level("private"),
      Func("norm", "Point.norm", <<>>, Uses("norm", <<"x", "Int">>)),
      Prop("hash", "Point.hash", Id("Int"),
           <<Uses("get", <<"y">>), Uses("set", <<"newValue", "x">>)>>),
      Marked("StaticModifier"),
      Func("origin", "Point.origin", <<>>, Uses("origin", <<"Point">>)),
      Func("far", "Point.far", <<Param("y", "Int")>>,
           Uses("far", <<"norm", "y", "hash">>))>>)

Alias == [kind |-> "TypealiasDecl", name |-> "Pt", type |-> Id("Point")]

Tree ==
  Type("ClassDefinition", "Tree", <<>>,
    <<Var("next", "Tree.next", Opt("Tree")),
      Var("value", "Tree.value", Id("Int")),
      Func("count", "Tree.count", <<>>, Uses("count", <<"value">>)),
      Special("DeinitDefinition", "Tree.deinit", <<>>,
              Uses("deinit", <<"next">>))>>)

Leaf ==
  Type("ClassDefinition", "Leaf", <<"Tree">>,
    <<Var("weight", "Leaf.weight", Id("Float")),
      Func("total", "Leaf.total", <<>>,
           Append(Uses("total", <<"value", "weight">>),
                  Of("total3", "Tree", "next")))>>)

Color ==
  Type("EnumDefinition", "Color", <<>>,
    <<[kind |-> "EnumCaseDecl", elements |-> <<Case("red"), Case("green")>>],
      Func("dark", "Color.dark", <<>>, Uses("dark", <<"red">>))>>)

Extensions ==
  <<Extension("Point",
      <<Func("twice", "Point.twice", <<>>,
             Append(Uses("twice", <<"helper", "Color">>),
                    Of("twice3", "Point", "norm"))),
        Func("again", "Point.again", <<>>,
             Uses("again", <<"twice", "main">>))>>),
    Extension("Int",
      <<Func("double", "Int.double", <<>>, Uses("double", <<"self">>))>>)>>

Helper ==
  <<Level("fileprivate"),
    Func("helper", "helper", <<>>, Uses("helper", <<"Point">>))>>

Main ==
  <<Var("total", "total", Id("Int")),
    Func("main", "main", <<>>,
      <<Var("p", "main.p", Id("Point"))>>
      \o Uses("main", <<"helper", "puts", "total", "p", "Leaf">>)
      \o <<Of("m1", "Point", "x"), Of("m2", "Pt", "far"),
           Of("m3", "Leaf", "value"), Of("m4", "Leaf", "total"),
           Of("m5", "Color", "green"), Of("m6", "Int", "double"),
           Of("m7", "Int", "half"), Of("m8", "Point", "again"),
           Of("m9", "Point", "hash"),
           Func("inner", "main.inner", <<Param("p", "Tree")>>,
                Uses("inner", <<"p", "main", "inner">>)),
           Use("m10", "inner"), Var("helper", "main.helper", Id("Int")),
           Use("m11", "helper")>>)>>

User ==
  <<Func("user", "user", <<>>, Uses("user", <<"main", "norm", "missing">>))>>

\* A modifier in front of a declaration without a body is read again by the
\* last pass, so nothing follows this one.
Extern ==
  <<Attribute("extern"), Level("public"),
    FuncDecl("puts", <<Param("s", "String")>>)>>

TypeUnits == <<<<Point, Alias>>, <<Tree, Color>>, <<Leaf>>, Extensions>>
FunctionUnits == <<Helper, Main, User>>

Orders(n) == {q \in [1..n -> 1..n] : \A i, j \in 1..n : q[i] = q[j] => i = j}
\* The units from the i-th to the j-th of an order.
Part(all, order, i, j) ==
  FlattenSeq([k \in 1..(j - i + 1) |-> all[order[i + k - 1]]])

\* Every order of types and of functions, cut in two files at any place;
\* Tree stays in front of Leaf, its subclass.
Arrangements ==
  {<<Part(TypeUnits, q, 1, s) \o Part(FunctionUnits, r, 1, t),
     Part(TypeUnits, q, s + 1, 4) \o Part(FunctionUnits, r, t + 1, 3)
       \o Extern>> :
     q \in {q \in Orders(4) : \E i, j \in 1..4 : i < j /\ q[i] = 2 /\ q[j] = 3},
     s \in 0..4, r \in Orders(3), t \in 0..3}

\* A comptime function leaves its mark on what follows in earlier passes,
\* so it is the first of its program.
ComptimePrograms ==
  {<<<<Marked("ComptimeModifier"), Func("square", "square", <<>>, <<>>),
       Func("main", "main", <<>>, Uses("main", <<"square", "other">>))>>,
     <<Func("other", "other", <<>>, Uses("other", <<"square">>))>>>>}

\* Structs with up to three fields, and the protocols their types allow.
FieldTypes == {"Int", "Float", "String"}
Record(types) ==
  LET fields == [i \in DOMAIN types |->
                   Var(<<"a", "b", "c">>[i], "Record", Id(types[i]))]
      numbers == "String" \notin ToSet(types)
      texts == "Float" \notin ToSet(types)
      protocols == <<"Equatable", "Hashable">>
                     \o (IF numbers THEN <<"Comparable">> ELSE <<>>)
                     \o (IF texts THEN <<"CustomStringConvertible">>
                         ELSE <<>>)
  IN  Type("StructDefinition", "Record", protocols, fields)
Records ==
  {<<<<Record(t)>>, <<>>>> : t \in UNION {[1..n -> FieldTypes] : n \in 0..3}}

\* A Float is the number of its halves: -0.5, 0.5 and 1.5.
MCFieldValues ==
  "Int" :> 0..2 @@ "Float" :> {-1, 1, 3} @@ "String" :> {"", "a"}

-----------------------------------------------------------------------------
\* Files and worlds.

File(lex, parse, nodes) ==
  [regular |-> TRUE, lex |-> lex, parse |-> parse, nodes |-> nodes]
Good == File(<<>>, <<>>, User)
World(files) ==
  [files |-> files, core |-> <<>>, installed |-> TRUE, clang |-> TRUE,
   targets |-> {"host"}, faults |-> {}]
OfProgram(p) ==
  World("a" :> File(<<>>, <<>>, p[1]) @@ "b" :> File(<<>>, <<>>, p[2]))

Scenario(args, w) == [argv |-> args, world |-> w]
CompileWords(words, files) ==
  <<Plain("compile")>> \o words \o [i \in DOMAIN files |-> Plain(files[i])]

CheckScenarios ==
  {Scenario(CompileWords(<<Long("phase", "check")>>, <<"a", "b">>),
            OfProgram(p)) :
     p \in Arrangements \cup ComptimePrograms \cup Records}

\* What can be wrong with a file: it is missing, or has errors in lexing
\* (at the third root), in parsing (at the second), or in checking (at the
\* first and the fourth).
Broken ==
  <<Func("f", "f", <<>>, Uses("f", <<"missing", "f">>)),
    Func("g", "g", <<>>, <<>>), Func("h", "h", <<>>, <<>>),
    Func("i", "i", <<>>, Uses("i", <<"absent">>))>>
Contents ==
  {File(<<>>, <<>>, Broken), File(<<3>>, <<2>>, Broken),
   File(<<3, 3>>, <<>>, <<>>), File(<<>>, <<2>>, <<>>),
   File(<<>>, <<>>, <<>>)}
Files ==
  {<<>>} \cup {"a" :> f : f \in Contents}
    \cup {"a" :> f @@ "b" :> g : f, g \in Contents}
    \cup {"b" :> g : g \in Contents}

FaultyWorlds ==
  {World(files) : files \in Files}
    \cup {[World("a" :> f @@ "b" :> Good @@ "core" :> g)
             EXCEPT !.core = <<"core">>] : f, g \in Contents}

FaultyLines ==
  {CompileWords(<<Long("phase", phase)>>, files) :
     phase \in {"lex", "parse", "check", "codegen"},
     files \in {<<"a">>, <<"a", "b">>}}
    \cup {CompileWords(<<Long("stream-errors", NoValue)>>, <<"a", "b">>),
          <<Long("verbose", NoValue)>>
             \o CompileWords(<<Long("prelude-import", "false")>>, <<"a">>),
          <<Plain("format"), Short(<<"i">>, NoValue), Plain("a"),
            Plain("b")>>}

\* Sound programs, and everything that fails behind the checker or before
\* there is a unit.
SoundFile == File(<<>>, <<>>, <<Func("f", "f", <<>>, <<>>)>>)
SoundWorld == World("a" :> SoundFile @@ "-" :> [SoundFile EXCEPT !.regular = FALSE])
OddWorlds ==
  {SoundWorld, [SoundWorld EXCEPT !.installed = FALSE],
   [SoundWorld EXCEPT !.clang = FALSE], [SoundWorld EXCEPT !.targets = {}],
   [SoundWorld EXCEPT !.faults = {"open", "emit", "link"}]}
OddLines ==
  {CompileWords(words, <<file>>) :
     words \in {<<>>, <<Long("output", "x")>>, <<Long("output", "-")>>,
                <<Long("asm-output", NoValue)>>,
                <<Long("emit-object", NoValue)>>,
                <<Long("emit-bitcode", NoValue)>>,
                <<Long("release", NoValue)>>,
                <<Long("phase", "sil")>>, <<Long("phase", "lower")>>,
                <<Long("phase", "parse"), Long("dump-parse-tree", NoValue)>>,
                <<Long("phase", "check"), Long("dump-sil", NoValue)>>},
     file \in {"a", "-"}}
    \cup {<<Plain("format"), Short(<<"i">>, NoValue), Plain("a"),
            Plain("-")>>}

-----------------------------------------------------------------------------
\* Command lines: up to three words behind a subcommand, and options of the
\* driver in front of it.  Their world has nothing to compile.

Alphabet ==
  {Long("define", "D"), Long("define", NoValue), Long("phase", "lex"),
   Long("phase", "late"), Long("output", "x"), Long("release", NoValue),
   NoLong("release", NoValue), Long("debug-info", "false"),
   NoLong("debug-info", NoValue), Short(<<"v">>, NoValue), Dashes,
   Plain("a"), Plain("b"), Long("help", NoValue), Long("define", "E")}
Fronts ==
  {<<>>, <<Long("fuzzing", NoValue), Long("prebuilt-runtimes", "x")>>,
   <<Short(<<"v", "v">>, NoValue)>>, <<Short(<<"v">>, "false")>>}
CommandLines ==
  {<<>>, <<Long("version", NoValue)>>, <<Plain("help"), Plain("run")>>,
   <<Plain("unknown")>>, <<Plain("language-server")>>}
    \cup {front \o <<Plain(command)>> \o words :
            front \in Fronts, command \in {"compile", "run"},
            words \in UNION {[1..n -> Alphabet] : n \in 0..2}}
    \cup {<<Plain("compile")>> \o words : words \in [1..3 -> Alphabet]}

MCScenarios ==
  CheckScenarios
    \cup {Scenario(l, w) : l \in FaultyLines, w \in FaultyWorlds}
    \cup {Scenario(l, w) : l \in OddLines, w \in OddWorlds}
    \cup {Scenario(l, World(<<>>)) : l \in CommandLines}
=============================================================================
