--------------------------- MODULE MCExpressions ----------------------------
(* Types, functions and menus of statements for TLC.  A menu holds what     *)
(* makes one part of the language meet itself: the programs are all its     *)
(* sequences of statements.                                                 *)
EXTENDS Expressions

-----------------------------------------------------------------------------
(* What the programs declare. *)

Field(name, type) == [name |-> name, type |-> type]
Mem(k, fn) == [k |-> k, fn |-> fn, tag |-> 0]
Case(k, tag) == [k |-> k, fn |-> "", tag |-> tag]
Type(kind, fields, members) ==
  [kind |-> kind, fields |-> fields, members |-> members]

MCTypes ==
  "Pt" :> Type("struct", <<Field("x", "Int"), Field("y", "Int")>>,
               "move" :> Mem("method", "Pt.move")
                 @@ "plus" :> Mem("method", "Pt.plus")
                 @@ "size" :> Mem("computed", "Pt.size")
                 @@ "size.set" :> Mem("method", "Pt.size.set")
                 @@ "unit" :> Mem("static", "Pt.unit")
                 @@ "subscript" :> Mem("method", "Pt.subscript")
                 @@ "+" :> Mem("method", "Pt.+"))
  @@ "Box" :> Type("class", <<Field("v", "Int"), Field("on", "Bool")>>,
                   "get" :> Mem("method", "Box.get"))
  @@ "Span" :> Type("struct", <<Field("lo", "Int"), Field("len", "Int")>>,
                    "init" :> Mem("init", "Span.init"))
  @@ "Shape" :> Type("enum", <<Field("tag", "Int"), Field("payload", "Int")>>,
                     "dot" :> Case("case", 0) @@ "line" :> Case("case", 1)
                       @@ "disc" :> Case("payload", 2))
  @@ "(Int,Bool)" :> Type("tuple", <<Field("0", "Int"), Field("1", "Bool")>>,
                          <<>>)
  @@ "(Pt,Pt)" :> Type("tuple", <<Field("0", "Pt"), Field("1", "Pt")>>, <<>>)
  @@ "Int" :> Type("builtin", <<>>, "twice" :> Mem("method", "Int.twice"))
  @@ "&Pt" :> Type("pointer", <<>>, <<>>)
  @@ "UnsafePointer" :> Type("pointer", <<>>, <<>>)

Param(name, label, type) ==
  [name |-> name, label |-> label, type |-> type, default |-> <<>>]
Default1(name, n) == [Param(name, name, "Int") EXCEPT !.default = <<n>>]
Function(params, ret, self, body) ==
  [params |-> params, ret |-> ret, self |-> self, body |-> body,
   mutating |-> body = "bump", generic |-> FALSE]
Int1(name, label) == Param(name, label, "Int")

MCFunctions ==
  "add" :> Function(<<Int1("a", "a"), Int1("b", "b")>>, "Int", "", "sum")
  @@ "scale" :> Function(<<Int1("x", ""), Default1("by", 2),
                           Default1("at", 5)>>, "Int", "", "sum")
  @@ "show" :> Function(<<Param("p", "", "Pt"), Param("on", "on", "Bool")>>,
                        "Bool", "", "not")
  @@ "mix" :> Function(<<Int1("a", "a"), Int1("b", "")>>, "Int", "", "sum")
  @@ "both" :> [Function(<<Int1("a", ""), Int1("b", "")>>, "Int", "", "sum")
                  EXCEPT !.generic = TRUE]
  @@ "grow" :> [Function(<<Param("p", "", "&Pt"), Int1("n", "n")>>, "Void", "",
                         "bump") EXCEPT !.mutating = FALSE]
  @@ "room" :> Function(<<Int1("n", "")>>, "UnsafePointer", "", "raw")
  @@ "Pt.move" :> Function(<<Int1("by", "by")>>, "Void", "Pt", "bump")
  @@ "Pt.plus" :> Function(<<Int1("n", ""), Int1("m", "m")>>, "Int", "Pt",
                           "sum")
  @@ "Pt.size" :> Function(<<>>, "Int", "Pt", "sum")
  @@ "Pt.size.set" :> Function(<<Int1("v", "")>>, "Void", "Pt", "bump")
  @@ "Pt.unit" :> Function(<<Int1("x", "x"), Int1("y", "y")>>, "Pt", "",
                           "pack")
  @@ "Pt.subscript" :> Function(<<Int1("i", "")>>, "Int", "Pt", "sum")
  @@ "Pt.+" :> Function(<<Param("l", "", "Pt"), Param("r", "", "Pt")>>,
                        "(Pt,Pt)", "", "pack")
  @@ "Box.get" :> Function(<<Int1("n", "n")>>, "Int", "Box", "sum")
  @@ "Span.init" :> Function(<<Int1("lo", "lo"), Int1("len", "len")>>, "Span",
                             "", "pack")
  @@ "Int.twice" :> Function(<<>>, "Int", "Int", "sum")

MCOptionals == "Int?" :> "Int" @@ "Pt?" :> "Pt" @@ "Bool?" :> "Bool"
                 @@ "String?" :> "String"
MCDictTypes == "[String:Int]" :> <<"String", "Int">>
                 @@ "[Int:Int]" :> <<"Int", "Int">>

-----------------------------------------------------------------------------
(* Syntax. *)

E(k, name, es) == [k |-> k, name |-> name, es |-> es, n |-> 0, s |-> <<>>,
                   chain |-> FALSE]
N(n) == [E("int", "", <<>>) EXCEPT !.n = n]
D(n) == [E("float", "", <<>>) EXCEPT !.n = n]
B(b) == [E("bool", "", <<>>) EXCEPT !.n = IF b THEN 1 ELSE 0]
S(s) == [E("string", "", <<>>) EXCEPT !.s = s]
X(name) == E("name", name, <<>>)
Nil == E("nil", "", <<>>)
Dot(e, m) == E("member", m, <<e>>)
QDot(e, m) == [Dot(e, m) EXCEPT !.chain = TRUE]
Op(l, op, r) == E("infix", op, <<l, r>>)
Pre(op, e) == E("prefix", op, <<e>>)
Bang(e) == E("postfix", "!", <<e>>)
Arr(es) == E("array", "", es)
Dict(es) == E("dict", "", es)
At1(e, i) == E("sub", "", <<e, i>>)
Tup(es) == E("tuple", "", es)
Arg(label, e) == [label |-> label, e |-> e]
CallE(callee, args) == [k |-> "call", callee |-> callee, args |-> args,
                        elem |-> "", es |-> <<>>]
F(name, args) == CallE(X(name), args)
Call0(e, m) == CallE(Dot(e, m), <<>>)
Call1(e, m, x) == CallE(Dot(e, m), <<Arg("", x)>>)
NewSet(elem) == [F("Set", <<>>) EXCEPT !.elem = elem]
Fn(params, names) == [k |-> "closure", params |-> params, names |-> names,
                      es |-> <<>>]
Seg(k, s) == [k |-> k, s |-> s]
Interp(segs) == [k |-> "interp", segs |-> segs, es |-> <<>>]

St(k, names, type, e) == [k |-> k, names |-> names, type |-> type, e |-> e,
                          lhs |-> Nil]
Let(x, e) == St("let", <<x>>, "", e)
Var(x, e) == St("var", <<x>>, "", e)
LetT(x, type, e) == St("let", <<x>>, type, e)
VarT(x, type, e) == St("var", <<x>>, type, e)
Set(lhs, e) == [St("assign", <<>>, "", e) EXCEPT !.lhs = lhs]
Do(e) == St("expr", <<>>, "", e)
Show(e) == Do(F("print", <<Arg("", e)>>))

-----------------------------------------------------------------------------
(* Menus. *)

a == X("a")
b == X("b")
ab == S(<<97, 98>>)

Numbers ==
  <<Let("a", N(7)), Var("a", N(-3)), Var("a", D(3)), VarT("a", "Int", N(2)),
    Var("b", Op(a, "*", N(2))), Let("b", Op(a, "/", N(2))),
    Do(Op(a, "+=", N(3))), Do(Op(a, "-=", D(1))), Do(Op(a, "%=", N(2))),
    Set(a, Op(a, "-", b)), Let("b", Op(a, "<", N(5))),
    Show(Op(Op(a, "%", N(3)), "==", N(1))), Show(b),
    Show(Op(Op(a, "|", N(1)), "<<", N(1))),
    Show(Op(Pre("~", a), "&", N(6))), Show(Pre("-", Op(a, ">>", N(1)))),
    Show(F("Int", <<Arg("", Op(a, "+", D(5)))>>)),
    Let("b", F("Double", <<Arg("", a)>>)), Show(Op(b, ">=", D(4))),
    Show(Pre("!", Op(a, "!=", N(7))))>>

Texts ==
  <<Let("a", ab), Var("a", S(<<32, 65>>)), Let("b", N(4)), Var("b", ab),
    Set(a, Op(a, "+", b)), Show(a), Show(Dot(a, "count")),
    Show(Dot(a, "isEmpty")), Show(Op(a, "==", b)), Show(Op(a, "!=", b)),
    Show(Call0(a, "uppercased")), Show(Dot(a, "trimmed")),
    Show(Call1(a, "hasPrefix", S(<<97>>))), Show(Call1(a, "contains", b)),
    Show(Interp(<<Seg("text", <<61>>), [k |-> "name", name |-> "b"],
                  [k |-> "name", name |-> "a"]>>)),
    Show(Interp(<<[k |-> "infix", op |-> "*", l |-> [k |-> "name", name |-> "b"],
                   r |-> [k |-> "int", n |-> 3]]>>)),
    Show(Interp(<<[k |-> "int", n |-> 12], Seg("text", <<33>>),
                  [k |-> "int", n |-> 7]>>)),
    Show(Interp(<<[k |-> "int", n |-> 10], [k |-> "int", n |-> 9]>>)),
    Show(Interp(<<[k |-> "infix", op |-> "+", l |-> [k |-> "name", name |-> "b"],
                   r |-> [k |-> "int", n |-> 8]]>>)),
    Let("b", Call1(a, "hasSuffix", ab)), Show(Dot(b, "lowercased"))>>

Arrays ==
  <<Var("a", Arr(<<N(1), N(2)>>)), Let("a", Arr(<<N(3)>>)),
    Var("a", Arr(<<ab, ab>>)), Let("b", Arr(<<B(TRUE), B(FALSE)>>)),
    Var("b", Arr(<<N(4), N(5)>>)), Set(At1(a, N(1)), N(7)),
    Set(At1(a, At1(b, N(0))), N(6)), Show(At1(a, N(0))), Show(At1(a, N(1))),
    Show(At1(b, N(1))), Show(Dot(a, "count")),
    Let("b", Op(At1(a, N(0)), "+", Dot(a, "count"))), Show(b),
    Show(At1(Arr(<<N(8), N(9)>>), N(1))), Set(a, Arr(<<N(6)>>)),
    Set(At1(b, N(0)), Op(At1(b, N(1)), "-", At1(a, N(0))))>>

Lists ==
  <<Var("a", Arr(<<>>)), Var("b", Arr(<<>>)), Do(Call1(a, "append", N(4))),
    Do(Call1(a, "append", Dot(a, "count"))), Do(Call1(b, "append", N(1))),
    Do(Call1(b, "append", At1(a, N(0)))), Show(At1(a, N(0))),
    Show(At1(b, N(1))), Show(Dot(a, "count")), Show(Dot(b, "isEmpty")),
    Let("c", At1(a, N(1)))>>

Dicts ==
  <<VarT("a", "[String:Int]", Dict(<<>>)),
    VarT("a", "[Int:Int]", Dict(<<>>)),
    Var("a", Dict(<<N(1), N(4), N(2), N(5)>>)),
    Var("b", Dict(<<ab, N(3)>>)), LetT("b", "[Int:Int]", Dict(<<N(2), N(1)>>)),
    Set(At1(a, N(1)), N(9)), Set(At1(a, ab), N(6)),
    Set(At1(b, S(<<98>>)), N(7)), Show(Op(At1(a, N(2)), "??", N(0))),
    Show(Bang(At1(b, ab))), Show(Op(At1(b, ab), "??", N(-1))),
    Show(Bang(At1(a, ab))), Do(Call1(a, "removeValue", N(1))),
    Do(Call1(b, "removeValue", ab)), Show(Dot(a, "count")),
    Show(Dot(b, "isEmpty")), Show(Call1(a, "contains", N(1))),
    Let("d", At1(b, N(2))), Show(Op(X("d"), "??", N(8)))>>

Sets ==
  <<Var("a", NewSet("Int")), Var("a", NewSet("String")),
    Var("b", NewSet("Int")), Do(Call1(a, "insert", N(3))),
    Do(Call1(a, "insert", ab)), Do(Call1(b, "insert", N(3))),
    Do(Call1(a, "remove", N(3))), Do(Call1(a, "remove", S(<<97, 98>>))),
    Show(Call1(a, "contains", N(3))), Show(Call1(a, "contains", ab)),
    Show(Dot(a, "count")), Show(Op(Dot(a, "count"), "+", Dot(b, "count"))),
    Show(Dot(b, "isEmpty"))>>

p == X("p")
NewPt(x, y) == F("Pt", <<Arg("x", x), Arg("y", y)>>)
Structs ==
  <<Let("p", NewPt(N(1), N(2))), Var("p", NewPt(N(3), N(4))),
    Var("q", p), Let("q", CallE(Dot(X("Pt"), "unit"),
                                <<Arg("x", N(0)), Arg("y", N(5))>>)),
    Set(Dot(p, "y"), Op(Dot(p, "x"), "+", N(1))), Set(p, NewPt(N(5), N(6))),
    Set(Dot(X("q"), "x"), N(7)),
    Do(CallE(Dot(p, "move"), <<Arg("by", N(2))>>)),
    Do(CallE(Dot(X("q"), "move"), <<Arg("by", Dot(p, "x"))>>)),
    Show(CallE(Dot(p, "plus"), <<Arg("", N(1)), Arg("m", Dot(p, "y"))>>)),
    Show(Dot(p, "size")), Set(Dot(p, "size"), N(3)), Show(Dot(p, "y")),
    Show(Dot(X("q"), "x")), Show(At1(p, N(4))), Let("t", Op(p, "+", X("q"))),
    Show(Dot(Dot(X("t"), "1"), "x")),
    Do(F("grow", <<Arg("", E("addr", "p", <<>>)), Arg("n", N(4))>>)),
    Show(Interp(<<[k |-> "member", name |-> "p", member |-> "y"]>>))>>

Instances ==
  <<Let("p", F("Box", <<Arg("v", N(4)), Arg("on", B(TRUE))>>)),
    Var("p", F("Box", <<Arg("v", N(2)), Arg("on", B(FALSE))>>)),
    Let("q", p), Var("q", p), Show(Dot(p, "v")), Show(Dot(X("q"), "on")),
    Show(CallE(Dot(p, "get"), <<Arg("n", N(3))>>)),
    Show(CallE(Dot(X("q"), "get"), <<Arg("n", Dot(p, "v"))>>)),
    Let("s", F("Span", <<Arg("lo", N(1)), Arg("len", N(6))>>)),
    Show(Op(Dot(X("s"), "len"), "-", Dot(X("s"), "lo"))),
    Let("e", CallE(Dot(X("Shape"), "disc"), <<Arg("", N(3))>>)),
    Var("e", Dot(X("Shape"), "line")), Set(X("e"), Dot(X("Shape"), "dot")),
    Show(Call0(N(6), "twice")), Show(Call0(Dot(p, "v"), "twice"))>>

Calls1 ==
  <<Let("a", N(2)), Let("b", B(TRUE)), Let("p", NewPt(a, N(1))),
    Show(F("add", <<Arg("a", N(1)), Arg("b", a)>>)),
    Show(F("add", <<Arg("b", N(1)), Arg("a", a)>>)),
    Show(F("add", <<Arg("a", a)>>)),
    Show(F("scale", <<Arg("", a)>>)),
    Show(F("scale", <<Arg("", N(1)), Arg("by", a)>>)),
    Show(F("scale", <<Arg("", N(1)), Arg("at", a)>>)),
    Show(F("scale", <<Arg("", N(1)), Arg("by", N(0)), Arg("at", a)>>)),
    Show(F("scale", <<Arg("at", a), Arg("", N(3))>>)),
    Show(F("mix", <<Arg("a", a), Arg("", N(3))>>)),
    Show(F("show", <<Arg("", p), Arg("on", b)>>)),
    Show(F("both", <<Arg("", a), Arg("", N(4))>>)),
    Let("f", Fn(<<"x">>, <<"x", "a">>)),
    Let("f", Fn(<<"x", "y">>, <<"y", "x", "x">>)),
    Show(F("f", <<Arg("", N(3))>>)), Show(F("f", <<Arg("", a), Arg("", N(5))>>)),
    Show(F("add", <<Arg("a", F("f", <<Arg("", N(1))>>)), Arg("b", N(1))>>))>>

Optional1 ==
  <<LetT("a", "Int?", N(3)), LetT("a", "Int?", Nil), VarT("a", "Int?", Nil),
    LetT("p", "Pt?", NewPt(N(1), N(2))), VarT("p", "Pt?", NewPt(N(3), N(4))),
    VarT("b", "Bool?", B(TRUE)), Show(Op(b, "??", B(FALSE))),
    Show(Op(a, "??", N(9))), Show(Bang(a)), Let("c", QDot(p, "y")),
    Show(Op(X("c"), "??", N(0))), Show(Op(QDot(p, "x"), "??", N(7))),
    Show(Dot(Bang(p), "y")), Let("d", E("as?", "Int", <<N(4)>>)),
    Show(Bang(X("d"))), Show(E("is", "Int", <<Bang(a)>>)),
    Set(a, X("d")), Let("c", a)>>

Tuples ==
  <<Let("t", Tup(<<N(3), B(TRUE)>>)), Var("t", Tup(<<N(1), B(FALSE)>>)),
    St("let()", <<"a", "b">>, "", X("t")), St("var()", <<"a", "b">>, "", X("t")),
    St("let()", <<"a", "b">>, "", Tup(<<N(5), B(TRUE)>>)),
    Set(a, Op(a, "+", N(1))), Show(a), Show(b), Show(Dot(X("t"), "0")),
    Show(Dot(X("t"), "1")), Set(X("t"), Tup(<<N(6), b>>))>>

System1 ==
  <<Let("a", F("readLine", <<>>)), Let("a", S(<<97>>)),
    Var("b", F("readFile", <<Arg("", a)>>)),
    Show(F("fileExists", <<Arg("", a)>>)),
    Do(F("writeFile", <<Arg("", a), Arg("", b)>>)),
    Do(F("setEnv", <<Arg("", a), Arg("", a)>>)),
    Let("b", F("getEnv", <<Arg("", a)>>)), Show(b),
    Let("n", F("tcpConnect", <<Arg("", a), Arg("", N(8))>>)),
    Show(F("tcpWrite", <<Arg("", X("n")), Arg("", a)>>)),
    Show(F("tcpRead", <<Arg("", X("n")), Arg("", N(4))>>)),
    Do(F("tcpClose", <<Arg("", X("n"))>>)),
    Let("m", F("room", <<Arg("", N(2))>>)), Set(At1(X("m"), N(1)), N(5)),
    Set(At1(X("m"), N(0)), At1(X("m"), N(1))), Show(At1(X("m"), N(0))),
    Do(Call0(X("m"), "deallocate"))>>

MCMenus == <<Numbers, Texts, Arrays, Lists, Dicts, Sets, Structs, Instances,
             Calls1, Optional1, Tuples, System1>>

\* What follows a program without meaning has none either.
HasMeaning == Swift.ok
=============================================================================
