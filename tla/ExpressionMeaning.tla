------------------------- MODULE ExpressionMeaning --------------------------
(***************************************************************************)
(* What a straight-line program means in Swift: an interpreter of the      *)
(* syntax tree over values, with neither instructions nor memory, against  *)
(* which the compiler is checked (RunsAsSwift of Expressions).             *)
(*                                                                         *)
(* A value is [t, of, n, s, parts, fn]: its type, the element types of a   *)
(* collection, its number, its text, its fields, elements, pairs or        *)
(* payload, and what a closure is made of.  The state is [env, out, ok];   *)
(* ok is FALSE once the program is none the model makes a claim about: it  *)
(* does not type-check, it traps, or it is of a kind that TinySwift is     *)
(* known to treat otherwise (each marked "not as Swift").                  *)
(***************************************************************************)
EXTENDS Execution

V(t, n, s, parts) == [t |-> t, of |-> <<>>, n |-> n, s |-> s,
                      parts |-> parts, fn |-> <<>>]
Of(t, of, parts) == [V(t, 0, <<>>, parts) EXCEPT !.of = of]
IntV(n) == V("Int", n, <<>>, <<>>)
BoolV(b) == V("Bool", IF b THEN 1 ELSE 0, <<>>, <<>>)
DoubleV(n) == V("Double", n, <<>>, <<>>)
TextV(s) == V("String", 0, s, <<>>)
NilV == V("nil", 0, <<>>, <<>>)
VoidV == V("Void", 0, <<>>, <<>>)
SomeV(type, v) == V(type, 1, <<>>, <<v>>)
NoneV(type) == V(type, 0, <<>>, <<>>)

Start == [env |-> <<>>, out |-> <<>>, ok |-> TRUE]
R(s, v) == [s |-> s, v |-> v]
Fail(s) == R([s EXCEPT !.ok = FALSE], VoidV)
Give(s, valid, v) == IF valid THEN R(s, v) ELSE Fail(s)
SameType(a, b) == a.t = b.t /\ a.of = b.of

\* Int of Width bits traps when it overflows.
IntFits(n) == n \in -(2^(Width - 1))..2^(Width - 1) - 1
GiveInt(s, n) == Give(s, IntFits(n), IntV(n))

RECURSIVE Flat(_)
Flat(v) ==
  CASE v.t \in {"Int", "Bool", "Double"} -> <<v.n>>
    [] v.t = "String" -> v.s
    [] v.t \in DOMAIN Optionals ->
         <<v.n>> \o (IF v.n = 1 THEN Flat(v.parts[1]) ELSE <<0>>)
    [] OTHER -> FlattenSeq([i \in DOMAIN v.parts |-> Flat(v.parts[i])])
Say(s, what, vs) ==
  [s EXCEPT !.out = Append(@, Event(what, [i \in DOMAIN vs |-> Flat(vs[i])]))]

-----------------------------------------------------------------------------
(* Operators. *)

Infix(s, op, a, b) ==
  LET both(t) == a.t = t /\ b.t = t
  IN Then(IF a.t \in DOMAIN Types /\ op \in DOMAIN Types[a.t].members
          THEN Types[a.t].members[op].fn ELSE "", LAMBDA overload :
     LET n == CASE op = "+" -> a.n + b.n [] op = "-" -> a.n - b.n
                [] op = "*" -> a.n * b.n [] op = "/" -> SDiv(a.n, b.n)
                [] op = "%" -> a.n - b.n * SDiv(a.n, b.n)
                [] op \in {"&", "|", "^"} ->
                     IntResult(CASE op = "&" -> "and_Int64" [] op = "|" ->
                                    "or_Int64" [] op = "^" -> "xor_Int64", a.n, b.n)
                [] op = "<<" -> Wrap(a.n * 2^b.n) [] op = ">>" -> a.n \div 2^b.n
         half == CASE op = "+" -> a.n + b.n [] op = "-" -> a.n - b.n
                   [] op = "*" -> (a.n * b.n) \div 2
                   [] op = "/" -> SDiv(2 * a.n, b.n)
         less == CASE op = "<" -> a.n < b.n [] op = ">" -> a.n > b.n
                   [] op = "<=" -> a.n <= b.n [] op = ">=" -> a.n >= b.n
         shift == op \in {"<<", ">>"}
     IN IF op \in Arithmetics \cup {"&", "|", "^", "<<", ">>"} /\ both("Int")
        THEN IF (op \in {"/", "%"} /\ b.n = 0)
                \/ (shift /\ b.n \notin 0..Width - 1)
             THEN Fail(s) ELSE GiveInt(s, n)
        ELSE IF op \in {"+", "-", "*", "/"} /\ both("Double")
        THEN IF op = "/" /\ b.n = 0 THEN Fail(s) ELSE R(s, DoubleV(half))
        ELSE IF op = "+" /\ both("String") THEN R(s, TextV(a.s \o b.s))
        ELSE IF op \in {"==", "!="} /\ (both("Int") \/ both("Double")
                                        \/ both("Bool") \/ both("String"))
        THEN R(s, BoolV((op = "==") = (a.n = b.n /\ a.s = b.s)))
        ELSE IF op \in {"<", ">", "<=", ">="} /\ (both("Int") \/ both("Double"))
        THEN R(s, BoolV(less))
        ELSE IF overload # "" /\ SameType(a, b)
        THEN R(Say(s, overload, <<a, b>>),
               V(Functions[overload].ret, 0, <<>>, <<a, b>>))
        ELSE Fail(s))

\* x ?? y: both are evaluated whatever x is (not as Swift, which is seen only
\* when y can be seen: the menus hold no such y).
Default(s, a, b) ==
  Give(s, a.t \in DOMAIN Optionals /\ Optionals[a.t] = b.t,
       IF a.n = 1 THEN a.parts[1] ELSE b)

Prefix1(s, op, a) ==
  CASE op = "-" /\ a.t = "Int" -> GiveInt(s, -a.n)
    [] op = "-" /\ a.t = "Double" -> R(s, DoubleV(-a.n))
    [] op = "!" /\ a.t = "Bool" -> R(s, BoolV(a.n = 0))
    [] op = "~" /\ a.t = "Int" -> R(s, IntV(-a.n - 1))
    [] OTHER -> Fail(s)

\* Interpolation of a Bool or Double is not as Swift, nor is that of the
\* literals 8 and 9, which the program prints as -8 and -7.
Segment(s, g) ==
  LET at(name) == IF name \in DOMAIN s.env THEN s.env[name].v ELSE VoidV
      literal(n) == IF n \in {8, 9} THEN VoidV ELSE IntV(n)
      operand(x) == IF x.k = "int" THEN literal(x.n) ELSE at(x.name)
  IN Then(CASE g.k = "int" -> literal(g.n) [] g.k = "name" -> at(g.name)
            [] g.k = "member" ->
                 Then(IF IsNominal(at(g.name).t)
                      THEN FieldIndex(at(g.name).t, g.member) ELSE 0,
                      LAMBDA i :
                 IF i = 0 THEN VoidV ELSE at(g.name).parts[i])
            [] g.k = "infix" ->
                 Then(Infix(s, g.op, operand(g.l), operand(g.r)), LAMBDA r :
                 IF r.s.ok THEN r.v ELSE VoidV)
            [] g.k \in {"text", "other"} -> VoidV, LAMBDA v :
     IF g.k = "text" THEN R(s, TextV(g.s))
     ELSE IF v.t = "String" THEN R(s, v)
     ELSE Give(s, v.t = "Int", TextV(Decimal(v.n))))
Interpolated(s, segs) ==
  FoldLeft(LAMBDA r, g : Then(Segment(r.s, g), LAMBDA x :
                         R(x.s, TextV(r.v.s \o x.v.s))),
           R(s, TextV(<<>>)), segs)

-----------------------------------------------------------------------------
(* Calls. *)

\* Labels and types agree with the parameters; what has a default may be
\* left out.
RECURSIVE Bind(_, _)
Bind(params, args) ==
  IF params = <<>> THEN IF args = <<>> THEN [ok |-> TRUE, vs |-> <<>>]
                        ELSE [ok |-> FALSE, vs |-> <<>>]
  ELSE LET p == Head(params)
       IN Then(/\ args # <<>> /\ Head(args).label = p.label
               /\ Head(args).v.t = p.type, LAMBDA here :
          Then(Bind(Tail(params), IF here THEN Tail(args) ELSE args),
               LAMBDA rest :
          IF here THEN [rest EXCEPT !.vs = <<Head(args).v>> \o @]
          ELSE IF p.default # <<>>
          THEN [rest EXCEPT !.vs = <<IntV(p.default[1])>> \o @]
          ELSE [ok |-> FALSE, vs |-> <<>>]))

\* What the functions of the menus do.
Body(s, fn, vs) ==
  LET f == Functions[fn]
      total == SumOf(FlattenSeq([i \in DOMAIN vs |-> Flat(vs[i])]))
  IN CASE f.body = "pack" -> R(s, V(f.ret, 0, <<>>, vs))
       [] f.body = "sum" -> GiveInt(s, total)
       [] f.body = "not" -> R(s, BoolV(Flat(vs[1]) = <<0>>))
       [] f.body = "bump" -> R(s, VoidV)
       [] f.body = "raw" ->
            Give(s, vs[1].n > 0, V(f.ret, 0, <<>>, [i \in 1..vs[1].n |-> VoidV]))
Invoke(s, fn, self, args) ==
  Then(Bind(Functions[fn].params, args), LAMBDA b :
  IF ~b.ok THEN Fail(s)
  ELSE Body(Say(s, fn, self \o b.vs), fn, self \o b.vs))

\* A mutating function adds its argument to the first field of a variable.
Bump(s, fn, name, args) ==
  Then(Bind(Functions[fn].params, args), LAMBDA b :
  LET self == s.env[name].v
      n == self.parts[1].n + b.vs[1].n
  IN IF name \notin DOMAIN s.env THEN Fail(s)
     ELSE IF ~b.ok \/ ~s.env[name].mutable \/ ~IntFits(n) THEN Fail(s)
     ELSE R([Say(s, fn, <<self>> \o b.vs) EXCEPT
               !.env[name].v.parts[1] = IntV(n)], VoidV))

Vs(args) == [i \in DOMAIN args |-> args[i].v]
\* A struct or an instance, from its fields or by its initializer.
Construct(s, type, args) ==
  LET fields == Types[type].fields
  IN Then(Bind([i \in DOMAIN fields |->
                  [label |-> fields[i].name, type |-> fields[i].type,
                   default |-> <<>>]], args), LAMBDA all :
     LET init == Types[type].members["init"].fn
     IN Then(Invoke(s, init, <<>>, args), LAMBDA made :
        IF "init" \in DOMAIN Types[type].members
        THEN R(made.s, [made.v EXCEPT !.t = type])
        ELSE Give(s, all.ok, V(type, 0, <<>>, all.vs))))

Apply1(s, f, args) ==
  LET all == f.fn[3] \o Vs(args)
  IN Then([i \in DOMAIN f.fn[2] |-> all[f.fn[2][i]]], LAMBDA used :
     IF \/ Len(args) # f.fn[1]
        \/ \E i \in DOMAIN args : args[i].v.t # "Int" \/ args[i].label # ""
        \/ \E i \in DOMAIN used : used[i].t # "Int"
     THEN Fail(s)
     ELSE GiveInt(Say(s, "closure", Vs(args)),
                  SumOf([i \in DOMAIN used |-> used[i].n])))

System(s, call, args) ==
  Then(SystemBuiltins[call[1]], LAMBDA name :
  LET widths == [i \in DOMAIN args |-> WidthOf(args[i].v.t)]
  IN IF \/ widths # SystemParams[name]
        \/ call[1] \in {"ProcessExit", "ProcessGetArgs", "FsListDir"}
     THEN Fail(s)
     ELSE R(Say(s, name, Vs(args)),
            CASE call[2] = "String" -> TextV(<<120>>)
              [] call[2] = "Bool" -> BoolV(TRUE) [] call[2] = "Int" -> IntV(1)))

Known(s, name, elem, args) ==
  LET v == args[1].v
  IN IF name \in DOMAIN FileCalls THEN System(s, FileCalls[name], args)
     ELSE IF name \in DOMAIN OsCalls THEN System(s, OsCalls[name], args)
     ELSE IF name \in DOMAIN NetCalls THEN System(s, NetCalls[name], args)
     ELSE IF name = "Set" THEN Give(s, args = <<>>, Of("Set", <<elem>>, <<>>))
     ELSE IF Len(args) # 1 THEN Fail(s)
     ELSE CASE name = "print" ->
                 IF v.t \in {"Int", "Bool", "String"}
                 THEN R(Say(s, CASE v.t = "Int" -> "int" [] v.t = "Bool" ->
                                    "bool" [] v.t = "String" -> "string",
                            <<v>>), VoidV)
                 ELSE Fail(s)
            [] name = "Int" -> Give(s, v.t = "Double", IntV(SDiv(v.n, 2)))
            [] name = "Double" -> Give(s, v.t = "Int", DoubleV(2 * v.n))
            [] OTHER -> Fail(s)

-----------------------------------------------------------------------------
(* Members and collections. *)

IsType(e) == e.k = "name" /\ Kind(e.name) \in {"struct", "class", "enum"}
HasA(type, member, kind) ==
  /\ type \in DOMAIN Types /\ member \in DOMAIN Types[type].members
  /\ Types[type].members[member].k = kind
FnOf(type, member) == Types[type].members[member].fn

\* The position of a key among the pairs <<k, v>> of a dictionary, or of an
\* element in a set; 0 when it is not there.
At(vs, key) ==
  LET at == {i \in DOMAIN vs : vs[i].n = key.n /\ vs[i].s = key.s}
  IN IF at = {} THEN 0 ELSE CHOOSE i \in at : TRUE
Keys(v) == [i \in DOMAIN v.parts |-> v.parts[i].parts[1]]
Dropped(vs, i) == SubSeq(vs, 1, i - 1) \o SubSeq(vs, i + 1, Len(vs))
PairV(k, v) == V("pair", 0, <<>>, <<k, v>>)

CaseOf(type, member, args) ==
  V(type, 0, <<>>, <<IntV(Types[type].members[member].tag)>> \o
                     (IF args = <<>> THEN <<IntV(0)>> ELSE <<args[1].v>>))

TextMember(s, v, member) ==
  CASE member = "count" -> GiveInt(s, Len(v.s))
    [] member = "isEmpty" -> R(s, BoolV(v.s = <<>>))
    [] member = "uppercased" -> R(s, TextV([i \in DOMAIN v.s |-> Upper(v.s[i])]))
    [] member = "lowercased" -> R(s, TextV([i \in DOMAIN v.s |-> Lower(v.s[i])]))
    [] member = "trimmed" -> R(s, TextV(Trimmed(v.s)))
    [] OTHER -> Fail(s)
TextMethod(s, v, method, args) ==
  LET x == args[1].v.s
  IN IF Len(args) # 1 THEN Fail(s)
     ELSE IF args[1].v.t # "String" THEN Fail(s)
     ELSE CASE method = "hasPrefix" -> R(s, BoolV(IsPrefix(x, v.s)))
            [] method = "hasSuffix" -> R(s, BoolV(IsSuffix(x, v.s)))
            [] method = "contains" ->
                 R(s, BoolV(\E i \in 0..Len(v.s) - Len(x) :
                              SubSeq(v.s, i + 1, i + Len(x)) = x))
            [] OTHER -> Fail(s)

\* isEmpty of an array with a literal is not as Swift.
Member(s, v, member) ==
  LET i == IF IsNominal(v.t) \/ Kind(v.t) = "tuple"
           THEN FieldIndex(v.t, member) ELSE 0
  IN CASE v.t = "String" -> TextMember(s, v, member)
       [] v.t \in {"Array", "List", "Dict", "Set"} ->
            IF member = "count" THEN R(s, IntV(Len(v.parts)))
            ELSE Give(s, member = "isEmpty" /\ v.t # "Array",
                      BoolV(v.parts = <<>>))
       [] HasA(v.t, member, "computed") ->
            Invoke(s, FnOf(v.t, member), <<v>>, <<>>)
       [] OTHER -> Give(s, i # 0 /\ ~HasA(v.t, member, "computed"),
                        v.parts[i])
Chain(s, v, member) ==
  LET inner == Optionals[v.t]
  IN Then(FieldIndex(inner, member), LAMBDA i :
     LET type == OptionalOf(Types[inner].fields[i].type)
     IN IF v.t \notin DOMAIN Optionals THEN Fail(s)
        ELSE Give(s, i # 0, IF v.n = 1 THEN SomeV(type, v.parts[1].parts[i])
                            ELSE NoneV(type)))

\* Reading: an array or list within its bounds, a dictionary's optional.
Subscript(s, v, i) ==
  LET at == At(Keys(v), i)
      type == OptionalOf(v.of[2])
  IN CASE v.t \in {"Array", "List"} ->
            Give(s, i.t = "Int" /\ i.n + 1 \in DOMAIN v.parts,
                 v.parts[i.n + 1])
       [] v.t = "Dict" ->
            Give(s, i.t = v.of[1] /\ v.of[2] = "Int",
                 IF at = 0 THEN NoneV(type)
                 ELSE SomeV(type, v.parts[at].parts[2]))
       [] Kind(v.t) = "pointer" ->
            Give(s, /\ i.t = "Int" /\ i.n + 1 \in DOMAIN v.parts
                    /\ v.parts[i.n + 1].t # "Void", v.parts[i.n + 1])
       [] HasA(v.t, "subscript", "method") ->
            Invoke(s, FnOf(v.t, "subscript"), <<v>>, <<[label |-> "", v |-> i]>>)
       [] OTHER -> Fail(s)

SetVar(s, name, v) == [s EXCEPT !.env[name].v = v]
\* Methods that change the collection a variable holds, and contains.
CollectionMethod(s, name, method, args) ==
  LET v == s.env[name].v
      x == args[1].v
  IN Then(IF v.t = "Dict" THEN At(Keys(v), x) ELSE At(v.parts, x), LAMBDA at :
     LET fits == Len(args) = 1 /\ s.env[name].mutable /\ x.t = v.of[1]
     IN IF ~fits THEN Fail(s)
        ELSE CASE v.t = "List" /\ method = "append" ->
                    R(SetVar(s, name, [v EXCEPT !.parts = Append(@, x)]), VoidV)
               [] v.t = "Set" /\ method = "insert" ->
                    R(IF at # 0 THEN s
                      ELSE SetVar(s, name, [v EXCEPT !.parts = Append(@, x)]),
                      VoidV)
               [] <<v.t, method>> \in {<<"Set", "remove">>,
                                      <<"Dict", "removeValue">>} ->
                    R(IF at = 0 THEN s
                      ELSE SetVar(s, name, [v EXCEPT !.parts = Dropped(@, at)]),
                      VoidV)
               [] v.t \in {"Set", "Dict"} /\ method = "contains" ->
                    R(s, BoolV(at # 0))
               [] OTHER -> Fail(s))

-----------------------------------------------------------------------------
(* Expressions. *)

RECURSIVE Eval(_, _)
EvalAll(s, es) ==
  FoldLeft(LAMBDA r, e : IF ~r.s.ok THEN r
                         ELSE Then(Eval(r.s, e), LAMBDA x :
                              [s |-> x.s, vs |-> Append(r.vs, x.v)]),
           [s |-> s, vs |-> <<>>], es)

\* A call by a name: what the language provides, a function or type of the
\* program, a closure a let names.
CallNamed(s, name, elem, args) ==
  CASE name \in Intercepted -> Known(s, name, elem, args)
    [] name \notin Intercepted /\ name \in DOMAIN s.env ->
         IF s.env[name].v.t = "Closure" /\ s.env[name].kind = "let"
         THEN Apply1(s, s.env[name].v, args) ELSE Fail(s)
    [] name \in DOMAIN Functions ->
         IF Functions[name].mutating THEN Fail(s)
         ELSE Invoke(s, name, <<>>, args)
    [] OTHER -> IF IsNominal(name) THEN Construct(s, name, args) ELSE Fail(s)

\* base.method(args), the base a type, a variable or a value.
CallMember(s, v, callee, args) ==
  LET base == callee.es[1]
      m == callee.name
      fn == FnOf(v.t, m)
      var == base.k = "name" /\ base.name \in DOMAIN s.env
  IN IF IsType(base)
     THEN IF HasA(base.name, m, "static")
          THEN Invoke(s, FnOf(base.name, m), <<>>, args)
          ELSE Give(s, HasA(base.name, m, "payload") /\ Len(args) = 1
                       /\ args[1].v.t = "Int", CaseOf(base.name, m, args))
     ELSE IF v.t = "String" THEN TextMethod(s, v, m, args)
     ELSE IF v.t \in {"List", "Dict", "Set"} /\ var
     THEN CollectionMethod(s, base.name, m, args)
     ELSE IF Kind(v.t) = "pointer" /\ var /\ m = "deallocate"
     THEN Give([s EXCEPT !.env[base.name].v = VoidV], args = <<>>, VoidV)
     ELSE IF ~HasA(v.t, m, "method") THEN Fail(s)
     ELSE IF ~Functions[fn].mutating THEN Invoke(s, fn, <<v>>, args)
     ELSE IF var THEN Bump(s, fn, base.name, args) ELSE Fail(s)

\* f(&x, ...): the function changes the variable.
CallInout(s, e) ==
  Then(EvalAll(s, [i \in 1..Len(e.args) - 1 |-> e.args[i + 1].e]),
       LAMBDA rest :
  LET args == [i \in DOMAIN rest.vs |-> [label |-> e.args[i + 1].label,
                                        v |-> rest.vs[i]]]
      fn == e.callee.name
      params == Functions[fn].params
      name == e.args[1].e.name
      self == s.env[name].v
      n == self.parts[1].n + args[1].v.n
  IN IF \/ ~rest.s.ok \/ fn \notin DOMAIN Functions
        \/ name \notin DOMAIN s.env
     THEN Fail(s)
     ELSE IF \/ Len(params) # 2 \/ Len(args) # 1 \/ ~s.env[name].mutable
             \/ "&" \o self.t # params[1].type
             \/ e.args[1].label # params[1].label
             \/ args[1].label # params[2].label
             \/ args[1].v.t # params[2].type \/ ~IntFits(n)
     THEN Fail(s)
     ELSE R([Say(rest.s, fn, <<self, args[1].v>>) EXCEPT
               !.env[name].v.parts[1] = IntV(n)], VoidV))

CallOf(s, e) ==
  LET base == e.callee.es[1]
  IN Then(IF e.callee.k = "member" /\ ~IsType(base) THEN Eval(s, base)
          ELSE R(s, VoidV), LAMBDA v :
     Then(EvalAll(v.s, [i \in DOMAIN e.args |-> e.args[i].e]), LAMBDA all :
     LET args == [i \in DOMAIN e.args |-> [label |-> e.args[i].label,
                                          v |-> all.vs[i]]]
     IN IF e.args # <<>> /\ e.args[1].e.k = "addr" THEN CallInout(s, e)
        ELSE IF ~v.s.ok \/ ~all.s.ok THEN Fail(s)
        ELSE IF e.callee.k = "name"
        THEN CallNamed(all.s, e.callee.name, e.elem, args)
        ELSE IF e.callee.k = "member" THEN CallMember(all.s, v.v, e.callee, args)
        ELSE Fail(s)))

\* A closure keeps the captured values; to change a captured variable later
\* is not as Swift, and the variable is a constant from here on.
ClosureOf(s, e) ==
  LET outer == SelectSeq(e.names, LAMBDA n : \A i \in DOMAIN e.params :
                                               e.params[i] # n)
  IN Then(FoldLeft(LAMBDA seen, n : IF \E i \in DOMAIN seen : seen[i] = n
                                    THEN seen ELSE Append(seen, n),
                   <<>>, outer), LAMBDA kept :
     Then(e.params \o kept, LAMBDA all :
     LET index == [i \in DOMAIN e.names |-> CHOOSE j \in DOMAIN all :
                                              all[j] = e.names[i]]
     IN IF \E i \in DOMAIN kept : kept[i] \notin DOMAIN s.env THEN Fail(s)
        ELSE R([s EXCEPT !.env = [x \in DOMAIN @ |->
                                    IF \E i \in DOMAIN kept : kept[i] = x
                                    THEN [@[x] EXCEPT !.mutable = FALSE]
                                    ELSE @[x]]],
               [V("Closure", 0, <<>>, <<>>) EXCEPT !.fn =
                  <<Len(e.params),
                    [i \in DOMAIN index |-> index[i]],
                    [i \in DOMAIN kept |-> s.env[kept[i]].v]>>])))

\* Elements have one type; a dictionary's values are numbers.
Collection(s, e, vs) ==
  LET uniform(xs) == \A i \in DOMAIN xs : SameType(xs[i], xs[1])
  IN Then(Len(vs) \div 2, LAMBDA half :
     LET ks == [i \in 1..half |-> vs[2 * i - 1]]
         xs == [i \in 1..half |-> vs[2 * i]]
         different == \A i, j \in 1..half : i # j => At(<<ks[i]>>, ks[j]) = 0
     IN IF e.k = "array"
        THEN IF vs = <<>> THEN R(s, Of("List", <<"Int">>, <<>>))
             ELSE Give(s, uniform(vs), Of("Array", <<vs[1].t>>, vs))
        ELSE IF vs = <<>> THEN R(s, Of("Dict", <<"Int", "Int">>, <<>>))
        ELSE Give(s, uniform(ks) /\ uniform(xs) /\ different /\ xs[1].t = "Int",
                  Of("Dict", <<ks[1].t, xs[1].t>>,
                     [i \in 1..half |-> PairV(ks[i], xs[i])])))

Unwrapped(s, v) ==
  IF v.t \in DOMAIN Optionals THEN Give(s, v.n = 1, v.parts[1]) ELSE Fail(s)

\* x op= y: a variable is read, and written when y is known.
Compound(s, op, lhs, v) ==
  LET old == s.env[lhs.name]
  IN Then(Infix(s, Compounds[op], old.v, v), LAMBDA new :
     IF lhs.k # "name" \/ lhs.name \notin DOMAIN s.env THEN Fail(s)
     ELSE IF ~old.mutable \/ ~new.s.ok \/ old.v.t \notin {"Int", "Double"}
     THEN Fail(s)
     ELSE R(SetVar(s, lhs.name, new.v), VoidV))

EvalOperands(s, e, vs) ==
  CASE e.k = "infix" ->
         IF e.name = "??" THEN Default(s, vs[1], vs[2])
         ELSE IF e.name \in DOMAIN Compounds
         THEN Compound(s, e.name, e.es[1], vs[2])
         ELSE Infix(s, e.name, vs[1], vs[2])
    [] e.k = "prefix" -> Prefix1(s, e.name, vs[1])
    [] e.k = "postfix" -> Unwrapped(s, vs[1])
    [] e.k = "member" -> IF e.chain THEN Chain(s, vs[1], e.name)
                         ELSE Member(s, vs[1], e.name)
    [] e.k = "sub" -> Subscript(s, vs[1], vs[2])
    [] e.k \in {"array", "dict"} -> Collection(s, e, vs)
    [] e.k = "tuple" ->
         R(s, V(TupleTypeOf([i \in DOMAIN vs |-> vs[i].t]), 0, <<>>, vs))
    [] e.k = "is" -> R(s, BoolV(vs[1].t = e.name))
    [] e.k = "as" -> Give(s, vs[1].t = e.name, vs[1])
    [] e.k = "as?" -> Give(s, vs[1].t = e.name,
                           SomeV(OptionalOf(e.name), vs[1]))

Eval(s, e) ==
  Then(EvalAll(s, e.es), LAMBDA all :
  CASE e.k = "int" -> GiveInt(s, e.n)
    [] e.k = "float" -> R(s, DoubleV(e.n))
    [] e.k = "bool" -> R(s, V("Bool", e.n, <<>>, <<>>))
    [] e.k = "string" -> R(s, TextV(e.s))
    [] e.k = "interp" -> Interpolated(s, e.segs)
    [] e.k = "nil" -> R(s, NilV)
    [] e.k = "name" -> IF e.name \in DOMAIN s.env
                       THEN R(s, s.env[e.name].v) ELSE Fail(s)
    [] e.k = "addr" -> Fail(s)
    [] e.k = "call" -> CallOf(s, e)
    [] e.k = "closure" -> ClosureOf(s, e)
    [] e.k = "member" /\ IsType(e.es[1]) ->
         Give(s, HasA(e.es[1].name, e.name, "case"),
              CaseOf(e.es[1].name, e.name, <<>>))
    [] OTHER -> IF ~all.s.ok THEN Fail(s)
                ELSE EvalOperands(all.s, e, all.vs))

-----------------------------------------------------------------------------
(* Statements. *)

\* T is taken for T?, and nil for any T?.
Coerced(s, v, type) ==
  CASE type = "" -> Give(s, v.t # "nil", v)
    [] type \in DOMAIN Optionals ->
         IF v.t = "nil" THEN R(s, NoneV(type))
         ELSE IF v.t = type THEN R(s, v)
         ELSE Give(s, v.t = Optionals[type], SomeV(type, v))
    [] type \in DOMAIN DictTypes ->
         Give(s, v.t = "Dict" /\ (v.parts = <<>> \/ v.of = DictTypes[type]),
              [v EXCEPT !.of = DictTypes[type]])
    [] OTHER -> Give(s, v.t = type, v)

\* A second name for a collection or a pointer is not as Swift, nor is a
\* constant dictionary, set or dynamic array, nor a second closure.
Shared(st, v) ==
  \/ /\ st.e.k = "name"
     /\ \/ v.t \in {"Array", "List", "Dict", "Set", "Closure"}
        \/ Kind(v.t) = "pointer"
  \/ st.k = "let" /\ v.t \in {"List", "Dict", "Set"}

Bound(s, name, v, kind) ==
  IF name \in DOMAIN s.env THEN [s EXCEPT !.ok = FALSE]
  ELSE [s EXCEPT !.env = Put(@, name, [v |-> v, kind |-> kind,
                                       mutable |-> kind = "var"])]

RunDecl(s, st, x) ==
  Then(Coerced(s, x, st.type), LAMBDA y :
  IF ~y.s.ok \/ Shared(st, y.v) \/ y.v.t = "Void" THEN [s EXCEPT !.ok = FALSE]
  ELSE Bound(y.s, st.names[1], y.v, st.k))

RunTuple(s, st, x) ==
  LET kind == IF st.k = "let()" THEN "let" ELSE "var"
  IN IF Kind(x.t) # "tuple" THEN [s EXCEPT !.ok = FALSE]
     ELSE IF Len(x.parts) # Len(st.names) THEN [s EXCEPT !.ok = FALSE]
     ELSE FoldLeft(LAMBDA r, i : Bound(r, st.names[i], x.parts[i], kind),
                   s, [i \in DOMAIN st.names |-> i])

\* An element, a field, a pair or the whole of a variable is replaced.  To
\* write an element of a list made by [] is not as Swift, nor is a new
\* collection for a variable that has one.
Replaced(s, lhs, old, key, v) ==
  LET i == IF lhs.k = "member" /\ Kind(old.t) = "struct"
           THEN FieldIndex(old.t, lhs.name) ELSE 0
      at == At(Keys(old), key)
  IN CASE lhs.k = "name" ->
            Give(s, SameType(old, v) /\ old.t \notin {"Array", "List", "Dict",
                                                      "Set", "Closure"}, v)
       [] lhs.k = "member" ->
            Give(s, i # 0 /\ Types[old.t].fields[i].type = v.t,
                 [old EXCEPT !.parts[i] = v])
       [] lhs.k = "sub" /\ old.t = "Array" ->
            Give(s, /\ key.t = "Int" /\ key.n + 1 \in DOMAIN old.parts
                    /\ old.of = <<v.t>>, [old EXCEPT !.parts[key.n + 1] = v])
       [] lhs.k = "sub" /\ Kind(old.t) = "pointer" ->
            Give(s, /\ key.t = "Int" /\ key.n + 1 \in DOMAIN old.parts
                    /\ v.t = "Int", [old EXCEPT !.parts[key.n + 1] = v])
       [] lhs.k = "sub" /\ old.t = "Dict" ->
            Give(s, <<key.t, v.t>> = old.of,
                 IF at = 0 THEN [old EXCEPT !.parts = Append(@, PairV(key, v))]
                 ELSE [old EXCEPT !.parts[at] = PairV(key, v)])
       [] OTHER -> Fail(s)

\* A computed property with a setter is set by calling it.
Setter(s, lhs) ==
  LET t == s.env[lhs.es[1].name].v.t
  IN IF lhs.k = "member" /\ HasA(t, lhs.name \o ".set", "method")
     THEN FnOf(t, lhs.name \o ".set") ELSE ""

\* key is the value of the index, x that of the right side.
RunAssign(s, st, key, x) ==
  LET lhs == st.lhs
      name == IF lhs.k = "name" THEN lhs.name ELSE lhs.es[1].name
      var == s.env[name]
      set == Setter(s, lhs)
  IN Then(Replaced(s, lhs, var.v, key, x), LAMBDA new :
     IF name \notin DOMAIN s.env THEN [s EXCEPT !.ok = FALSE]
     ELSE IF ~var.mutable /\ Kind(var.v.t) # "pointer"
     THEN [s EXCEPT !.ok = FALSE]
     ELSE IF set # "" THEN Bump(s, set, name, <<[label |-> "", v |-> x]>>).s
     ELSE IF ~new.s.ok THEN new.s
     ELSE SetVar(s, name, new.v))

\* The index of an assignment to an element comes before the right side.
OperandsOf(st) == IF st.k = "assign" /\ st.lhs.k = "sub"
                  THEN <<st.lhs.es[2], st.e>> ELSE <<st.e>>

Run(s, st) ==
  IF ~s.ok THEN s
  ELSE Then(EvalAll(s, OperandsOf(st)), LAMBDA all :
       CASE ~all.s.ok -> [s EXCEPT !.ok = FALSE]
         [] st.k \in {"let", "var"} -> RunDecl(all.s, st, all.vs[1])
         [] st.k \in {"let()", "var()"} -> RunTuple(all.s, st, all.vs[1])
         [] st.k = "assign" -> RunAssign(all.s, st, all.vs[1], Last(all.vs))
         [] st.k = "expr" -> all.s)

Meaning(program) == FoldLeft(Run, Start, program)
=============================================================================
