--------------------------- MODULE MCControlFlow ---------------------------
(* Bodies built from the statements, one and two levels deep. *)
EXTENDS ControlFlow

A(n) == [k |-> "act", f |-> n]
T(n) == [k |-> "test", f |-> n]
I(n) == [k |-> "int", n |-> n]
Maybe(n) == [k |-> "maybe", f |-> n]
Var(x) == [k |-> "name", name |-> x]
Show(e) == [k |-> "show", x |-> e]
Not(e) == [k |-> "not", x |-> e]
And(l, r) == [k |-> "and", l |-> l, r |-> r]
Or(l, r) == [k |-> "or", l |-> l, r |-> r]
Tern(c, t, f) == [k |-> "tern", c |-> c, t |-> t, f |-> f]
Try(n) == [k |-> "try", x |-> [k |-> "may", f |-> n]]
Rng(lo, op, hi) == [k |-> "range", lo |-> I(lo), hi |-> I(hi), op |-> op]

Ret(n) == [k |-> "return", x |-> I(n)]
Throw == [k |-> "throw", x |-> I(3)]
Break == [k |-> "break"]
Continue == [k |-> "continue"]
Defer(b) == [k |-> "defer", body |-> b]
IfS(b) == [k |-> "if", then |-> b, else |-> NoNode]
IfElse(b, e) == [k |-> "if", then |-> b, else |-> [k |-> "block", body |-> e]]
ElseIf(b, c, s) == [k |-> "if", then |-> b,
                    else |-> [k |-> "elseif", cond |-> c, if |-> s]]
While(b) == [k |-> "while", body |-> b]
Guard(b) == [k |-> "guard", else |-> b]
Repeat(b, x) == [k |-> "repeat", body |-> b, x |-> x]
For(v, seq, w, b) == [k |-> "for", name |-> v, seq |-> seq, where |-> w,
                      body |-> b]
Do(b, c) == [k |-> "do", body |-> b, catches |-> <<c>>]
Let(x, n) == [k |-> "let", name |-> x, n |-> n]
Bound(x, n) == <<[k |-> "ident", name |-> x],
                 [k |-> "bind", x |-> Maybe(n)]>>
Arm(label, pats, body) ==
  [label |-> label, patterns |-> pats, case |-> 0, name |-> "v",
   cond |-> NoNode, body |-> body]
CaseOf(n, body) == [Arm("case", <<>>, body) EXCEPT !.case = n]
WhereArm(c, body) == [Arm("where", <<>>, body) EXCEPT !.cond = c]
Switch(x, arms) == [k |-> "switch", x |-> x, arms |-> arms]
Pick == [k |-> "pick", f |-> 20]
Enum == [k |-> "enum", f |-> 21]

\* The concatenation of the sequences, all as long as the first, that F makes
\* of the elements of s.
Each(F(_), s) ==
  LET parts == [i \in DOMAIN s |-> F(s[i])]
      n == Len(parts[1])
  IN [k \in 1..(n * Len(s)) |-> parts[((k - 1) \div n) + 1][((k - 1) % n) + 1]]
Map(F(_), s) == [i \in DOMAIN s |-> F(s[i])]

Exprs == <<T(1), Not(T(1)), And(T(1), T(2)), Or(T(1), T(2)),
           And(Or(T(1), T(2)), Not(T(3))), Or(T(1), And(T(2), T(3))),
           Tern(T(1), T(2), T(3)), Not(And(T(1), Or(T(2), T(3))))>>

\* A body inside a branch or a loop that is left at its end.
Plain(n) ==
  <<<<A(n)>>, <<T(n), IfS(<<A(n)>>)>>,
    <<T(n), IfElse(<<A(n)>>, <<A(n + 1)>>)>>,
    <<T(n), ElseIf(<<A(n)>>, T(n + 1), IfElse(<<A(n + 1)>>, <<Ret(n)>>)),
      A(n + 2)>>,
    <<T(n), Guard(<<A(n), Ret(n)>>), A(n + 1)>>,
    Bound("p", n) \o <<IfS(<<Show(Var("p"))>>), A(n)>>>>

\* A body that leaves or restarts the loop around it.
Leaving(n) ==
  <<<<T(n), IfS(<<Break>>), A(n)>>,
    <<T(n), IfS(<<A(n), Continue>>), A(n + 1)>>,
    <<T(n), IfElse(<<Break>>, <<Continue>>)>>,
    <<T(n), Guard(<<Continue>>), T(n + 1), Guard(<<Break>>), A(n)>>,
    <<T(n), IfS(<<Ret(n)>>), A(n)>>>>

\* No break leaves a body that defers: see the README.
DeferringBodies(n) ==
  <<<<Defer(<<A(n)>>), Defer(<<A(n + 1)>>), A(n + 2)>>,
    <<Defer(<<A(n)>>), T(n), IfS(<<Ret(n)>>), A(n + 2)>>>>

\* Loops that keep the deferred blocks of their body.
Loops(v, n, b) ==
  <<<<T(n), While(b)>>,
    Bound(v, n) \o <<While(<<Show(Var(v))>> \o b)>>,
    <<For(v, Rng(0, "..<", 2), NoNode, <<Show(Var(v))>> \o b)>>,
    <<For(v, Rng(1, "...", 2), T(n), b)>>,
    <<Let("xs", 2), For(v, Var("xs"), NoNode, <<Show(Var(v))>> \o b)>>>>

MoreLoops(v, n, b) ==
  <<<<Repeat(b, T(n))>>,
    <<For(v, [k |-> "generator", of |-> A(n), f |-> n], NoNode,
          <<Show(Var(v))>> \o b)>>>>

Branching(b) ==
  Map(LAMBDA e : <<e, IfS(b)>>, Exprs) \o
  <<<<T(1), IfElse(<<A(1)>>, b)>>, <<T(1), ElseIf(b, T(2), IfS(<<A(2)>>))>>,
    Bound("o", 1) \o <<IfElse(b, <<A(1)>>)>>>>

Fall(b) == IF Last(b).k = "return" THEN b
           ELSE b \o <<[k |-> "fallthrough"]>>
Switches(b) ==
  <<<<Switch(Pick, <<Arm("values", <<I(0)>>, b),
                     Arm("values", <<I(1), I(2)>>, <<A(1)>>)>>)>>,
    <<Switch(Pick, <<Arm("values", <<I(0)>>, Fall(b)),
                     Arm("values", <<Rng(0, "..<", 2)>>, <<A(1)>>),
                     Arm("default", <<>>, <<A(2)>>)>>)>>,
    <<Switch(Pick, <<Arm("values", <<Rng(1, "...", 2)>>, Fall(b)),
                     Arm("default", <<>>, b)>>)>>,
    <<Switch(Pick, <<WhereArm(T(1), b), WhereArm(Or(T(2), T(3)), <<A(1)>>),
                     Arm("default", <<>>, <<Ret(1)>>)>>)>>,
    <<Switch(Enum, <<CaseOf(0, <<Show(Var("v"))>> \o b),
                     CaseOf(1, <<Show(Var("v")), Ret(2)>>)>>)>>>>

SwitchBodies ==
  <<<<A(30)>>, <<A(30), Ret(3)>>,
    <<For("j", Rng(0, "..<", 2), NoNode, <<A(30)>>)>>,
    <<Repeat(<<A(30)>>, T(30))>>, <<Show(Tern(T(30), I(1), I(2)))>>>>

Doing(b) ==
  <<<<Do(<<Show(Try(50)), A(50)>> \o b, <<A(51), Ret(5)>>)>>,
    <<Do(<<A(50)>> \o b \o <<Show(Try(50)), Show(Try(51))>>,
         <<A(52), Ret(5)>>)>>>>

Defers == <<<<Defer(<<A(60)>>), Defer(<<A(61), A(62)>>)>>,
            <<Defer(<<T(60), IfS(<<A(60)>>)>>), A(61)>>>>

Shallow == Each(LAMBDA b : Loops("i", 10, b),
                Plain(40) \o Leaving(40) \o DeferringBodies(40)) \o
           Each(LAMBDA b : MoreLoops("i", 10, b), Plain(40) \o Leaving(40))
Nested == Each(LAMBDA b : Loops("i", 10, b \o <<A(13)>>),
               Each(LAMBDA b : Loops("j", 20, b),
                    <<<<A(41)>>>> \o Leaving(40)))
Branches == Each(Branching, Plain(40) \o <<<<A(40), Ret(4)>>>>) \o
            Map(LAMBDA b : <<T(1), IfElse(b, <<A(1)>>)>>, Shallow)
InLoops == Each(LAMBDA b : Loops("i", 10, b \o <<A(11)>>),
                Each(Switches, SwitchBodies) \o
                Each(Doing, <<<<>>, <<A(53)>>>>) \o
                Map(LAMBDA e : <<Show(e)>>, Exprs))
TopLevel == Each(Switches, SwitchBodies) \o Each(Doing, Shallow) \o
            Map(LAMBDA e : <<Show(e)>>, Exprs) \o
            <<<<T(1), Guard(<<A(1), Throw>>)>>,
              <<And(T(1), T(2)), Guard(<<A(1), Throw>>)>>>>
\* Nor does a return leave a loop of a function that defers.
Deferred == Each(LAMBDA d : Map(LAMBDA b : d \o b,
                   <<<<A(70)>>, <<T(70), IfS(<<A(70), Ret(7)>>)>>,
                     <<T(70), IfElse(<<Ret(7)>>, <<Ret(8)>>)>>>> \o
                   Loops("i", 10, <<T(40), IfS(<<Break>>), A(40)>>) \o
                   Loops("i", 10, DeferringBodies(40)[1]) \o
                   Each(Switches, SwitchBodies)), Defers)

\* What the interpreter supports.
ComptimeLoops(b) ==
  <<<<T(10), While(b)>>, <<For("i", Rng(0, "..<", 2), NoNode, b)>>,
    <<For("i", Rng(1, "...", 2), NoNode, <<Show(Var("i"))>> \o b)>>>>
ComptimeBodies ==
  <<<<A(40)>>, <<T(40), IfS(<<A(40)>>)>>, <<T(40), IfS(<<Ret(4)>>), A(40)>>,
    <<T(40), IfElse(<<A(40), Ret(4)>>, <<A(41)>>), A(42)>>,
    <<Not(T(40)), IfElse(<<A(40)>>, <<T(41), IfS(<<A(41), Ret(4)>>)>>)>>,
    <<Show(Tern(T(40), I(1), I(2)))>>>>
Comptimes ==
  ComptimeBodies \o Each(ComptimeLoops, ComptimeBodies) \o
  Each(LAMBDA b : ComptimeLoops(<<T(20), While(b), A(12)>>), ComptimeBodies)

Ending(b) == b \o <<A(90), Ret(9)>>
MCPrograms == Map(Ending, Comptimes \o Shallow \o Nested \o Branches
                          \o InLoops \o TopLevel \o Deferred)
MCForComptime == 1..Len(Comptimes)
=============================================================================
