--------------------------- MODULE StatementMeaning ---------------------------
(***************************************************************************)
(* What the statements of a function body mean: a structured walk over the *)
(* same trees that Statements turns into blocks, with no block, branch or  *)
(* instruction in it.  It is the reference the compiled code is compared   *)
(* with, and models no code.  The walk is given the answers of the calls;  *)
(* its state holds those left, what was done, the names, the pending error *)
(* and how the walk goes on: "next", or the way the statement was left, or *)
(* "stuck" when an answer is missing.                                      *)
(***************************************************************************)
EXTENDS Statements

Start(answers) == [left |-> answers, done |-> <<>>, env |-> <<>>,
                   error |-> FALSE, defers |-> <<>>, ctl |-> "next"]

Goes(m) == m.ctl = "next"
Leave(m, ctl) == IF Goes(m) THEN [m EXCEPT !.ctl = ctl] ELSE m
Note(m, event) == [m EXCEPT !.done = Append(@, event)]
Name(m, name, v) ==
  [m EXCEPT !.env = [n \in DOMAIN @ \cup {name} |->
                       IF n = name THEN v ELSE @[n]]]

RECURSIVE Value(_, _), Block(_, _), Means(_, _, _, _), Repeated(_, _, _, _),
          Counted(_, _, _, _), Fed(_, _), Again(_, _), Arms(_, _, _)

Ask1(m, e) ==
  Then(Note(m, <<e.k, e.f, Head(m.left)>>), LAMBDA d :
  IF m.left = <<>> THEN [m |-> Leave(m, "stuck"), v |-> FALSE]
  ELSE [m |-> [d EXCEPT !.left = Tail(@),
                        !.error = @ \/ (e.k = "may" /\ Head(m.left))],
        v |-> Head(m.left)])

\* The value of an expression; && and || skip what does not matter.
Value(m, e) ==
  LET x == Value(m, e.x)
      l == Value(m, e.l)
      c == Value(m, e.c)
  IN CASE ~Goes(m) -> [m |-> m, v |-> FALSE]
       [] e.k = "act" -> [m |-> Note(m, <<"act", e.f>>), v |-> 0]
       [] e.k \in Calls \ {"act"} -> Ask1(m, e)
       [] e.k = "int" -> [m |-> m, v |-> e.n]
       [] e.k = "name" -> [m |-> m, v |-> m.env[e.name]]
       [] e.k = "show" -> IF Goes(x.m)
                          THEN [m |-> Note(x.m, <<"show", x.v>>), v |-> 0]
                          ELSE x
       [] e.k = "not" -> [m |-> x.m, v |-> ~x.v]
       [] e.k = "and" -> IF Goes(l.m) /\ l.v THEN Value(l.m, e.r) ELSE l
       [] e.k = "or" -> IF Goes(l.m) /\ ~l.v THEN Value(l.m, e.r) ELSE l
       [] e.k = "tern" -> IF ~Goes(c.m) THEN c
                          ELSE Value(c.m, IF c.v THEN e.t ELSE e.f)
       [] e.k = "try" -> IF x.m.error THEN [m |-> Leave(x.m, "caught"),
                                            v |-> x.v] ELSE x

Test(m, cond, name) ==
  Then(Value(m, cond.x), LAMBDA opt :
  LET x == Value(m, cond)
  IN IF cond.k # "bind" THEN x
     ELSE IF Goes(opt.m) /\ opt.v[1]
          THEN [m |-> Name(opt.m, name, opt.v[2]), v |-> TRUE]
          ELSE [m |-> opt.m, v |-> FALSE])

\* A scope ends, however it is left, with its deferred blocks, last first.
Scoped(m, body) ==
  Then(Block([m EXCEPT !.defers = <<>>], body), LAMBDA b :
  Then(FoldLeft(Block, [b EXCEPT !.ctl = "next"], Reverse(b.defers)),
       LAMBDA d :
  IF b.ctl = "stuck" THEN b
  ELSE [d EXCEPT !.ctl = IF @ = "next" THEN b.ctl ELSE @,
                 !.defers = m.defers]))

\* After the body of a loop: does the loop go on, and how does it end?
LoopGoes(m) == m.ctl \in {"next", "continue"}
Looped(m) == [m EXCEPT !.ctl = IF @ \in {"break", "continue"} THEN "next"
                               ELSE @]

Repeated(m, s, cond, name) ==
  Then(Test(m, cond, name), LAMBDA t :
  LET b == Scoped(t.m, s.body)
  IN IF ~Goes(t.m) \/ ~t.v THEN t.m
     ELSE IF LoopGoes(b) THEN Repeated(Looped(b), s, cond, name)
     ELSE Looped(b))

Counted(m, s, i, last) ==
  LET d == Name(m, s.name, i)
  IN Then(Value(d, s.where), LAMBDA w :
     LET b == IF s.where.k = "none" THEN Scoped(d, s.body)
              ELSE IF Goes(w.m) /\ w.v THEN Scoped(w.m, s.body) ELSE w.m
     IN IF i > last THEN m
        ELSE IF LoopGoes(b) THEN Counted(Looped(b), s, i + 1, last)
        ELSE Looped(b))

Fed(m, s) ==
  Then(Ask1(m, [k |-> "maybe", f |-> s.seq.f]), LAMBDA x :
  LET b == Block(Name(x.m, s.name, x.v[2]), s.body)
  IN IF ~Goes(x.m) \/ ~x.v[1] THEN x.m
     ELSE IF LoopGoes(b) THEN Fed(Looped(b), s) ELSE Looped(b))

Again(m, s) ==
  LET b == Block(m, s.body)
  IN Then(Value(Looped(b), s.x), LAMBDA t :
     IF ~LoopGoes(b) THEN Looped(b)
     ELSE IF Goes(t.m) /\ t.v THEN Again(t.m, s) ELSE t.m)

Within(p, v) == IF p.k # "range" THEN p.n = v
                ELSE /\ p.lo.n <= v
                     /\ IF p.op = "..." THEN v <= p.hi.n ELSE v < p.hi.n

\* The first arm that matches runs; fallthrough enters the next.
Arms(m, arms, v) ==
  LET arm == Head(arms)
  IN Then(Value(Name(m, arm.name, v), arm.cond), LAMBDA w :
     LET hit == CASE arm.label = "default" -> TRUE
                  [] arm.label = "values" ->
                       \E i \in 1..Len(arm.patterns) : Within(arm.patterns[i], v)
                  [] arm.label = "case" -> v[1] = arm.case
                  [] arm.label = "where" -> Goes(w.m) /\ w.v
         d == CASE arm.label = "where" -> w.m
                [] arm.label = "case" /\ hit -> Name(m, arm.name, v[2])
                [] OTHER -> m
         b == Block(d, arm.body)
     IN IF arms = <<>> \/ ~Goes(m) THEN m
        ELSE IF ~Goes(d) THEN d
        ELSE IF ~hit THEN Arms(d, Tail(arms), v)
        ELSE IF b.ctl # "fall" THEN b
        ELSE LET rest == [Head(Tail(arms)) EXCEPT !.label = "default"]
             IN Arms([b EXCEPT !.ctl = "next"], <<rest>> \o Tail(Tail(arms)), v))

Chosen(m, s, cond, name) ==
  Then(Test(m, cond, name), LAMBDA t :
  IF ~Goes(t.m) THEN t.m
  ELSE IF t.v THEN Block(t.m, s.then)
  ELSE CASE s.else.k = "none" -> t.m
         [] s.else.k = "block" -> Block(t.m, s.else.body)
         [] s.else.k = "elseif" -> Means(t.m, s.else.if, s.else.cond, ""))

Means(m, s, cond, name) ==
  Then(Value(m, s.x), LAMBDA x :
  Then(Test(m, cond, name), LAMBDA t :
  LET lo == Value(m, s.seq.lo)
  IN Then(Value(lo.m, s.seq.hi), LAMBDA hi :
     LET of == Value(m, s.seq.of)
         body == Block(m, s.body)
     IN CASE s.k = "let" -> Name(m, s.name, s.n)
          [] s.k \in {"return", "throw"} -> Leave(x.m, s.k)
          [] s.k = "if" -> Chosen(m, s, cond, name)
          [] s.k = "while" -> Repeated(m, s, cond, name)
          [] s.k = "guard" -> IF Goes(t.m) /\ ~t.v THEN Block(t.m, s.else)
                              ELSE t.m
          [] s.k = "for" /\ s.seq.k = "range" ->
               Counted(hi.m, s, lo.v, IF s.seq.op = "..." THEN hi.v
                                      ELSE hi.v - 1)
          [] s.k = "for" /\ s.seq.k = "generator" -> Fed(of.m, s)
          [] s.k = "for" /\ s.seq.k = "name" ->
               Counted(m, s, 1, m.env[s.seq.name])
          [] s.k = "repeat" -> Again(m, s)
          [] s.k \in {"break", "continue"} -> Leave(m, s.k)
          [] s.k = "fallthrough" -> Leave(m, "fall")
          [] s.k = "switch" -> IF Goes(x.m) THEN Arms(x.m, s.arms, x.v) ELSE x.m
          [] s.k = "defer" -> [m EXCEPT !.defers = Append(@, s.body)]
          [] s.k = "do" -> IF body.ctl # "caught" THEN body
                           ELSE FoldLeft(Block, [body EXCEPT !.ctl = "next",
                                                             !.error = FALSE],
                                         s.catches))))

\* Statement by statement; a condition goes with the statement behind it.
Block(m, nodes) ==
  LET n == Head(nodes)
      IsTest == /\ n.k \in ExprKinds /\ Len(nodes) > 1
                /\ nodes[2].k \in {"if", "while", "guard"}
  IN IF nodes = <<>> \/ ~Goes(m) THEN m
     ELSE CASE n.k = "ident" ->
                 Block(Means(m, nodes[3], nodes[2], n.name),
                       SubSeq(nodes, 4, Len(nodes)))
            [] IsTest -> Block(Means(m, nodes[2], n, ""), Tail(Tail(nodes)))
            [] n.k \in ExprKinds /\ ~IsTest -> Block(Value(m, n).m,
                                                     Tail(nodes))
            [] OTHER -> Block(Means(m, n, NoNode, ""), Tail(nodes))

\* The function returns once its deferred blocks have run.
Meaning(nodes, answers) ==
  Then(Scoped(Start(answers), nodes), LAMBDA m :
  IF m.ctl \in {"return", "throw"} THEN Note(m, <<m.ctl>>) ELSE m)
===============================================================================
