------------------------------ MODULE MCParser ------------------------------
(***************************************************************************)
(* Files for the parser: one for every construct of the grammar, whole and *)
(* with one edit (cut off behind a token, a token left out or put in), and *)
(* every short sequence of operators.                                      *)
(***************************************************************************)
EXTENDS Parser

\* Words stand for tokens; "nl" puts the next token on a line of its own,
\* and "call(" and "at[" have no space in front.
Identifiers == {"a", "b", "f", "x", "T", "D"}
Contextual == {"get", "set", "willSet", "didSet", "mutating", "Generator"}
Glued == [w \in {"call(", "at[", "!!"} |->
            CASE w = "call(" -> "(" [] w = "at[" -> "[" [] OTHER -> "!"]
Spaced == {"+", "*", "&&", "||", "<<", "..<", "+=", ">"}
Literals == [w \in {"1", "s", "$0", "-"} |->
               CASE w = "1" -> "IntegerLiteral" [] w = "s" -> "StringLiteral"
                 [] w = "$0" -> "DollarIdent" [] OTHER -> "OperatorPrefix"]

Lex(w) ==
  CASE w \in Identifiers -> Token("Identifier", "", "spaced")
    [] w \in Contextual -> Token("Identifier", w, "spaced")
    [] w \in DOMAIN Glued -> Token(Glued[w], "", "glued")
    [] w \in Spaced -> Token("OperatorBinarySpaced", w, "spaced")
    [] w = "<" -> Token("OperatorBinaryUnspaced", w, "glued")
    [] w \in DOMAIN Literals -> Token(Literals[w], "", "spaced")
    [] OTHER -> Token(w, "", "spaced")

Words(ws) ==
  FoldLeft(LAMBDA s, w :
             IF w = "nl" THEN [s EXCEPT !.line = TRUE]
             ELSE [line |-> FALSE,
                   out |-> Append(s.out, IF s.line
                                         THEN [Lex(w) EXCEPT !.at = "line"]
                                         ELSE Lex(w))],
           [line |-> FALSE, out |-> <<>>], ws).out

Corpus == {
  <<"func", "f", "<", "T", ":", "D", ">", "(", "a", "x", ":", "inout", "T",
    ",", "b", ":", "[", "T", "]", "=", "1", ")", "throws", "async", "->",
    "T", "?", "where", "{", "return", "nl", "x", "}">>,
  <<"@", "a", "(", "s", ",", "b", ")", "public", "static", "nl", "func", "+",
    "(", "x", ":", "(", "T", ",", "T", ")", "->", "T", ")">>,
  <<"struct", "T", ":", "D", ",", "Self", "{", "let", "a", ":", "T", ";",
    "mutating", "func", "f", "(", ")", "{", "}", "}">>,
  <<"class", "T", "{", "deinit", "{", "}", "init", "?", "(", ")", "throws",
    "{", "f", "call(", "a", ":", "1", ")", "}", "}">>,
  <<"let", "x", ":", "[", "[", "[", "T", "]", ":", "[", "T", "]", "]", "]">>,
  <<"enum", "T", "{", "case", "a", "(", "T", ")", ",", "b", "=", "1", "nl",
    "func", "f", "(", ")", "}">>,
  <<"protocol", "D", ":", "T", "{", "var", "x", ":", "T", "{", "get", "set",
    "}", "}", "nl", "typealias", "T", "=", "[", "D", "]">>,
  <<"extension", "T", "where", "{", "subscript", "(", "x", ":", "T", ")",
    "->", "T", "{", "get", "{", "return", "x", "}", "set", "(", "a", ")",
    "{", "}", "}", "}">>,
  <<"var", "x", ":", "Generator", "<", "T", ">", "{", "willSet", "(", "a",
    ")", "{", "}", "didSet", "{", "}", "}", "nl", "import", "a", ".", "b">>,
  <<"if", "let", "x", "=", "a", ",", "b", "{", "break", "}", "else", "if",
    "a", "{", "}", "else", "{", "continue", "}">>,
  <<"guard", "a", "==", "1", "else", "{", "throw", "x", "}", "nl", "while",
    "x", "{", "yield", "1", "}", "nl", "repeat", "{", "}", "while", "a">>,
  <<"for", "(", "a", ",", "_", ")", "in", "x", "where", "a", "{", "defer",
    "{", "f", "call(", ")", "}", "}">>,
  <<"switch", "x", "{", "case", ".", "a", "(", "let", "b", ")", ",", "is",
    "T", "where", "b", ":", "fallthrough", "nl", "case", "1", ":", "f", "nl",
    "default", ":", "x", "}">>,
  <<"do", "{", "try", "f", "call(", ")", "}", "catch", "let", "x", "{", "}",
    "catch", "{", "await", "f", "}">>,
  <<"#if", "a", "nl", "x", "nl", "#else", "nl", "b", "nl", "#endif", "nl",
    "#warning", "(", "s", ")", "nl", "#assert", "(", "x", ",", "s", ")">>,
  <<"f", "call(", "{", "a", ",", "b", "in", "$0", "}", ")", "at[", "1",
    "]", ".", "x", "!!", "?", ".", "a">>,
  <<"let", "x", "=", "[", "a", ":", "(", "1", ",", "b", ")", ",", "b", ":",
    "[", ":", "]", "]", "as", "?", "[", "T", "]">>,
  <<"x", "=", "comptime", "a", "?", "-", "1", ":", "!", "b", "is", "T",
    "nl", "comptime", "func", "f", "(", ")">>,
  <<"x", "<", "T", "?", ",", "T", "&", "D", ">", ".", "a", "=", "try", "?",
    "T", "<", "(", ")", "->", "T", ">", "call(", "&", "x", ")">>}

Insertions == {"{", "}", ")", ",", ";", "a", "nl", "else", "private"}

Insert(ws, i) == {InsertAt(ws, i, w) : w \in Insertions}

Edited(ws) ==
  {ws} \cup {SubSeq(ws, 1, n) : n \in 1 .. Len(ws)}
    \cup {RemoveAt(ws, i) : i \in 1 .. Len(ws)}
    \cup UNION {Insert(ws, i) : i \in 1 .. Len(ws)}

(***************************************************************************)
(* Chains of operators: an operand, and three links behind it.             *)
(***************************************************************************)
Links ==
  {<<o, "a">> : o \in {"=", "+=", "||", "&&", "??", "==", "..<", "+", "*",
                      "<<"}}
    \cup {<<"?", "b", ":", "a">>, <<"as", "T">>, <<"+", "-", "a">>}

Chains == {h \o k \o l \o m : h \in {<<"a">>, <<"-", "a">>},
                              k \in Links, l \in Links, m \in Links}

MCSources ==
  {Words(ws) : ws \in UNION {Edited(c) : c \in Corpus}}
    \cup {Words(ws) : ws \in Chains}

(***************************************************************************)
(* What a chain means: it is split at an operator of the lowest            *)
(* precedence, the first of them if they associate to the right and else   *)
(* the last; `? :` is one operator around what it encloses.                *)
(***************************************************************************)

Infix(i, j) ==
  LET open(k) == Cardinality({m \in i .. k : tokens[m].kind = "?"})
      shut(k) == Cardinality({m \in i .. k : tokens[m].kind = ":"})
  IN {k \in i .. j : /\ GetBinaryPrecedence(tokens[k]) > 0
                     /\ k = i \/ open(k - 1) = shut(k - 1)}

ElseOf(k, j) ==
  LET balanced(m) == Cardinality({n \in k .. m : tokens[n].kind = "?"})
                     = Cardinality({n \in k .. m : tokens[n].kind = ":"})
  IN CHOOSE m \in (k + 1) .. j :
       balanced(m) /\ \A n \in (k + 1) .. (m - 1) : ~balanced(n)

SplitAt(i, j) ==
  LET level(k) == GetBinaryPrecedence(tokens[k])
      lowest == {k \in Infix(i, j) :
                   \A l \in Infix(i, j) : level(k) <= level(l)}
      last == Max(lowest)
  IN IF level(last) \in {Assignment, Ternary, NilCoalescing}
     THEN Min(lowest) ELSE last

Meaning ==
  LET G[i \in 1 .. Len(tokens), j \in 1 .. Len(tokens)] ==
        IF Infix(i, j) = {}
        THEN IF i = j THEN <<"IdentifierNameExpr">>
             ELSE Append(G[i + 1, j], "PrefixOperatorExpr")
        ELSE LET k == SplitAt(i, j)
                 e == ElseOf(k, j)
                 kind == tokens[k].kind
             IN G[i, k - 1] \o
                CASE kind = "?" -> G[k + 1, e - 1] \o G[e + 1, j]
                                     \o <<"TernaryExpr">>
                  [] kind = "as" -> <<"IdentifierType", "AsExpr">>
                  [] kind = "=" -> Append(G[k + 1, j], "AssignmentExpr")
                  [] OTHER -> Append(G[k + 1, j], "InfixOperatorExpr")
  IN G[2, Len(tokens) - 1]

ChainKinds == {"Identifier", "OperatorBinarySpaced", "OperatorPrefix", "=",
               "==", "?", ":", "??", "as"}

IsChain == /\ \A i \in 2 .. Len(tokens) - 1 : tokens[i].kind \in ChainKinds
           /\ Len(SelectSeq(tree, LAMBDA n : n = "ExprStatement")) = 1

\* The loop of ParseExprImpl over minimum precedences groups every chain of
\* operators as the precedences and the associativities say.
BindsByPrecedence ==
  Silent /\ IsChain =>
    tree = <<"FileStart">> \o Meaning \o <<"ExprStatement", "FileEnd">>
=============================================================================
