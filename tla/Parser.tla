------------------------------- MODULE Parser -------------------------------
(***************************************************************************)
(* The recursive descent parser (parse/parse*.cpp, parse/context.cpp) on   *)
(* the tokens of one file, behind the pairing of brackets that ends the    *)
(* lexer (MatchOpenCloseTokens), and before the reconstruction of the tree *)
(* from its list of nodes (ParseNodes).                                    *)
(*                                                                         *)
(* The stack of C++ calls is "code": the steps that are still to do, the   *)
(* innermost call first.  A parse function is an operator that, where the  *)
(* current token selects its branch, gives the steps of that branch; what  *)
(* it decides at a later token is a step of its own (Opt, While, Until).   *)
(* A node is its kind, without its token.                                  *)
(*                                                                         *)
(* A token has its kind (the fixed spelling, where there is one), the text *)
(* the parser looks at (of an operator or a contextual keyword), and where *)
(* it stands: right behind the token before it, behind a space, or first   *)
(* on its line.                                                            *)
(***************************************************************************)
EXTENDS ParseNodes, FiniteSets

CONSTANTS Sources,            \* the files: sequences of tokens
          kMaxTypeParseDepth

ASSUME DepthAssumption == kMaxTypeParseDepth \in Nat \ {0}

VARIABLES
  tokens,        \* the buffer, FileStart and FileEnd included
  closing,       \* closing_token_index, per opening symbol
  lexed,         \* no diagnostic of the pairing of brackets
  pos,           \* current_
  depth,         \* type_parse_depth_
  code,          \* the steps to do
  tree,          \* node_impls_
  errors,        \* has_errors of the tree
  strays,        \* a token was taken unseen for another one
  crossed,       \* a closing bracket was taken for another opening's
  subtrees,      \* the roots of the nodes indexed so far
  indexed,       \* number of nodes indexed
  outcome        \* "running", or how the parse ended

source == <<tokens, closing, lexed>>
index == <<subtrees, indexed>>
vars == <<tokens, closing, lexed, pos, depth, code, tree, errors, strays,
          crossed, subtrees, indexed, outcome>>

-----------------------------------------------------------------------------
(***************************************************************************)
(* The lexer's last step.                                                  *)
(***************************************************************************)

Pairs == [x \in {"(", "{", "["} |->
            CASE x = "(" -> ")" [] x = "{" -> "}" [] OTHER -> "]"]

Token(kind, text, at) == [kind |-> kind, text |-> text, at |-> at]

\* Mutant: a closing bracket ends the outermost opening of its kind.
MatchTokenOutermost(s, t) ==
  LET i == s.index + 1 IN
  IF t.kind \in DOMAIN Pairs
  THEN [s EXCEPT !.index = i, !.open = Append(@, i),
                 !.kinds = Append(@, t.kind)]
  ELSE IF t.kind \notin {")", "}", "]"} THEN [s EXCEPT !.index = i]
  ELSE IF s.open # <<>> /\ Pairs[Head(s.kinds)] = t.kind
  THEN [s EXCEPT !.index = i, !.open = Tail(@), !.kinds = Tail(@),
                 !.closing = (Head(s.open) :> i) @@ @]
  ELSE [s EXCEPT !.index = i, !.unmatched = TRUE]

\* One token against the stack of open brackets: match, or report.
MatchToken(s, t) ==
  LET i == s.index + 1 IN
  IF t.kind \in DOMAIN Pairs
  THEN [s EXCEPT !.index = i, !.open = Append(@, i),
                 !.kinds = Append(@, t.kind)]
  ELSE IF t.kind \notin {")", "}", "]"} THEN [s EXCEPT !.index = i]
  ELSE IF s.open # <<>> /\ Pairs[Last(s.kinds)] = t.kind
  THEN [s EXCEPT !.index = i, !.open = Front(@), !.kinds = Front(@),
                 !.closing = (Last(s.open) :> i) @@ @]
  ELSE [s EXCEPT !.index = i, !.unmatched = TRUE]

(***************************************************************************)
(* Every opening without a closing gets one, in order, behind the last     *)
(* token; FileEnd follows.  recovery_tokens_ is given its size by the      *)
(* first unmatched bracket: a recovery closing that is added when it has   *)
(* its size already is set outside of it.                                  *)
(***************************************************************************)
MatchOpenCloseTokens(file) ==
  LET start == <<Token("FileStart", "", "glued")>> \o file
      s == FoldLeft(MatchToken,
                    [index |-> 0, open |-> <<>>, kinds |-> <<>>,
                     closing |-> <<>>, unmatched |-> FALSE], start)
      n == Len(s.open)
      recovered == [i \in 1..n |-> Token(Pairs[s.kinds[i]], "", "glued")]
  IN [tokens |-> start \o recovered \o <<Token("FileEnd", "", "spaced")>>,
      closing |-> [o \in {s.open[i] : i \in 1..n} |->
                     Len(start) + CHOOSE i \in 1..n : s.open[i] = o]
                    @@ s.closing,
      clean |-> n = 0 /\ ~s.unmatched,
      outside |-> n + (IF s.unmatched THEN 1 ELSE 0) > 1]

-----------------------------------------------------------------------------
(***************************************************************************)
(* What the parser looks at.                                               *)
(***************************************************************************)

At(i) == IF i \in DOMAIN tokens THEN tokens[i] ELSE Token("none", "", "glued")
Peek == At(pos).kind
PeekNext == At(pos + 1).kind
GetTokenText == At(pos).text
AtStartOfLine == At(pos).at = "line"
HasLeadingWhitespace == At(pos).at # "glued"

AccessKinds == {"public", "private", "internal", "fileprivate"}

\* The keywords SkipToNextDecl stops at.
DeclKeywords ==
  {"let", "var", "func", "struct", "class", "enum", "protocol", "extension",
   "import", "typealias", "init", "deinit", "subscript", "static"}
    \cup AccessKinds

\* IsAtDeclStart of parse.cpp, at the top level of the file.
IsAtTopLevelDeclStart == Peek \in DeclKeywords \cup {"@"}

\* IsAtDeclStart of parse_stmt.cpp knows the contextual modifiers too.
IsAtDeclStart ==
  \/ Peek \in DeclKeywords \cup {"@"}
  \/ Peek = "Identifier" /\ GetTokenText = "mutating"
  \/ Peek = "comptime" /\ PeekNext = "func"

TypeNames == {"Identifier", "Any", "Self"}
BinaryKinds == {"OperatorBinarySpaced", "OperatorBinaryUnspaced"}
OperatorKinds == BinaryKinds \cup {"OperatorPrefix", "OperatorPostfix"}

OpensGenerics(i) == /\ At(i).kind \in {"OperatorBinaryUnspaced",
                                       "OperatorPrefix"}
                    /\ At(i).text = "<"

(***************************************************************************)
(* The steps a parse function is made of.                                  *)
(***************************************************************************)

Skip == [do |-> "consume", node |-> "none"]
Take(node) == [do |-> "consume", node |-> node]       \* Consume and AddNode
Hope(for, node) == [do |-> "hope", for |-> for, node |-> node]
Must(kind) == [do |-> "check", kind |-> kind, open |-> 0]
Shut(kind, open) == [do |-> "check", kind |-> kind, open |-> open]
Add(node) == [do |-> "add", node |-> node]
Fail == [do |-> "error"]
Leave == [do |-> "leave"]
SkipToDecl == [do |-> "sync"]
Either(on, this, that) == [do |-> "if", on |-> on, this |-> this,
                           that |-> that]
Opt(on, this) == Either(on, this, <<>>)
While(on, body) == [do |-> "while", on |-> on, body |-> body]
Until(stop, body) == [do |-> "until", stop |-> stop \cup {"FileEnd"},
                      body |-> body]
With(f, arg) == [do |-> "call", f |-> f, arg |-> arg]
Call(f) == With(f, 0)
Expr == With("ExprImpl", 1)

\* Items between commas; only the first form keeps the commas as nodes.
CommaList(item) == item \o <<While({","}, <<Take("PatternListComma")>>
                                            \o item)>>
SkippedCommas(item) == item \o <<While({","}, <<Skip>> \o item)>>

-----------------------------------------------------------------------------
(***************************************************************************)
(* Types (parse_type.cpp).                                                 *)
(***************************************************************************)

\* Whatever token follows the arguments is consumed as the `>`.
GenericArguments ==
  <<Take("GenericArgumentClauseStart")>> \o CommaList(<<Call("Type")>>)
    \o <<Hope(">", "GenericArgumentClause")>>

TypeAnnotation == <<Must(":"), Call("Type"), Add("TypeAnnotation")>>

\* Mutant: the early return forgets that it has not gone deeper.
TypeLeavesTwice ==
  IF depth >= kMaxTypeParseDepth
  THEN <<Fail, Add("InvalidParse"), Leave>>
  ELSE <<Call("PrimaryType"),
         While({"?", "!", "."}, <<Call("PostfixType")>>),
         Either({"->"}, <<Skip, Call("Type"), Add("FunctionType")>>,
           <<Opt({"&"}, <<Skip, Call("Type"),
                          Add("ProtocolCompositionType")>>)>>),
         Leave>>

Type ==
  IF depth >= kMaxTypeParseDepth
  THEN <<Fail, Add("InvalidParse")>>
  ELSE <<Call("PrimaryType"),
         While({"?", "!", "."}, <<Call("PostfixType")>>),
         Either({"->"}, <<Skip, Call("Type"), Add("FunctionType")>>,
           <<Opt({"&"}, <<Skip, Call("Type"),
                          Add("ProtocolCompositionType")>>)>>),
         Leave>>

PrimaryType ==
  CASE Peek = "inout" -> <<Take("InoutMarker"), Call("PrimaryType")>>
    [] Peek = "[" ->
         <<Skip, Call("Type"),
           Either({":"},
             <<Skip, Call("Type"), Shut("]", pos), Add("DictionaryType")>>,
             <<Shut("]", pos), Add("ArrayType")>>)>>
    [] Peek = "(" ->
         <<Skip, Either({")"}, <<>>, SkippedCommas(<<Call("Type")>>)),
           Shut(")", pos), Add("TupleType")>>
    [] Peek \in TypeNames ->
         IF GetTokenText = "Generator" /\ OpensGenerics(pos + 1)
         THEN <<Skip, Call("GenericArguments"), Add("GeneratorType")>>
         ELSE <<Take("IdentifierType")>>
                \o IF OpensGenerics(pos + 1)
                   THEN <<Call("GenericArguments")>> ELSE <<>>
    [] OTHER -> <<Fail, Add("InvalidParse")>>

\* One postfix; `Type.` without a member is taken silently.
PostfixType ==
  CASE Peek = "?" -> <<Take("OptionalType")>>
    [] Peek = "!" -> <<Take("ImplicitlyUnwrappedOptionalType")>>
    [] Peek = "." -> <<Skip, Opt({"Identifier", "Self"},
                          <<Take("IdentifierType"), Add("MemberType")>>)>>

\* A parameter's name is any token, and so is the closing `>`.
GenericParameterClause ==
  <<Take("GenericParameterClauseStart")>>
    \o CommaList(<<Hope("Identifier", "GenericParameter"),
                   Opt({":"}, <<Skip, Call("Type")>>)>>)
    \o <<Hope(">", "GenericParameterClause")>>

OptGenericParameters ==
  IF OpensGenerics(pos) THEN GenericParameterClause ELSE <<>>

\* Only the keyword: the requirements themselves are not parsed.
OptWhere == Opt({"where"}, <<Take("GenericWhereClause")>>)

-----------------------------------------------------------------------------
(***************************************************************************)
(* Patterns (parse_pattern.cpp).                                           *)
(***************************************************************************)

Pattern ==
  CASE Peek = "_" -> <<Take("WildcardPattern")>>
    [] Peek = "Identifier" ->
         <<Take("IdentifierPattern"), Opt({":"}, <<Call("TypeAnnotation")>>)>>
    [] Peek \in {"let", "var"} -> <<Skip, Call("Pattern")>>
    [] Peek = "is" ->
         <<Skip, Opt(TypeNames, <<Take("IdentifierType")>>), Add("IsPattern")>>
    [] Peek = "." ->
         <<Skip, Opt({"Identifier"}, <<Skip>>),
           Opt({"("}, <<Skip, Opt({"let", "var"}, <<Skip>>),
                        Opt({"Identifier"}, <<Skip>>),
                        Opt({")"}, <<Skip>>)>>),
           Add("EnumCasePattern")>>
    [] Peek = "(" ->
         <<Skip, Either({")"}, <<>>, SkippedCommas(<<Call("Pattern")>>)),
           Shut(")", pos), Add("TuplePattern")>>
    [] Peek \in {"FileEnd", "}"} -> <<Fail, Add("InvalidParse")>>
    [] OTHER -> <<Expr, Add("ExprPattern")>>

-----------------------------------------------------------------------------
(***************************************************************************)
(* Declarations (parse_decl.cpp).                                          *)
(***************************************************************************)

\* One modifier, and then the next.
Modifiers ==
  CASE Peek \in AccessKinds -> <<Take("AccessModifier"), Call("Modifiers")>>
    [] Peek = "static" -> <<Take("StaticModifier"), Call("Modifiers")>>
    [] Peek = "comptime" /\ PeekNext = "func" ->
         <<Take("ComptimeModifier"), Call("Modifiers")>>
    [] Peek = "Identifier" /\ GetTokenText = "mutating" ->
         <<Take("MutatingModifier"), Call("Modifiers")>>
    [] OTHER -> <<>>

\* Names and strings become nodes; the rest of the arguments is skipped.
Attribute ==
  <<Take("AttributeStart"),
    Opt({"Identifier"}, <<Take("IdentifierNameNotBeforeParams")>>),
    Opt({"("},
      <<Skip,
        Until({")"},
          <<Either({"StringLiteral"}, <<Take("StringLiteral")>>,
              <<Either({"Identifier"},
                  <<Take("IdentifierNameNotBeforeParams")>>, <<Skip>>)>>)>>),
        Skip>>),
    Add("Attribute")>>

InheritanceClause ==
  <<Take("InheritanceClauseStart")>>
    \o CommaList(<<Opt(TypeNames, <<Take("IdentifierType")>>)>>)
    \o <<Add("InheritanceClause")>>

\* `external internal: Type = default`, every part of it optional.
Param ==
  (IF Peek \notin {"Identifier", "_"} THEN <<>>
   ELSE IF PeekNext = "Identifier"
   THEN <<Take("ExternalParamName"), Take("IdentifierPattern")>>
   ELSE <<Take("IdentifierPattern")>>)
  \o <<Opt({":"}, <<Call("TypeAnnotation")>>), Opt({"="}, <<Skip, Expr>>),
       Add("FunctionParam")>>

ParamList ==
  <<Must("("), Add("ExplicitParamListStart"),
    Either({")"}, <<>>, CommaList(<<Call("Param")>>)),
    Shut(")", pos), Add("ExplicitParamList")>>

LetDecl ==
  <<Take("LetIntroducer"), Call("Pattern"),
    Opt({"="}, <<Skip, Expr, Add("LetInitializer")>>), Add("LetDecl")>>

VarDecl ==
  <<Take("VariableIntroducer"), Call("Pattern"),
    Opt({"="}, <<Skip, Expr, Add("VariableInitializer")>>),
    Opt({"{"}, <<Call("AccessorBlock")>>), Add("VariableDecl")>>

AccessorBody == Opt({"{"}, <<Call("CodeBlock")>>)

\* The `(newValue)` of an accessor, where there is one.
AccessorParam ==
  Opt({"("}, <<Skip, Opt({"Identifier"}, <<Skip>>), Shut(")", pos + 1)>>)

\* Without a keyword the block is the body of a getter.
Accessor ==
  CASE GetTokenText = "get" -> <<Skip, AccessorBody, Add("GetAccessor")>>
    [] GetTokenText = "set" ->
         <<Skip, AccessorParam, AccessorBody, Add("SetAccessor")>>
    [] GetTokenText = "willSet" ->
         <<Skip, AccessorParam, AccessorBody, Add("WillSetAccessor")>>
    [] GetTokenText = "didSet" ->
         <<Skip, AccessorParam, AccessorBody, Add("DidSetAccessor")>>
    [] OTHER -> <<Call("Statement")>>

AccessorBlock ==
  <<Take("AccessorBlockStart"), Until({"}"}, <<Call("Accessor")>>),
    Shut("}", pos), Add("AccessorBlock")>>

FuncDecl ==
  <<Take("FunctionIntroducer"),
    Either({"Identifier"} \cup OperatorKinds,
           <<Take("IdentifierNameBeforeParams")>>, <<Fail>>),
    Call("OptGenericParameters"), Opt({"("}, <<Call("ParamList")>>),
    Opt({"throws", "rethrows"}, <<Skip>>),
    Opt({"async"}, <<Take("AsyncModifier")>>),
    Opt({"->"}, <<Skip, Call("Type"), Add("ReturnType")>>), OptWhere,
    Either({"{"}, <<Add("FunctionDefinitionStart"), Call("CodeBlock"),
                    Add("FunctionDefinition")>>,
           <<Add("FunctionDecl")>>)>>

\* Semicolons are skipped before the closing brace is looked for.
MemberBlock ==
  <<Must("{"), Add("CodeBlockStart"),
    Until({"}"}, <<While({";"}, <<Skip>>),
                   Either({"}"}, <<>>, <<Call("Decl")>>)>>),
    Shut("}", pos), Add("CodeBlock")>>

DeclName == Either({"Identifier"}, <<Take("IdentifierNameNotBeforeParams")>>,
                   <<Fail>>)

\* The head of struct, class, protocol and enum; enum has no where clause.
TypeHead(introducer, generic) ==
  <<Take(introducer), DeclName>>
    \o (IF generic THEN <<Call("OptGenericParameters")>> ELSE <<>>)
    \o <<Opt({":"}, <<Call("InheritanceClause")>>)>>

TypeBody(start, definition) ==
  <<Add(start), Opt({"{"}, <<Call("MemberBlock"), Add(definition)>>)>>

StructDecl == TypeHead("StructIntroducer", TRUE) \o <<OptWhere>>
                \o TypeBody("StructDefinitionStart", "StructDefinition")

ClassDecl == TypeHead("ClassIntroducer", TRUE) \o <<OptWhere>>
               \o TypeBody("ClassDefinitionStart", "ClassDefinition")

\* The type of the payload is added before the name of the case.
EnumCaseElement ==
  LET named == Peek = "Identifier"
      i == IF named THEN pos + 1 ELSE pos
      typed == At(i).kind = "(" /\ At(i + 1).kind \in TypeNames
  IN (IF named THEN <<Skip>> ELSE <<>>)
     \o <<Opt({"("}, <<Skip, Opt(TypeNames, <<Skip>>), Opt({")"}, <<Skip>>)>>),
          Opt({"="}, <<Skip, Expr>>)>>
     \o (IF typed THEN <<Add("IdentifierType")>> ELSE <<>>)
     \o (IF named THEN <<Add("IdentifierNameNotBeforeParams")>> ELSE <<>>)
     \o <<Add("EnumCaseElement")>>

EnumMember ==
  Either({"case"},
    <<Take("EnumCaseIntroducer")>> \o CommaList(<<Call("EnumCaseElement")>>)
      \o <<Add("EnumCaseDecl")>>,
    <<Call("Decl")>>)

EnumBody ==
  <<Take("CodeBlockStart"), Until({"}"}, <<EnumMember>>),
    Shut("}", pos), Add("CodeBlock"), Add("EnumDefinition")>>

EnumDecl ==
  TypeHead("EnumIntroducer", TRUE)
    \o <<Add("EnumDefinitionStart"), Opt({"{"}, <<Call("EnumBody")>>)>>

ProtocolDecl ==
  TypeHead("ProtocolIntroducer", FALSE) \o <<OptWhere>>
    \o TypeBody("ProtocolDefinitionStart", "ProtocolDefinition")

ExtensionDecl ==
  <<Take("ExtensionIntroducer"),
    Opt({"Identifier"}, <<Take("IdentifierType")>>),
    Opt({":"}, <<Call("InheritanceClause")>>), OptWhere>>
    \o TypeBody("ExtensionDefinitionStart", "ExtensionDefinition")

ImportDecl ==
  LET name == Opt({"Identifier"}, <<Take("IdentifierNameNotBeforeParams")>>)
  IN <<Take("ImportIntroducer"),
       Opt({"Identifier"}, <<name, While({"."}, <<Skip, name>>)>>),
       Add("ImportDecl")>>

TypealiasDecl ==
  <<Take("TypealiasIntroducer"),
    Opt({"Identifier"}, <<Take("IdentifierNameNotBeforeParams")>>),
    Call("OptGenericParameters"),
    Opt({"="}, <<Skip, Either(TypeNames, <<Take("IdentifierType")>>,
                              <<Opt({"[", "("}, <<Expr>>)>>)>>),
    Add("TypealiasDecl")>>

InitDecl ==
  <<Take("InitIntroducer"), Opt({"?", "!"}, <<Skip>>),
    Call("OptGenericParameters"), Opt({"("}, <<Call("ParamList")>>),
    Opt({"throws"}, <<Skip>>), OptWhere, Add("InitDefinitionStart"),
    Opt({"{"}, <<Call("CodeBlock"), Add("InitDefinition")>>)>>

DeinitDecl ==
  <<Take("DeinitIntroducer"), AccessorBody, Add("DeinitDefinition")>>

\* Mutant: such a token is left for the loop of the body.
SubscriptAccessorStays ==
  IF GetTokenText \in {"get", "set"} THEN Accessor ELSE <<>>

\* A token that starts no accessor of a subscript is skipped silently.
SubscriptAccessor ==
  IF GetTokenText \in {"get", "set"} THEN Accessor
  ELSE <<Hope("nothing", "none")>>

SubscriptBody ==
  <<Take("AccessorBlockStart"), Until({"}"}, <<Call("SubscriptAccessor")>>),
    Shut("}", pos), Add("AccessorBlock"), Add("SubscriptDefinition")>>

SubscriptDecl ==
  <<Take("SubscriptIntroducer"), Call("OptGenericParameters"),
    Opt({"("}, <<Call("ParamList")>>),
    Opt({"->"}, <<Skip, Call("Type"), Add("ReturnType")>>),
    Add("SubscriptDefinitionStart"), Opt({"{"}, <<Call("SubscriptBody")>>)>>

Decl == <<While({"@"}, <<Call("Attribute")>>), Call("Modifiers"),
          Call("DeclKind")>>

DeclKind ==
  CASE Peek = "let" -> LetDecl [] Peek = "var" -> VarDecl
    [] Peek = "func" -> FuncDecl [] Peek = "struct" -> StructDecl
    [] Peek = "class" -> ClassDecl [] Peek = "enum" -> EnumDecl
    [] Peek = "protocol" -> ProtocolDecl
    [] Peek = "extension" -> ExtensionDecl
    [] Peek = "import" -> ImportDecl [] Peek = "typealias" -> TypealiasDecl
    [] Peek = "init" -> InitDecl [] Peek = "deinit" -> DeinitDecl
    [] Peek = "subscript" -> SubscriptDecl
    [] OTHER -> <<Fail, SkipToDecl>>

-----------------------------------------------------------------------------
(***************************************************************************)
(* Expressions (parse_expr.cpp).                                           *)
(***************************************************************************)

Assignment == 1
Ternary == 2
NilCoalescing == 5
Cast == 11
Prefix == 12

FixedPrecedence ==
  [x \in {"=", "==", "!=", "<=", ">=", "...", "&", "?", "??", "as", "is"} |->
     CASE x = "=" -> Assignment [] x = "?" -> Ternary
       [] x = "??" -> NilCoalescing [] x = "..." -> 7 [] x = "&" -> 8
       [] x \in {"as", "is"} -> Cast [] OTHER -> 6]

\* An operator that is in none of the groups binds like an addition.
OperatorPrecedence(text) ==
  CASE text \in {"+=", "-=", "*=", "/=", "%=", "&=", "|=", "^="} -> Assignment
    [] text = "||" -> 3 [] text = "&&" -> 4
    [] text = "??" -> NilCoalescing [] text \in {"<", ">"} -> 6
    [] text \in {"..<", "..."} -> 7
    [] text \in {"*", "/", "%"} -> 9 [] text \in {"<<", ">>"} -> 10
    [] OTHER -> 8

GetBinaryPrecedence(t) ==
  CASE t.kind \in DOMAIN FixedPrecedence -> FixedPrecedence[t.kind]
    [] t.kind \in BinaryKinds -> OperatorPrecedence(t.text)
    [] OTHER -> 0

\* `try`, `await` and `comptime` return without looking for an operator.
ExprImpl(min) ==
  CASE Peek = "try" /\ PeekNext = "?" ->
         <<Skip, Skip, With("ExprImpl", Prefix), Add("TryQuestionExpr")>>
    [] Peek = "try" /\ PeekNext = "!" ->
         <<Skip, Skip, With("ExprImpl", Prefix), Add("TryExclaimExpr")>>
    [] Peek = "try" /\ PeekNext \notin {"?", "!"} ->
         <<Skip, With("ExprImpl", Prefix), Add("TryExpr")>>
    [] Peek = "await" -> <<Skip, With("ExprImpl", Prefix), Add("AwaitExpr")>>
    [] Peek = "comptime" ->
         <<Skip, With("ExprImpl", Ternary), Add("ComptimeExpr")>>
    [] Peek = "&" -> <<Skip, With("ExprImpl", Prefix), Add("AddressOfExpr"),
                       With("Binary", min)>>
    [] Peek \in {"OperatorPrefix", "!"} ->
         <<Skip, With("ExprImpl", Prefix), Add("PrefixOperatorExpr"),
           With("Binary", min)>>
    [] OTHER -> <<Call("PrimaryExpr"), Call("PostfixExpr"),
                  With("Binary", min)>>

\* Mutant: `??` associates to the left.
NextMinLeft(prec) == IF prec = Assignment THEN prec ELSE prec + 1

\* Only the operators of these two groups are right-associative.
NextMin(prec) ==
  IF prec \in {Assignment, NilCoalescing} THEN prec ELSE prec + 1

\* One operator with its right operand, and then the next.
Binary(min) ==
  LET prec == GetBinaryPrecedence(At(pos)) IN
  IF prec < min \/ prec = 0 THEN <<>>
  ELSE (CASE Peek = "?" ->
               <<Skip, Expr, Must(":"), With("ExprImpl", Ternary),
                 Add("TernaryExpr")>>
          [] Peek = "=" ->
               <<Skip, With("ExprImpl", Assignment), Add("AssignmentExpr")>>
          [] Peek = "as" /\ PeekNext = "?" ->
               <<Skip, Skip, Call("CastType"), Add("AsQuestionExpr")>>
          [] Peek = "as" /\ PeekNext = "!" ->
               <<Skip, Skip, Call("CastType"), Add("AsExclaimExpr")>>
          [] Peek = "as" /\ PeekNext \notin {"?", "!"} ->
               <<Skip, Call("CastType"), Add("AsExpr")>>
          [] Peek = "is" -> <<Skip, Call("CastType"), Add("IsExpr")>>
          [] OTHER -> <<Skip, With("ExprImpl", NextMin(prec)),
                        Add("InfixOperatorExpr")>>)
       \o <<With("Binary", min)>>

Leaves ==
  [IntegerLiteral |-> "IntLiteral", FloatingLiteral |-> "FloatingLiteral",
   StringLiteral |-> "StringLiteral", true |-> "BoolLiteralTrue",
   false |-> "BoolLiteralFalse", nil |-> "NilLiteral",
   Identifier |-> "IdentifierNameExpr", self |-> "SelfExpr",
   super |-> "SuperExpr", DollarIdent |-> "DollarIdentExpr",
   Backslash |-> "KeyPathExpr", PoundFile |-> "PoundFileExpr",
   PoundLine |-> "PoundLineExpr", PoundColumn |-> "PoundColumnExpr",
   PoundFunction |-> "PoundFunctionExpr"]

\* Mutant: a tuple is looked for where the parenthesis is.
ParenOfTuple ==
  <<Take("ParenExprStart"), Expr,
    Either({","},
      <<While({","}, <<Take("PatternListComma"), Expr>>),
        Shut(")", pos), Add("ParenExpr")>>,
      <<Shut(")", pos), Add("ParenExpr")>>)>>

Paren ==
  <<Take("ParenExprStart"), Expr,
    Either({","},
      <<While({","}, <<Take("PatternListComma"), Expr>>),
        Shut(")", pos), Add("TupleExpr")>>,
      <<Shut(")", pos), Add("ParenExpr")>>)>>

\* A dictionary is recognised by a colon as the second token.
Bracket ==
  LET first == At(pos + 1).kind
      second == At(pos + 2).kind
      entry == <<Expr, Must(":"), Expr, Add("DictionaryExprEntry")>>
      dictionary == <<Shut("]", pos), Add("DictionaryExpr")>>
  IN CASE first = ":" /\ second = "]" ->
            <<Take("DictionaryExprStart"), Skip>> \o dictionary
       [] first # "]" /\ second = ":" ->
            <<Take("DictionaryExprStart")>> \o CommaList(entry) \o dictionary
       [] OTHER ->
            <<Take("ArrayExprStart"),
              Either({"]"}, <<>>, CommaList(<<Expr>>)),
              Shut("]", pos), Add("ArrayExpr")>>

\* Where the list `id, id, ...` that starts at i ends.
ParamsEnd(i) ==
  CHOOSE e \in i .. Len(tokens) :
    /\ \A k \in (i + 1) .. (e - 1) :
         At(k).kind = IF (k - i) % 2 = 1 THEN "," ELSE "Identifier"
    /\ At(e).kind # IF (e - i) % 2 = 1 THEN "," ELSE "Identifier"

\* Parameters are only parameters if `in` follows them.
Closure ==
  LET end == ParamsEnd(pos + 1)
      isIn == At(pos + 1).kind = "Identifier" /\ At(end).kind = "in"
  IN <<Take("ClosureExprStart")>>
     \o (IF isIn
         THEN <<Take("ClosureParam"),
                While({","}, <<Skip, Take("ClosureParam")>>),
                Take("ClosureSignature")>>
         ELSE <<>>)
     \o <<Until({"}"}, <<Call("Statement")>>), Shut("}", pos),
          Add("ClosureExpr")>>

PrimaryExpr ==
  CASE Peek \in DOMAIN Leaves -> <<Take(Leaves[Peek])>>
    [] Peek = "(" -> Paren
    [] Peek = "[" -> Bracket
    [] Peek = "{" -> Closure
    [] OTHER -> <<Fail, Take("InvalidParse")>>

Argument ==
  (IF Peek = "Identifier" /\ PeekNext = ":"
   THEN <<Take("ArgumentLabel"), Skip>> ELSE <<>>) \o <<Expr>>

\* One postfix, and then the next; `.` without a member leaves no node.
PostfixExpr ==
  LET next == <<Call("PostfixExpr")>> IN
  CASE Peek = "." /\ PeekNext = "Identifier" ->
         <<Skip, Take("IdentifierNameExpr"), Add("MemberAccessExpr")>> \o next
    [] Peek = "." /\ PeekNext = "IntegerLiteral" ->
         <<Skip, Take("IntLiteral"), Add("MemberAccessExpr")>> \o next
    [] Peek = "." /\ PeekNext = "self" ->
         <<Skip, Take("SelfExpr"), Add("MemberAccessExpr")>> \o next
    [] Peek = "." /\ PeekNext \notin {"Identifier", "IntegerLiteral", "self"} ->
         <<Skip>> \o next
    [] OpensGenerics(pos) ->
         <<Call("GenericArguments"), Opt({"."}, <<Add("GenericSpecExpr")>>)>>
           \o next
    [] Peek = "(" /\ ~HasLeadingWhitespace ->
         <<Take("CallExprStart"),
           Either({")"}, <<>>, CommaList(<<Call("Argument")>>)),
           Shut(")", pos), Add("CallExpr")>> \o next
    [] Peek = "[" /\ ~HasLeadingWhitespace ->
         <<Take("SubscriptExprStart"),
           Either({"]"}, <<>>, CommaList(<<Expr>>)),
           Shut("]", pos), Add("SubscriptExpr")>> \o next
    [] \/ Peek = "OperatorPostfix" /\ GetTokenText \in {"!", "?"}
       \/ Peek = "!" /\ ~HasLeadingWhitespace
       \/ Peek = "?" /\ PeekNext = "." ->
         <<Take("PostfixOperatorExpr")>> \o next
    [] OTHER -> <<>>

\* The simplified type of a cast; on anything else a token is consumed.
CastType ==
  CASE Peek \in TypeNames ->
         <<Take("IdentifierType"), While({"?"}, <<Take("OptionalType")>>)>>
    [] Peek = "[" ->
         <<Skip, Call("CastType"), Shut("]", pos), Add("ArrayType")>>
    [] OTHER -> <<Fail, Take("InvalidParse")>>

-----------------------------------------------------------------------------
(***************************************************************************)
(* Statements (parse_stmt.cpp).                                            *)
(***************************************************************************)

CodeBlock ==
  <<Must("{"), Add("CodeBlockStart"), Until({"}"}, <<Call("Statement")>>),
    Shut("}", pos), Add("CodeBlock")>>

ReturnStatement ==
  <<Take("ReturnStatementStart")>>
    \o (IF PeekNext \in {"FileEnd", "}"} \/ At(pos + 1).at = "line"
        THEN <<>> ELSE <<Expr>>)
    \o <<Add("ReturnStatement")>>

JumpStatement ==
  CASE Peek = "break" -> <<Take("BreakStatementStart"), Add("BreakStatement")>>
    [] Peek = "continue" ->
         <<Take("ContinueStatementStart"), Add("ContinueStatement")>>
    [] Peek = "throw" ->
         <<Take("ThrowStatementStart"), Expr, Add("ThrowStatement")>>
    [] Peek = "fallthrough" -> <<Take("FallthroughStatement")>>

ConditionList ==
  CommaList(
    <<Either({"let", "var"},
        <<Skip, Call("Pattern"), Opt({"="}, <<Skip, Expr>>),
          Add("OptionalBindingCondition")>>,
        <<Expr>>)>>)

IfStatement ==
  <<Skip>> \o ConditionList \o
  <<Add("IfCondition"), Call("CodeBlock"),
    Opt({"else"},
      <<Take("IfStatementElse"),
        Either({"if"}, <<Call("IfStatement")>>, <<Call("CodeBlock")>>)>>),
    Add("IfStatement")>>

GuardStatement ==
  <<Skip>> \o ConditionList \o
  <<Add("GuardCondition"), Must("else"), Add("GuardStatementElse"),
    Call("CodeBlock"), Add("GuardStatement")>>

WhileStatement ==
  <<Skip>> \o ConditionList \o
  <<Add("WhileCondition"), Call("CodeBlock"), Add("WhileStatement")>>

OptCaseWhere == Opt({"where"}, <<Skip, Expr>>)

ForInStatement ==
  <<Take("ForInIntroducer"), Call("Pattern"), Must("in"), Expr, OptCaseWhere,
    Call("CodeBlock"), Add("ForInStatement")>>

RepeatWhileStatement ==
  <<Skip, Call("CodeBlock"), Must("while"), Expr, Add("RepeatWhileStatement")>>

\* The body of a case; what is no case in a switch is skipped silently.
SwitchCase ==
  (CASE Peek = "case" ->
          <<Skip>> \o SkippedCommas(<<Call("Pattern")>>)
            \o <<OptCaseWhere, Must(":"), Add("SwitchCaseLabel")>>
     [] Peek = "default" -> <<Skip, Must(":"), Add("SwitchDefaultLabel")>>
     [] OTHER -> <<Hope("nothing", "none")>>)
  \o (IF Peek \in {"case", "default"}
      THEN <<Until({"case", "default", "}"}, <<Call("Statement")>>),
             Add("SwitchCaseBody")>>
      ELSE <<>>)

SwitchBody ==
  <<Must("{"), Until({"}"}, <<Call("SwitchCase")>>), Shut("}", pos)>>

SwitchStatement ==
  <<Take("SwitchIntroducer"), Expr, Call("SwitchBody"),
    Add("SwitchStatement")>>

DoStatement ==
  <<Take("DoIntroducer"), Call("CodeBlock"),
    While({"catch"},
      <<Skip, Either({"{"}, <<>>, <<Call("Pattern"), OptCaseWhere>>),
        Call("CodeBlock"), Add("DoCatchClause")>>),
    Add("DoStatement")>>

YieldStatement ==
  <<Take("YieldStatementStart"), Expr, Add("YieldStatement")>>

DeferStatement ==
  <<Take("DeferStatementStart"), Call("CodeBlock"), Add("DeferStatement")>>

\* Without an #endif the start stays without its PoundIfDecl.
PoundIf ==
  <<Take("PoundIfStart"),
    Opt({"Identifier", "true", "false"}, <<Take("IdentifierNameExpr")>>),
    Until({"#else", "#elseif", "#endif"}, <<Call("Statement")>>),
    Opt({"#else"}, <<Take("PoundElseDecl"),
                     Until({"#endif"}, <<Call("Statement")>>)>>),
    Opt({"#elseif"}, <<Take("PoundElseifDecl"), Opt({"Identifier"}, <<Skip>>),
                       Until({"#endif"}, <<Call("Statement")>>)>>),
    Opt({"#endif"}, <<Take("PoundIfDecl")>>)>>

PoundMessage(node) ==
  <<Skip, Opt({"("}, <<Skip, Opt({"StringLiteral"}, <<Take("StringLiteral")>>),
                       Opt({")"}, <<Skip>>)>>),
    Add(node)>>

PoundAssert ==
  <<Take("PoundAssertStart"),
    Opt({"("},
      <<Skip, Expr,
        Opt({","},
          <<Skip, Opt({"StringLiteral"}, <<Take("StringLiteral")>>)>>),
        Shut(")", pos + 1), Add("PoundAssertDecl")>>)>>

Statement == <<While({";"}, <<Skip>>), Call("StatementKind")>>

\* Behind semicolons even a closing brace is no statement, and is consumed.
StatementKind ==
  CASE IsAtDeclStart -> <<Call("Decl")>>
    [] Peek = "return" -> ReturnStatement
    [] Peek \in {"break", "continue", "throw", "fallthrough"} -> JumpStatement
    [] Peek = "if" -> IfStatement [] Peek = "guard" -> GuardStatement
    [] Peek = "while" -> WhileStatement [] Peek = "for" -> ForInStatement
    [] Peek = "repeat" -> RepeatWhileStatement
    [] Peek = "switch" -> SwitchStatement [] Peek = "do" -> DoStatement
    [] Peek = "defer" -> DeferStatement [] Peek = "yield" -> YieldStatement
    [] Peek = "#if" -> PoundIf
    [] Peek = "#warning" -> PoundMessage("PoundWarningDecl")
    [] Peek = "#error" -> PoundMessage("PoundErrorDecl")
    [] Peek = "#assert" -> PoundAssert
    [] Peek = "FileEnd" -> <<>>
    [] Peek = "}" -> <<Fail, Take("InvalidParse")>>
    [] OTHER -> <<Expr, Add("ExprStatement")>>

-----------------------------------------------------------------------------
(***************************************************************************)
(* The file (parse.cpp), and the functions by their names.                 *)
(***************************************************************************)

TopLevel ==
  IF IsAtTopLevelDeclStart THEN <<Call("Decl")>> ELSE <<Call("Statement")>>

ParseTopLevel ==
  <<Take("FileStart"), Until({}, <<Call("TopLevel")>>), Take("FileEnd")>>

ParseDeclPart(f) ==
  CASE f = "Decl" -> Decl [] f = "DeclKind" -> DeclKind
    [] f = "Modifiers" -> Modifiers [] f = "Attribute" -> Attribute
    [] f = "InheritanceClause" -> InheritanceClause
    [] f = "OptGenericParameters" -> OptGenericParameters
    [] f = "ParamList" -> ParamList [] f = "Param" -> Param
    [] f = "AccessorBlock" -> AccessorBlock [] f = "Accessor" -> Accessor
    [] f = "MemberBlock" -> MemberBlock [] f = "EnumBody" -> EnumBody
    [] f = "EnumCaseElement" -> EnumCaseElement
    [] f = "SubscriptBody" -> SubscriptBody
    [] f = "SubscriptAccessor" -> SubscriptAccessor
    [] f = "Type" -> Type [] f = "PrimaryType" -> PrimaryType
    [] f = "PostfixType" -> PostfixType
    [] f = "TypeAnnotation" -> TypeAnnotation
    [] f = "GenericArguments" -> GenericArguments
    [] f = "Pattern" -> Pattern

ParseCodePart(f, arg) ==
  CASE f = "TopLevel" -> TopLevel [] f = "Statement" -> Statement
    [] f = "StatementKind" -> StatementKind [] f = "CodeBlock" -> CodeBlock
    [] f = "IfStatement" -> IfStatement [] f = "SwitchBody" -> SwitchBody
    [] f = "SwitchCase" -> SwitchCase
    [] f = "ExprImpl" -> ExprImpl(arg) [] f = "Binary" -> Binary(arg)
    [] f = "PrimaryExpr" -> PrimaryExpr [] f = "PostfixExpr" -> PostfixExpr
    [] f = "Argument" -> Argument [] f = "CastType" -> CastType

CodeParts == {"TopLevel", "Statement", "StatementKind", "CodeBlock",
              "IfStatement", "SwitchBody", "SwitchCase", "ExprImpl", "Binary",
              "PrimaryExpr", "PostfixExpr", "Argument", "CastType"}

\* The steps of one call, at the current token.
Parse(f, arg) ==
  IF f \in CodeParts THEN ParseCodePart(f, arg) ELSE ParseDeclPart(f)

-----------------------------------------------------------------------------
(***************************************************************************)
(* The steps.                                                              *)
(***************************************************************************)

Init ==
  \E file \in Sources :
    LET buffer == MatchOpenCloseTokens(file) IN
    /\ tokens = buffer.tokens
    /\ closing = buffer.closing
    /\ lexed = buffer.clean
    /\ pos = 1
    /\ depth = 0
    /\ code = ParseTopLevel
    /\ tree = <<>>
    /\ subtrees = NothingTaken
    /\ indexed = 0
    /\ errors = FALSE
    /\ strays = FALSE
    /\ crossed = FALSE
    \* Setting a bit outside of recovery_tokens_ is an assertion failure or
    \* a write that nobody notices.
    /\ outcome \in {"running"} \cup (IF buffer.outside THEN {"fatal"} ELSE {})

Top == Head(code)
Doing(what) == outcome = "running" /\ code # <<>> /\ Top.do = what
Looking == pos <= Len(tokens)     \* GetKind is asked of a token that exists
AddNode(node) == tree' = IF node = "none" THEN tree ELSE Append(tree, node)

Consume ==
  /\ Doing("consume")
  /\ AddNode(Top.node)
  /\ pos' = pos + 1
  /\ code' = Tail(code)
  /\ UNCHANGED <<source, index, depth, errors, strays, crossed, outcome>>

\* A token that is consumed unseen, where one in particular is meant.
ConsumeUnseen ==
  /\ Doing("hope")
  /\ AddNode(Top.node)
  /\ strays' = (strays \/ Top.for \notin {At(pos).kind, At(pos).text})
  /\ pos' = pos + 1
  /\ code' = Tail(code)
  /\ UNCHANGED <<source, index, depth, errors, crossed, outcome>>

\* A token of another kind fails a TINYSWIFT_CHECK: the compiler aborts.
ConsumeChecked ==
  /\ Doing("check")
  /\ Looking
  /\ IF Peek = Top.kind
     THEN /\ pos' = pos + 1
          /\ code' = Tail(code)
          /\ crossed' = (crossed \/ /\ Top.open > 0
                                    /\ \/ Top.open \notin DOMAIN closing
                                       \/ closing[Top.open] # pos)
          /\ UNCHANGED outcome
     ELSE outcome' = "fatal" /\ UNCHANGED <<pos, code, crossed>>
  /\ UNCHANGED <<source, index, depth, tree, errors, strays>>

AddNodeOnly ==
  /\ Doing("add")
  /\ AddNode(Top.node)
  /\ code' = Tail(code)
  /\ UNCHANGED <<source, index, pos, depth, errors, strays, crossed, outcome>>

EmitError ==
  /\ Doing("error")
  /\ errors' = TRUE
  /\ code' = Tail(code)
  /\ UNCHANGED <<source, index, pos, depth, tree, strays, crossed, outcome>>

\* A condition of an `if` or a loop inside a parse function.
Choose ==
  /\ outcome = "running" /\ code # <<>>
  /\ Top.do \in {"if", "while", "until"}
  /\ Looking
  /\ code' = CASE Top.do = "if" ->
                    (IF Peek \in Top.on THEN Top.this ELSE Top.that)
                      \o Tail(code)
               [] Top.do = "while" ->
                    IF Peek \in Top.on THEN Top.body \o code ELSE Tail(code)
               [] Top.do = "until" ->
                    IF Peek \in Top.stop THEN Tail(code) ELSE Top.body \o code
  /\ UNCHANGED <<source, index, pos, depth, tree, errors, strays, crossed,
                 outcome>>

\* A call of a parse function; ParseType counts how deep it is.
CallFunction ==
  /\ Doing("call")
  /\ Looking
  /\ code' = Parse(Top.f, Top.arg) \o Tail(code)
  /\ depth' = IF Top.f = "Type" /\ depth < kMaxTypeParseDepth
              THEN depth + 1 ELSE depth
  /\ UNCHANGED <<source, index, pos, tree, errors, strays, crossed, outcome>>

LeaveType ==
  /\ Doing("leave")
  /\ depth' = depth - 1
  /\ code' = Tail(code)
  /\ UNCHANGED <<source, index, pos, tree, errors, strays, crossed, outcome>>

\* The next line that starts with a declaration or a closing brace.
SkipToNextDecl ==
  /\ Doing("sync")
  /\ Looking
  /\ pos' = CHOOSE p \in pos .. Len(tokens) :
              LET stop(i) == \/ At(i).kind = "FileEnd"
                             \/ /\ At(i).at = "line"
                                /\ At(i).kind \in DeclKeywords \cup {"}"}
              IN stop(p) /\ \A i \in pos .. (p - 1) : ~stop(i)
  /\ code' = Tail(code)
  /\ UNCHANGED <<source, index, depth, tree, errors, strays, crossed, outcome>>

\* FileEnd was consumed as part of a construct: the parser reads on.
ReadPastEnd ==
  /\ outcome = "running" /\ code # <<>> /\ ~Looking
  /\ Top.do \in {"check", "if", "while", "until", "call", "sync"}
  /\ outcome' = "overrun"
  /\ UNCHANGED <<source, index, pos, depth, code, tree, errors, strays,
                 crossed>>

(***************************************************************************)
(* The checker starts by giving the nodes their children, one node after   *)
(* the other (TreeAndSubtrees).                                            *)
(***************************************************************************)

Indexing == outcome = "running" /\ code = <<>>

TakeNode ==
  /\ Indexing /\ indexed < Len(tree)
  /\ subtrees' = TakeChildren(subtrees, tree[indexed + 1])
  /\ indexed' = indexed + 1
  /\ outcome' = IF subtrees'.fault = "none" THEN outcome ELSE "broken"
  /\ UNCHANGED <<source, pos, depth, code, tree, errors, strays, crossed>>

Finish ==
  /\ Indexing /\ indexed = Len(tree)
  /\ outcome' = "done"
  /\ UNCHANGED <<source, index, pos, depth, code, tree, errors, strays,
                 crossed>>

Next ==
  \/ Consume \/ ConsumeUnseen \/ ConsumeChecked \/ AddNodeOnly \/ EmitError
  \/ Choose \/ CallFunction \/ LeaveType \/ SkipToNextDecl \/ ReadPastEnd
  \/ TakeNode \/ Finish

Spec == Init /\ [][Next]_vars /\ WF_vars(Next)

-----------------------------------------------------------------------------
(***************************************************************************)
(* What must hold.                                                         *)
(***************************************************************************)

\* The machine stays within its types, the depth of types within its bound.
TypeOK ==
  /\ pos \in 1 .. Len(tokens) + 1
  /\ depth \in 0 .. kMaxTypeParseDepth
  /\ depth = Len(SelectSeq(code, LAMBDA s : s.do = "leave"))
  /\ {errors, strays, crossed, lexed} \subseteq BOOLEAN
  /\ outcome \in {"running", "done", "broken", "fatal", "overrun"}

\* A file the lexer and the parser accept without a word, every token of it
\* taken for what it is.
Ended == outcome \in {"done", "broken"}
Silent == Ended /\ lexed /\ ~errors /\ ~strays

\* The parser ends on every file: no loop of it leaves a token where it is.
ParsingEnds == <>(outcome # "running")

\* The kinds whose parts the grammar leaves out and the table counts.
MayBeShort == {"FunctionParam", "EnumCaseElement", "IsPattern",
               "PoundWarningDecl", "PoundErrorDecl"}

\* The tree of an accepted file is one the checker can index: every node
\* finds the node that brackets it and takes no other construct's opening,
\* but for the kinds with optional parts.
AcceptedIsIndexed ==
  Silent => /\ subtrees.swallowed \subseteq MayBeShort
            /\ subtrees.fault # "none" => subtrees.swallowed # {}

\* Where the parser accepts a file, it has closed every bracket where the
\* lexer did.
BracketsAgree == Silent => ~crossed

\* What the parser leaves behind is a tree: the nesting of types it counts is
\* the nesting it is in, on every early return, and an accepted file has a
\* tree that brackets (parse_type.cpp:44, tree_and_subtrees.cpp).
TreeIsSound == TypeOK /\ AcceptedIsIndexed
=============================================================================
