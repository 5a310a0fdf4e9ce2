----------------------------- MODULE ParseNodes -----------------------------
(***************************************************************************)
(* The shape every kind of parse node declares (parse/typed_nodes.h), and  *)
(* the reconstruction of the tree from the postorder list of nodes         *)
(* (TreeAndSubtrees::TreeAndSubtrees in parse/tree_and_subtrees.cpp).      *)
(*                                                                         *)
(* A node is its kind.  A kind has a number of children, or takes every    *)
(* node back to the one that brackets it, or both.  A kind that is in none *)
(* of the tables has no children, whatever its name suggests: IfCondition, *)
(* ExprStatement and TupleType are leaves.                                 *)
(***************************************************************************)
EXTENDS Integers, Sequences, TLC, SequencesExt

Count(n) == [count |-> n, bracket |-> "none"]
Bracketed(start) == [count |-> -1, bracket |-> start]
CountBracketed(n, start) == [count |-> n, bracket |-> start]

(***************************************************************************)
(* The tables, one for each section of the header.                         *)
(***************************************************************************)

FileNodes ==
  [InvalidParseSubtree |-> Bracketed("InvalidParseStart"),
   ImportDecl |-> Bracketed("ImportIntroducer")]

FunctionNodes ==
  [ReturnType |-> Count(1),
   FunctionDefinitionStart |-> Bracketed("FunctionIntroducer"),
   FunctionDefinition |-> Bracketed("FunctionDefinitionStart"),
   FunctionDecl |-> Bracketed("FunctionIntroducer"),
   FunctionParam |-> Count(2),
   ExplicitParamList |-> Bracketed("ExplicitParamListStart")]

VariableNodes ==
  [LetDecl |-> Bracketed("LetIntroducer"),
   VariableDecl |-> Bracketed("VariableIntroducer")]

TypeDeclNodes ==
  [StructDefinitionStart |-> Bracketed("StructIntroducer"),
   StructDefinition |-> Bracketed("StructDefinitionStart"),
   ClassDefinitionStart |-> Bracketed("ClassIntroducer"),
   ClassDefinition |-> Bracketed("ClassDefinitionStart"),
   EnumDefinitionStart |-> Bracketed("EnumIntroducer"),
   EnumDefinition |-> Bracketed("EnumDefinitionStart"),
   EnumCaseElement |-> Count(1),
   EnumCaseDecl |-> Bracketed("EnumCaseIntroducer"),
   ProtocolDefinitionStart |-> Bracketed("ProtocolIntroducer"),
   ProtocolDefinition |-> Bracketed("ProtocolDefinitionStart")]

MemberDeclNodes ==
  [ExtensionDefinitionStart |-> Bracketed("ExtensionIntroducer"),
   ExtensionDefinition |-> Bracketed("ExtensionDefinitionStart"),
   InheritanceClause |-> Bracketed("InheritanceClauseStart"),
   TypealiasDecl |-> Bracketed("TypealiasIntroducer"),
   InitDefinitionStart |-> Bracketed("InitIntroducer"),
   InitDefinition |-> Bracketed("InitDefinitionStart"),
   DeinitDefinition |-> Bracketed("DeinitIntroducer"),
   SubscriptDefinitionStart |-> Bracketed("SubscriptIntroducer"),
   SubscriptDefinition |-> Bracketed("SubscriptDefinitionStart"),
   AccessorBlock |-> Bracketed("AccessorBlockStart")]

SimpleStatementNodes ==
  [CodeBlock |-> Bracketed("CodeBlockStart"),
   BreakStatement |-> Bracketed("BreakStatementStart"),
   ContinueStatement |-> Bracketed("ContinueStatementStart"),
   ThrowStatement |-> Bracketed("ThrowStatementStart"),
   ReturnStatement |-> Bracketed("ReturnStatementStart")]

ControlFlowNodes ==
  [IfStatement |-> Bracketed("IfCondition"),
   GuardStatement |-> Bracketed("GuardCondition"),
   WhileStatement |-> CountBracketed(2, "WhileCondition"),
   ForInStatement |-> Bracketed("ForInIntroducer"),
   RepeatWhileStatement |-> Count(2),
   SwitchCaseLabel |-> Count(1),
   SwitchCaseBody |-> Bracketed("SwitchCaseLabel"),
   SwitchStatement |-> Bracketed("SwitchIntroducer")]

BlockStatementNodes ==
  [DoCatchClause |-> Count(1),
   DoStatement |-> Bracketed("DoIntroducer"),
   DeferStatement |-> Bracketed("DeferStatementStart"),
   YieldStatement |-> Bracketed("YieldStatementStart"),
   AwaitExpr |-> Count(1),
   ComptimeExpr |-> Count(1),
   OptionalBindingCondition |-> Count(1)]

ExprNodes ==
  [ParenExpr |-> CountBracketed(2, "ParenExprStart"),
   CallExprStart |-> Count(1),
   CallExpr |-> Bracketed("CallExprStart"),
   MemberAccessExpr |-> Count(2),
   SubscriptExprStart |-> Count(1),
   SubscriptExpr |-> Bracketed("SubscriptExprStart"),
   PrefixOperatorExpr |-> Count(1),
   InfixOperatorExpr |-> Count(2),
   PostfixOperatorExpr |-> Count(1)]

OperatorNodes ==
  [AssignmentExpr |-> Count(2), TernaryExpr |-> Count(3),
   AsExpr |-> Count(1), AsExclaimExpr |-> Count(1),
   AsQuestionExpr |-> Count(1), IsExpr |-> Count(1),
   TryExpr |-> Count(1), TryExclaimExpr |-> Count(1),
   TryQuestionExpr |-> Count(1),
   ClosureExpr |-> Bracketed("ClosureExprStart"),
   TupleExpr |-> Bracketed("ParenExprStart")]

LiteralNodes ==
  [ArrayExpr |-> Bracketed("ArrayExprStart"),
   DictionaryExprEntry |-> Count(2),
   DictionaryExpr |-> Bracketed("DictionaryExprStart"),
   AddressOfExpr |-> Count(1)]

TypeNodes ==
  [TypeAnnotation |-> Count(1), OptionalType |-> Count(1),
   ImplicitlyUnwrappedOptionalType |-> Count(1),
   ArrayType |-> Count(1), DictionaryType |-> Count(2),
   FunctionType |-> Count(2), ProtocolCompositionType |-> Count(2),
   MemberType |-> Count(2)]

GenericNodes ==
  [GenericParameterClause |-> Bracketed("GenericParameterClauseStart"),
   GenericArgumentClause |-> Bracketed("GenericArgumentClauseStart"),
   GenericSpecExpr |-> Count(2),
   IsPattern |-> Count(1)]

DirectiveNodes ==
  [Attribute |-> Bracketed("AttributeStart"),
   PoundIfDecl |-> Bracketed("PoundIfStart"),
   PoundWarningDecl |-> Count(1), PoundErrorDecl |-> Count(1),
   PoundAssertDecl |-> Bracketed("PoundAssertStart")]

Shapes ==
  FileNodes @@ FunctionNodes @@ VariableNodes @@ TypeDeclNodes
    @@ MemberDeclNodes @@ SimpleStatementNodes @@ ControlFlowNodes
    @@ BlockStatementNodes @@ ExprNodes @@ OperatorNodes @@ LiteralNodes
    @@ TypeNodes @@ GenericNodes @@ DirectiveNodes

Shape(kind) == IF kind \in DOMAIN Shapes THEN Shapes[kind] ELSE Count(0)

\* The nodes that open a construct.
Openings == {Shapes[k].bracket : k \in DOMAIN Shapes} \ {"none"}

(***************************************************************************)
(* The constructor walks the nodes with a stack of the roots that are no   *)
(* node's children yet.  "fault" is the kind whose CHECK fails, "none" as  *)
(* long as none does; "swallowed" collects the kinds that took, as one of  *)
(* a fixed number of children, the opening of some other construct.        *)
(***************************************************************************)

Closes(kind, start) ==
  \/ start = Shape(kind).bracket
  \/ kind = "SwitchCaseBody" /\ start = "SwitchDefaultLabel"

TakeCounted(s, kind) ==
  LET n == Shape(kind).count
      keep == Len(s.roots) - n
      taken == SubSeq(s.roots, keep + 1, Len(s.roots))
      bracket == Shape(kind).bracket
      inner == IF bracket = "none" THEN taken ELSE Tail(taken)
  IN IF keep < 0 \/ (bracket # "none" /\ Head(taken) # bracket)
     THEN [s EXCEPT !.fault = kind]
     ELSE [s EXCEPT !.roots = Append(SubSeq(s.roots, 1, keep), kind),
                    !.swallowed = IF \E i \in DOMAIN inner :
                                       inner[i] \in Openings
                                  THEN @ \cup {kind} ELSE @]

TakeBracketed(s, kind) ==
  LET start == SelectLastInSeq(s.roots, LAMBDA r : Closes(kind, r))
  IN IF start = 0
     THEN [s EXCEPT !.fault = kind]
     ELSE [s EXCEPT !.roots = Append(SubSeq(s.roots, 1, start - 1), kind)]

TakeChildren(s, kind) ==
  IF s.fault # "none" THEN s
  ELSE IF Shape(kind).count >= 0 THEN TakeCounted(s, kind)
  ELSE TakeBracketed(s, kind)

NothingTaken == [roots |-> <<>>, fault |-> "none", swallowed |-> {}]
=============================================================================
