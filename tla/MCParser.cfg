SPECIFICATION Spec
CONSTANTS
  Sources <- MCSources
  kMaxTypeParseDepth = 3
CHECK_DEADLOCK FALSE
INVARIANTS
  TreeIsSound
  BracketsAgree
  BindsByPrecedence
PROPERTIES
  ParsingEnds
