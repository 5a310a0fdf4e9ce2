SPECIFICATION Spec
CONSTANTS
  Types <- MCTypes
  Functions <- MCFunctions
  Optionals <- MCOptionals
  DictTypes <- MCDictTypes
  Menus <- MCMenus
  MaxLen = 4
  Width = 5
CONSTRAINT HasMeaning
INVARIANTS
  RuntimeCallsFit
  NothingIsLost
  RunsAsSwift
CHECK_DEADLOCK FALSE
