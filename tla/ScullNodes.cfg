SPECIFICATION NodesFairSpec
CONSTANTS
  NUM_DEVICES = 2
  BASE_MINOR = 0
  Files = {f1}
  MayFail <- AllMayFail
  Majors = {240, 241}
  NONE = NONE
INVARIANT NodesAsLeft
PROPERTY ScriptEnds
