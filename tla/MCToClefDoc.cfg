SPECIFICATION Spec
CONSTANTS
  EmbeddedNames <- MCEmbeddedNames
  EscapedNames <- MCEscapedNames
  PayloadKeys <- MCOneKey
  LowBases = {"X", "@l"}
  Builtins = {"host"}
  Metas = {"level", "message"}
CHECK_DEADLOCK FALSE
INVARIANT ConflictKept
