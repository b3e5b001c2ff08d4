SPECIFICATION Spec
CONSTANTS
  EmbeddedNames <- MCEmbeddedNames
  EscapedNames <- MCEscapedNames
  PayloadKeys <- MCPayloadKeys
  LowBases = {"X", "@l"}
  Builtins = {"host"}
  Metas = {"level", "message"}
CHECK_DEADLOCK FALSE
INVARIANTS TypeOK NamesUnique HighestPriorityWins LoserKept EmbeddedMetaFirst
