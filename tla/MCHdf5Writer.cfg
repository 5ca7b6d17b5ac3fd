\* Two runs: nothing raises, or everything may.
CONSTANTS
  AgentId <- MCAgents
  EveryNth = 2
  MaxIteration = 6
  MaxCount = 2
  Chunk = 2
  OffsetChunk = 2
  Fallible = {TRUE, FALSE}
SPECIFICATION Spec
INVARIANTS FileSound RowsKeepPlace
PROPERTIES WritesLog
