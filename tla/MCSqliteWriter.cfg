\* Nothing fails, or other connections lock the database, or interrupts.
CONSTANTS
  AgentId <- MCAgents
  EveryNth = 2
  MaxIteration = 6
  MaxCount = 2
  CommitEveryNth = 2
  Modes = {"calm", "busy", "interrupted"}
  MaxBuffered = 2
SPECIFICATION Spec
INVARIANTS DatabaseSound BufferingSound
PROPERTIES WritesLog
