SPECIFICATION AllSpec
CONSTANTS
  None = None
  Flags <- AllOn
  Files <- NoFiles
  Manager = {"url", "class", "definedsets", "lb"}
  NoFile = NoFile
  Severity = {"INFO", "ERROR"}
  Limits = {0, 1, 2}
  MaxWrites = 3
  MaxRestarts = 1
INVARIANT CurrentKept
PROPERTY AgentServes
CHECK_DEADLOCK FALSE
