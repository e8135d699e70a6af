SPECIFICATION AllSpec
CONSTANTS
  Service = {s1, s2}
  Client = {c1, c2}
  Stable = {s1}
  MaxVersion = 2
  MaxCrashes = 2
  Retries = 3
  MaxRefusals = 1
  Overlap = TRUE
  Late = TRUE
  Recreate = TRUE
  NoEntry = NoEntry
  NPorts = 1
  Refuses = TRUE
  Monitor = FALSE
  SetLBMode = "default"
  Annotations <- Few
  FirstTls <- Untold
  Secrets <- NoSecrets
  MaxEdits = 3
  s1 = s1
  None = None
  Bad = Bad
  Off = Off
INVARIANTS RuleTracksCluster RuleFollowsOptions StableRestored
CHECK_DEADLOCK FALSE
