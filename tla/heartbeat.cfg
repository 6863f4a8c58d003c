\* The slack of four ticks is one more than what it has to cover.
SPECIFICATION Spec
CONSTANTS
  Agents = {a1, a2}
  None = None
  Checkers = {c1, c2}
  Second = 2
  RefreshInterval = 2
  ExpirationOffset = 4
  PollInterval = 1
  PollDelay = 0
  CallTime = 1
  SetupTime = 1
  CompletionTime = 1
  Skew = 1
  Lag = 1
  MaxClaims = 2
  Horizon = 13
SYMMETRY HbSymmetry
INVARIANTS
  HbTypeOK
  PromptSeenBusy
  SilentIsListed
PROPERTIES
  PromptKeepsTask
CHECK_DEADLOCK FALSE
