\* Two tasks; submission, polling, timeouts and a late index.
SPECIFICATION FairSessionSpec
CONSTANTS
  Tasks = {t1, t2}
  MaxRetries = 1
  ClientTimesOut = TRUE
CHECK_DEADLOCK FALSE
INVARIANTS
  SessionTypeOK
  StartedHasInput
  ListedIsDecided
  FinishedHasOutput
  ExactUnlessTorn
PROPERTIES
  SessionAnswered
