\* A final state overwritten between two queries.
SPECIFICATION SessionSpec
CONSTANTS
  Tasks = {t1, t2}
  MaxRetries = 0
  ClientTimesOut = FALSE

CHECK_DEADLOCK FALSE
INVARIANTS
  CompleteAnswer
