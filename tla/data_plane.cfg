SPECIFICATION Spec
CONSTANTS
  Writers = {w1, w2, w0}
  EmptyWriters = {w0}
  Readers = {r1, r2}
  None = None
INVARIANTS
  DpTypeOK
  DurableOnceSeen
  QuietGetIsLast
