SPECIFICATION Spec
CONSTANTS
  c12 = c12
  c123 = c123
  t1 = t1
  t2 = t2
  Changes = {c12, c123}
  Tickets = {t1, t2}
  Summaries <- MCSummaries
  Within <- MCWithin
  MaxEvents = 4
  None = None
CHECK_DEADLOCK FALSE
INVARIANTS
  OneEntry
  FieldCurrent
PROPERTY
  OnlyOwnRemoved
