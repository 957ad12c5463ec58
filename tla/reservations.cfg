SPECIFICATION FairReservations
CONSTANTS
  VMs = {v1, v2}
  Clients = {c1, c2}
  Totals = {1, 2}
  Hours = {1, 2}
  Nobody = Nobody
INVARIANTS
  HeldIsRecorded
PROPERTIES
  Reusable
