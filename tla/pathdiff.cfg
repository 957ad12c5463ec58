SPECIFICATION FairPathdiff
CONSTANTS
  Keys = {k1}
  Workers = {w1, w2}
  Clients = {c1}
  Threads = {t1, t2}
  NoTask = NoTask
  Idle = Idle
  Nobody = Nobody
  Prefetch = 1
  MaxTasks = 3
PROPERTIES
  RowsBounded
  AlwaysListed
  
