SPECIFICATION Spec
CONSTANTS
  a1 = a1
  a2 = a2
  Agents = {a1}
  Executors = {"regular", "one-off"}
  Fstab <- MCFstab
  Binds <- MCBinds
  Runs = {r1, r2}
  MaxLosses = 1
  None = None
INVARIANTS
  AgentsThere
PROPERTIES
  BuildsSpared
  OwnDirectory
  LastMountSeen
