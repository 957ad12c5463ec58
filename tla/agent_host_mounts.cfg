SPECIFICATION Spec
CONSTANTS
  a1 = a1
  a2 = a2
  Agents = {a1, a2}
  Executors = {"regular", "one-off"}
  Fstab <- MCFstab
  Binds <- MCBinds
  Runs = {r1}
  MaxLosses = 2
  None = None
PROPERTY
  AllMountsSeen
