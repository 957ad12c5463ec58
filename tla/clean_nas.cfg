SPECIFICATION Spec
CONSTANTS
  Dirs = {"latest", "product", "release"}
  Root = "latest"
  Parent <- MCParent
  Files = {"source", "src/release", "deb/release"}
  Dir <- MCDir
  Name <- MCName
  Periods = {1, 2}
  MaxAge = 3
  States <- MCStates
  Patterns <- MCPatterns
  None = None
INVARIANTS
  NoneLeft
  NoneEmpty
PROPERTIES
  RetentionSpec
