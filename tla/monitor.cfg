SPECIFICATION FairSpec
CONSTANTS
  NServers = 2
  Nodes = {"n1", "n2"}
  NodeServer <- MCNodeServer
  Builds = {"new/1", "old/9"}
  BuildServer <- MCBuildServer
  BuildJob <- MCBuildJob
  Jobs = {"new", "old"}
  History <- MCHistory
  MinTime = 5
  Spacing = 3
  MaxElapsed = 10
  Period = 2
  OldAge = 1
  NoRow = NoRow
INVARIANTS
  NodeMailCounted
  RowsCurrent
  StuckIsLonger
PROPERTIES
  BuildMailsSpaced
  NodeAlerted
