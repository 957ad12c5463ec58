SPECIFICATION FairSpec
CONSTANTS
  ProdVers <- MCProdVers
  Projects <- MCProjects
  Commits <- MCCommits
  ProjectOf <- MCProjectOf
  Missing <- MCMissing
  Ancestors <- MCAncestors
  NoDoc = NoDoc
  NoBuild = NoBuild
  Manifests <- MCManifests
INVARIANTS
  TypeOK
  NoDuplicateLinks
  HistoryComplete
  DiffIsLinked
PROPERTIES
  InBuildKept
  PrevBuildKept
  EventuallyLoaded
  LeadsOn
  ImplementsBuildHistory
