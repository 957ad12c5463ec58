SPECIFICATION Spec
CONSTANTS
  ProdVers <- MCProdVers
  Projects <- MCProjects
  Commits <- MCCommits
  ProjectOf <- MCProjectOf
  Missing <- MCMissing
  Ancestors <- MCAncestors
  NoDoc = NoDoc
  NoBuild = NoBuild
  Manifests <- MCManifests
INVARIANTS
  PrevIsEarlier
