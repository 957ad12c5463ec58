SPECIFICATION Spec
CONSTANTS
  p1 = p1
  old = old
  c1 = c1
  c2 = c2
  Projects = {p1}
  Commits = {old, c1, c2}
  ProjectOf <- MCProjectOf
  Last = 2
  Url <- MCUrl
  New <- MCNew
  Old = {old}
  None = None
INVARIANTS
  RemoteKnown
  LinksKept
PROPERTIES
  AuthorsAdded
  RepositoriesBack
