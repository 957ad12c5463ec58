SPECIFICATION Spec
CONSTANTS
  a1 = a1
  a2 = a2
  b1 = b1
  Requests = {a1, a2, b1}
  Bundle <- MCBundle
  Archive <- MCArchive
  Notarizing = {a1}
  None = None
INVARIANTS
  NeverStuck
PROPERTIES
  OwnArchive
  ApprovedServed
