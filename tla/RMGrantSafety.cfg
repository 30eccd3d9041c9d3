\* Two clients and three types: every process index is below
\* typesOfResources, so that the scan stays inside its vector.  Every request
\* has the right length, and the file system refuses nothing.
SPECIFICATION Spec
CONSTANTS
  Pid = {p1, p2}
  File = {f1}
  NTypes = 3
  MaxResources = 2
  Wanted <- UnitVectors
  Stale = {}
  OldLinks <- NoOldLinks
  LinkCallsFail = FALSE
  NULL = NULL
SYMMETRY Symmetry
PROPERTY GrantsKeepSafe
CHECK_DEADLOCK FALSE
