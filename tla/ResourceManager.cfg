SPECIFICATION Spec
CONSTANTS
  Pid = {p1, p2, p3}
  Stale = {stale}
  File = {f1, f2}
  NTypes = 2
  MaxResources = 2
  Wanted <- MixedWanted
  OldLinks <- FewOldLinks
  LinkCallsFail = TRUE
  NULL = NULL
SYMMETRY Symmetry
INVARIANTS
  TypeOK
  FilesInOnePlace
  OneEntryPerPid
  TableFitsPids
  CountsMatchNames
  LinksAreHeld
  ScanIsLoop
PROPERTIES
  GrantIsWhole
  ImplementsAllocation
CHECK_DEADLOCK FALSE
