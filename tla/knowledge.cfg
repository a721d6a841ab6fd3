\* a call, a correction, and two requests about two copies of a file
SPECIFICATION Spec
CONSTANTS
  c1 = c1 m1 = m1 r1 = r1 r2 = r2 i1 = i1 i2 = i2 sha = sha p = p
  Nobody = Nobody
  NoItem = NoItem
  Slugs = {p}
  Calls = {c1}
  Managers = {m1}
  Runs = {r1, r2}
  Items = {i1, i2}
  Contents = {i1, i2, sha}
  Sha <- OneFile
  SlugsOf <- OnePage
  EntitiesOf <- OneEntity
  MaxDeaths = 1
SYMMETRY Symmetry
INVARIANTS
  VersionsAreWhole
  WorkLeavesItsMark
  FilesAreKept
  StatusTellsTruth
PROPERTIES
  NothingIsUndone
CHECK_DEADLOCK FALSE
