CONSTANTS
  W = 4
  Layouts <- MCLayouts
  NoMaximum = NoMaximum
SPECIFICATION AccessSpec
INVARIANTS
  TypeOK
  InitMatchesWasm
  RegionOpsMatchWasm
  BulkWorkIsPaid
  SizeWithinMaximum
  LoadsMatchWasm
  StoresMatchWasm
