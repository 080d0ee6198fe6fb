\* Three hosts in turn: every start, failure, restart and end between their calls.
SPECIFICATION Spec
CONSTANTS
  EEs = {e1, e2, e3}
  NoEE = NoEE
  Stores = {s1, s2}
  NoStore = NoStore
  EEMajorVersion = 5
  Sizes = {1, 3}
  GrowthSize = 4
  BeginGap = 1
  ArenaSize = 8
  MaxSegments = 2
  ArenaBases <- MCArenaBases
  TableBases <- MCTableBases
  HandleTypes = {"STRONG", "WEAK_SHORT"}
  MaxHandles = 2
  NoHandle = NoHandle
INVARIANTS
  StoreNeverDangles
  RootsStayMapped
  ToldTheRunningEE
CHECK_DEADLOCK FALSE
SYMMETRY Symmetry
