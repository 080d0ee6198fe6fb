\* Registrations, removals and updates one after the other, a query beside them.
SPECIFICATION QuerySpec
CONSTANTS
  Records = {r1, r2, r3, r4}
  Null = Null
  Bases <- MCBases
  Size = 1
  MaxSegments = 3
INVARIANTS
  SlotsMatchHandles
  QueriesExact
  LimitsCurrent
  UndisturbedExact
  MissesOnlyMoved
PROPERTY ImplementsFrozenSpace
SYMMETRY Symmetry
