\* Serialised Initialize and Alloc calls of three contexts.
SPECIFICATION Spec
CONSTANTS
  Contexts = {c1, c2, c3}
  c1 = c1
  c2 = c2
  c3 = c3
  Sizes <- MCSizes
  GrowthSize = 4
  BeginGap = 1
  ArenaSize = 12
  MaxSegments = 3
  ArenaBases <- MCArenaBases
  TableBases <- MCTableBases
INVARIANTS
  ObjectsDisjoint
  WindowsPrivate
  ObjectsInSegments
  SegmentsTileArena
  NoPageLeak
  BarrierMatchesGlobals
  HeapInv
  HeapPointersExact
PROPERTY ImplementsObjectSpace
SYMMETRY Symmetry
