\* One type of any shape, two objects of it, marked and cleared.
SPECIFICATION Spec
CONSTANTS
  WordSize = 8
  SizeMax = 65536
  MethodTables <- MCMethodTables
  Objects = {o1, o2}
  Shapes <- MCShapes
  Lengths <- MCLengths
INVARIANTS
  SlotMapFits
  NumPointersExact
  MarkedOnce
PROPERTY MarksKeepMethodTable
