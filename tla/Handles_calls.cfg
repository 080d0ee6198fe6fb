\* Serialised calls of the handle manager on a table of two slots.
SPECIFICATION Spec
CONSTANTS
  o1 = o1
  o2 = o2
  Objects = {o1, o2}
  Null = Null
  NoHandle = NoHandle
  Infos = {"info"}
  HandleTypes = {"STRONG", "WEAK_SHORT", "ASYNCPINNED"}
  MaxHandles = 2
INVARIANTS
  OwnedHandlesAgree
  RootsExact
  HandleInv
PROPERTIES
  NoObjectLost
  ImplementsHandleSpace
SYMMETRY Symmetry
