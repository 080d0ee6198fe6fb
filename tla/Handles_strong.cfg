\* A strong handle against a normal object reference.
SPECIFICATION Spec
CONSTANTS
  o1 = o1
  o2 = o2
  Objects = {o1, o2}
  Null = Null
  NoHandle = NoHandle
  Infos = {"info"}
  HandleTypes = {"STRONG", "WEAK_SHORT"}
  MaxHandles = 2
INVARIANT StrongHandlesAreReferences
