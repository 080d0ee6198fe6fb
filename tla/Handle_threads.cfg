\* Two threads and a table of two slots; every pair of calls may overlap.  Extra
\* info is only ever set to null: a secondary, set in the same way, varies.
SPECIFICATION Spec
CONSTANTS
  Threads = {t1, t2}
  Objects = {o1, o2}
  Null = Null
  NoHandle = NoHandle
  Infos = {Null}
  HandleTypes = {"STRONG"}
  MaxHandles = 2
INVARIANTS
  UnracedHandlesAgree
  RootsExactWhenStopped
PROPERTY ImplementsTable
SYMMETRY Symmetry
