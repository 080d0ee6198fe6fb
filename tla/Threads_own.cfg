\* Two threads with a context each and no lock.
SPECIFICATION FairSpec
CONSTANTS
  t1 = t1
  t2 = t2
  t3 = t3
  c1 = c1
  c2 = c2
  NoThread = NoThread
  Threads = {t1, t2}
  Contexts = {c1, c2}
  CtxOf <- OwnContexts
  Sizes = {0, 2, 3}
  GrowthSize = 4
  BeginGap = 1
  ArenaSize = 8
  MaxSegments = 4
  ArenaBase = 40
  CardTable = 1
  BundleTable = 2
INVARIANTS
  FlagNotStuck
PROPERTIES
  
  UnracedCarvingIsSafe
  UnracedInstallingIsSafe
  AllocReturns
