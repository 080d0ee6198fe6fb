\* Three threads share one context under its lock.
SPECIFICATION Spec
CONSTANTS
  t1 = t1
  t2 = t2
  t3 = t3
  c1 = c1
  c2 = c2
  NoThread = NoThread
  Threads = {t1, t2, t3}
  Contexts = {c1}
  CtxOf <- SharedContext
  Sizes = {0, 1, 3}
  GrowthSize = 4
  BeginGap = 1
  ArenaSize = 12
  MaxSegments = 6
  ArenaBase = 40
  CardTable = 1
  BundleTable = 2
INVARIANT SharedInv
PROPERTY ImplementsHeap
