CONSTANTS
  t1 = t1
  t2 = t2
  Thread = {t1, t2}
  NoThread = NoThread
  NoBlock = NoBlock
  End = 24
  Overhead = 2
  Header = 2
  SplitMin = 5
  Sizes = {1, 5}
SPECIFICATION FairSpec
INVARIANTS Inv Owned RefusedForGood
PROPERTY CallsReturn
