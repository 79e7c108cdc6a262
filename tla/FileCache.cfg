CONSTANTS
  Threads = {t1, t2, t3}
  Fetchers = {f1, f2}
  Owner <- MCOwner
  Urls <- MCUrls
  Hashes = {1, 2}
  HashOf <- MCHashOf
  Target <- MCTarget
  MaxVersion = 1
  Seedable = {"b"}
  Asks <- MCAsks
  MaxCalls = 2
  MaxCrashes = 1
  NoFile = NoFile
  Partial = Partial
  None = None
  Idle = Idle
  Failed = Failed
  t1 = t1
  t2 = t2
  t3 = t3
  f1 = f1
  f2 = f2
SYMMETRY MCSymmetry
SPECIFICATION Spec
INVARIANT RecordMarksComplete
INVARIANT NoRefetch
PROPERTY KeepsPromise
