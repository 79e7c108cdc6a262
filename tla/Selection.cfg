CONSTANTS
  None = None
  Failed = Failed
  NotStreamable = NotStreamable
  Registered <- MCRegistered
  Tags <- MCTags
  XPaths <- MCXPaths
  MaxElements = 4
  MaxDepth = 3
  MaxTexts = 1
SPECIFICATION Spec
INVARIANT SameSelection
INVARIANT AxesInOrder
