SPECIFICATION Spec
CONSTANTS
  Unbounded = Unbounded
  None = None
  Schemas <- MCSchemas
  Canon <- MCCanon
  MaxDepth = 3
INVARIANT SameJudgement
INVARIANT IdentityByTree
