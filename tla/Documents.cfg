CONSTANTS
  None = None
  Unbound = Unbound
  Unbind = "none"
  Tags <- MCTags
  Dtds <- MCDtds
  Texts <- MCTexts
  Limit = 8
  MaxEvents = 6
  MaxDepth = 3
  Inputs <- MCInputs
  Chunk = 2
SPECIFICATION DocumentsSpec
INVARIANT DeliversTheInclusion
INVARIANT NamespacesByAncestors
INVARIANT OpenIsTheCallStack
INVARIANT ReadsTheString
