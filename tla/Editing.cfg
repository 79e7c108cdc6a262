CONSTANTS
  None = None
  Root = 2
  Handles = {2, 3, 4}
  Parsed <- MCParsed
  Registered <- MCRegistered
  Keys <- MCKeys
  Values = {"2"}
  Texts = {"", "t"}
  NewNodes <- MCNewNodes
  Renames <- MCRenames
  Bindings <- MCBindings
  MaxNodes = 12
  MaxEdits = 4
SPECIFICATION Spec
INVARIANT LinksAgree
INVARIANT AnswersAreCurrent
PROPERTY EditsAreLocal
