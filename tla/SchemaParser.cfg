CONSTANTS
  XsdNs <- MCXsdNs
  VcNs <- MCVcNs
  NCNames <- MCNCNames
  Number <- MCNumber
  Unlimited <- MCUnlimited
  Builtins <- MCBuiltins
  NoPrefix <- MCNoPrefix
  Sources <- MCSources
SPECIFICATION ParserSpec
INVARIANT AcceptsSchemas
INVARIANT ReadsTheTree
CHECK_DEADLOCK FALSE
