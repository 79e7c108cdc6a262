CONSTANTS
  Uris <- MCUris
  NoUri = "none"
  Target <- MCTarget
  Locations <- MCLocations
  Resolve <- MCResolve
  ExportResolve <- MCExportResolve
  References <- MCReferences
  Namespaces = {"n", "g"}
  NoNamespace = "no"
  NamespaceOf <- MCNamespaceOf
  HintLists <- MCHintLists
  MaxBroken = 1
  MaxDown = 2
  MaxChanges = 1
SPECIFICATION Spec
INVARIANT ExportIsSelfContained
INVARIANT LoadersAgree
PROPERTY LoadsTheClosure
PROPERTY CollectsTheClosure
PROPERTY BothEnd
CHECK_DEADLOCK FALSE
