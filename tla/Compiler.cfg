CONSTANTS
  Unbounded = Unbounded
  Guessed = Guessed
  Absent = Absent
  Unbound = Unbound
  Nowhere = Nowhere
  OtherNs = OtherNs
  OtherName = OtherName
  TargetNs = "t"
  Prefix = "p"
  A = A
  B = B
  C = C
  MaxLength = 4
  Inputs <- MCInputs
SPECIFICATION Spec
INVARIANT CompilesWhatWasChecked
INVARIANT RefusedIffCircular
INVARIANT RedefinitionTakesEffect
INVARIANT RestrictionIsSound
INVARIANT VerdictIsDefinite
INVARIANT FlattenedIsNoStricter
INVARIANT ValuesByDefinition
INVARIANT KeysByValue
INVARIANT FlattenedAgreesWithTree
CHECK_DEADLOCK FALSE
