CONSTANTS
  Names = {"a", "b"}
  Unbounded = Unbounded
  MaxChildren = 5
  ExpandCap = 2
  Particles <- MCParticles
  Automata <- MCAutomata
SPECIFICATION ModelSpec
INVARIANT CapIsExact
INVARIANT ExactUnlessLenient
INVARIANT UpaIsAmbiguity
INVARIANT OneConfiguration
CHECK_DEADLOCK FALSE
