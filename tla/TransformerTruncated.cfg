CONSTANTS
  NumHandlers = 2
  NoLimit = NoLimit
  Limits = {NoLimit, 0, 1, 2}
  Registrations <- MCRegistrations
  MaxEvents = 5
  MaxTreeEvents = 6
SPECIFICATION Spec
INVARIANT NothingTwice
CHECK_DEADLOCK FALSE
