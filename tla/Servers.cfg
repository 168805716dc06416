\* Four ports and one outside the range.
CONSTANTS
  Owners = {"a", "b"}
  Stoppers <- MCStoppers
  Start = 1
  End = 4
  SystemPorts = {2, 9}
  RangeSize = 2
  MaxAttempts = 2
SPECIFICATION Spec
INVARIANTS ReservationsExclusive JoinedIsOver
PROPERTY ShutdownEnds
CHECK_DEADLOCK FALSE
