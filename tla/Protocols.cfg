\* A byte has 26 values, so that integers of every width are small enough.
CONSTANTS
  Byte = 26
  Cases <- MCCases
SPECIFICATION Spec
CHECK_DEADLOCK FALSE
INVARIANTS  ResponseRoundTrip  ErrorAgrees ValidationAgrees
