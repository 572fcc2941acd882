CONSTANTS
  Callers = {poll, action}
  MaxRetries = 2
  Skew <- MCSkew
\* A closed client stops.
CHECK_DEADLOCK FALSE
SPECIFICATION Spec
INVARIANT ClosedStaysClosed
