CONSTANTS
  Callers = {poll, action}
  MaxRetries = 2
  Skew <- MCSkew
\* A closed client stops.
CHECK_DEADLOCK FALSE
SPECIFICATION FairSpec
INVARIANT TypeOK
INVARIANT NoFalseAlarm
INVARIANT LoginsAreBounded
PROPERTY KeepsRpcPromise
PROPERTY EveryCallEnds
