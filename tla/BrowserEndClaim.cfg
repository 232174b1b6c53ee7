\* endSession() while session.start() is awaited.
SPECIFICATION Spec
CONSTANTS
  Starts = {s1}
  Ends = {e1}
  Failing = {}
INVARIANT BridgeStopsAtEnd
CHECK_DEADLOCK FALSE
