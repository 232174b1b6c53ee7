\* Two starts and two ends at any time; any operation of a bridge or a
\* session may reject.  No symmetry, for the liveness property.
SPECIFICATION FairSpec
CONSTANTS
  Starts = {s1, s2}
  Ends = {e1, e2}
  Failing = {"bridge.init", "bridge.start", "bridge.stop", "session.end"}
INVARIANTS TypeOK AllReleased ClientAgrees OneSessionPerSocket ReportedReleased
PROPERTY ClosedIsReleased
CHECK_DEADLOCK FALSE
