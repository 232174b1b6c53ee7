\* Overlapping function calls beside a start() that may be called again and two
\* end() calls, at any time; no symmetry, for the liveness property.
SPECIFICATION FairSpec
CONSTANTS
  Calls = {c1, c2}
  Starters = {s1, s2}
  Enders = {e1, e2}
INVARIANTS TypeOK ToolAccounting HostAndModelAgree ConnectionKnown EndedMeansDisconnected
PROPERTIES NoRevival CallsSettle
CHECK_DEADLOCK FALSE
