\* end() while a tool call is processed.
SPECIFICATION Spec
CONSTANTS
  Calls = {c1}
  Starters = {s1}
  Enders = {e1}
INVARIANT EndedIsFinal
CHECK_DEADLOCK FALSE
