\* One run of the learning loop beside one compile.
SPECIFICATION Spec
CONSTANTS
  Runs = {r1}
  Compiles = {c1}
  Builds = {}
  Plans = {}
  Requests = {}
  Session <- MCSession
  Actions = {"apply"}
  Failing = {}
  MaxRestarts = 0
INVARIANT VersionsAppendOnly
CHECK_DEADLOCK FALSE
