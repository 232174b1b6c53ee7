\* One approved action, two executors.
SPECIFICATION Spec
CONSTANTS
  r1 = r1
  r2 = r2
  r3 = r3
  write = write
  read = read
  Requests = {r1, r2}
  Tools = {write}
  ToolOf <- WriteTools
  Confirmed = {write}
  Quota = 0
  Ttl = 0
  Limit = 0
  Executors = {x1, x2}
  Deciders = {d1}
  AuditFails = FALSE
INVARIANT HandlerRunsOnce
CHECK_DEADLOCK FALSE
