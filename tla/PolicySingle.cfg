\* One decider and two executors that overlap, two held requests and one that
\* runs at once; a quota of one, actions that expire, audits that reject.
SPECIFICATION Spec
CONSTANTS
  r1 = r1
  r2 = r2
  r3 = r3
  write = write
  read = read
  Requests = {r1, r2, r3}
  Tools = {write, read}
  ToolOf <- MixedTools
  Confirmed = {write}
  Quota = 1
  Ttl = 2
  Limit = 2
  Executors = {x1, x2}
  Deciders = {d1}
  AuditFails = TRUE
SYMMETRY PolicySymmetry
INVARIANTS QuotaRespected LimitRespected StatusTruthful OnlyApprovedRun
PROPERTY ClosedForGood
CHECK_DEADLOCK FALSE
