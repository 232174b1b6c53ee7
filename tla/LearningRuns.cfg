\* Two reports of the end of one session; a compile, a build and two requests of
\* the host beside them.
SPECIFICATION Spec
CONSTANTS
  Runs = {r1, r2}
  Compiles = {c1}
  Builds = {b1}
  Plans = {}
  Requests = {q1, q2}
  Session <- MCSession
  Actions = {"write_memory", "pending_approval", "reject", "apply"}
  Failing = {"sink", "ports", "activation"}
  MaxRestarts = 1
SYMMETRY MCSymmetry
INVARIANTS TypeOK LearnedOnce StatusTellsTheDraft RiskyNeedsApproval
PROPERTIES EvolutionsSerialize
CHECK_DEADLOCK FALSE
