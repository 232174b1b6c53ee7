SPECIFICATION FairTasksSpec
CONSTANTS
  w1 = w1
  w2 = w2
  w3 = w3
  i1 = i1
  i2 = i2
  NoKey = NoKey
  NoWorker = NoWorker
  Workers = {w1, w2}
  Inboxes = {i1}
  Sources = {a}
  Keys = {}
  WorkerInbox <- MCWorkerInbox
  CanHang = {w1}
  Tasks = {t}
  NoTask = NoTask
  Cancels = {c}
  LeaseMs = 1
  MaxMessages = 2
  MaxAge = 1
  BatchSize = 2
  Concurrency = 1
INVARIANTS
  TasksTypeOK
  ClaimHasKeeper
  StoppedNeverHandled
PROPERTIES
  TerminalNeverReopened
  EventuallySettled
CONSTRAINT MCUnwatched
