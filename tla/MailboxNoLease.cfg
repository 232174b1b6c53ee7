SPECIFICATION Spec
CONSTANTS
  w1 = w1
  w2 = w2
  w3 = w3
  i1 = i1
  i2 = i2
  NoKey = NoKey
  NoWorker = NoWorker
  Workers = {w1, w2}
  Inboxes = {i1}
  Sources = {a}
  Keys = {k}
  WorkerInbox <- MCWorkerInbox
  CanHang = {w1}
  LeaseMs = 0
  MaxMessages = 3
  MaxAge = 1
  BatchSize = 2
  Concurrency = 2
INVARIANTS
  NoDuplicateSend
PROPERTIES
  ImplementsTaskQueue
