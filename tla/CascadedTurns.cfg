SPECIFICATION FairSpec
CONSTANTS
  Turns = {t1, t2}
  Greetings = {t2}
  HasStt = TRUE
  Notes = {n1}
  MaxIterations = 1
  MaxCalls = 2
INVARIANTS TypeOK WaitsCanEnd CancelReaches
PROPERTIES ImplementsConversation TurnsEnd
