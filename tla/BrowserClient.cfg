\* Two connect() calls of one host at any time, in every audio mode; no
\* symmetry, for the liveness property.
SPECIFICATION FairSpec
CONSTANTS
  Calls = {c1, c2}
  Modes = {"microphone", "silent", "unsupported"}
  MaxAttempts = 2
  MaxHangUps = 2
INVARIANTS TypeOK OneConnectionPerClient ReleasedAfterHangUp
PROPERTIES IdleUntilConnect GivesUp
CHECK_DEADLOCK FALSE
