------------------------ MODULE SessionStateMachine ------------------------
(***************************************************************************)
(* The session state machine: the table of transitions and transition().   *)
(* A session ignores a transition the machine refuses, so each request is  *)
(* a function from the state before to the state after.                    *)
(***************************************************************************)

Terminal == {"ended", "fatal_error", "auth_failed"}

\* Mutant: an error can be recovered from.
ErrorNextRecovers == {"active", "ending", "fatal_error"}

\* What may follow an error.
ErrorNext == {"ending", "fatal_error"}

IsValidTransition(from, to) ==
  \/ from = "initializing" /\ to \in {"connecting", "error"}
  \/ from = "connecting" /\ to \in {"authenticating", "active", "error"}
  \/ /\ from = "authenticating"
     /\ to \in {"awaiting_pin", "active", "error", "auth_failed"}
  \/ from = "awaiting_pin" /\ to \in {"verifying_pin", "error", "auth_failed"}
  \/ /\ from = "verifying_pin"
     /\ to \in {"active", "awaiting_pin", "error", "auth_failed"}
  \/ /\ from = "active"
     /\ to \in {"listening", "speaking", "processing", "interrupted", "paused",
               "quota_warning", "ending", "error"}
  \/ /\ from = "listening"
     /\ to \in {"speaking", "processing", "interrupted", "active", "ending", "error"}
  \/ /\ from = "speaking"
     /\ to \in {"listening", "processing", "interrupted", "active", "ending", "error"}
  \/ /\ from = "processing"
     /\ to \in {"processing_tool", "speaking", "active", "error"}
  \/ /\ from = "processing_tool"
     /\ to \in {"speaking", "active", "processing", "error"}
  \/ from = "interrupted" /\ to \in {"listening", "active", "ending", "error"}
  \/ from = "paused" /\ to \in {"active", "ending", "error"}
  \/ /\ from = "quota_warning"
     /\ to \in {"active", "listening", "speaking", "ending", "error"}
  \/ from = "ending" /\ to \in {"ended", "error"}
  \/ from = "error" /\ to \in ErrorNext

States ==
  {"initializing", "connecting", "authenticating", "awaiting_pin",
   "verifying_pin", "active", "listening", "speaking", "processing",
   "processing_tool", "interrupted", "paused", "quota_warning", "ending",
   "ended", "error", "fatal_error", "auth_failed"}

\* The state after transitionTo(to): a refused transition changes nothing,
\* and neither does a transition to the state the session is in.
After(s, to) == IF IsValidTransition(s, to) THEN to ELSE s

\* Two transitions in a row, as processing then processing_tool.
AfterBoth(s, first, second) == After(After(s, first), second)
=============================================================================
