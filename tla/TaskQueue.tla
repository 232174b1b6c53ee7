------------------------------ MODULE TaskQueue ------------------------------
(***************************************************************************)
(* What the mailbox and its workers promise the agents that coordinate     *)
(* through them: a task is submitted once, belongs to one worker from the  *)
(* moment it is claimed, and is settled once, by that worker.              *)
(***************************************************************************)
CONSTANTS Tasks, Workers, NoWorker

VARIABLES
  state,  \* where each task is in its life
  owner   \* the worker it was claimed by

vars == <<state, owner>>

Settled == {"completed", "failed", "canceled"}

Init ==
  /\ state = [t \in Tasks |-> "absent"]
  /\ owner = [t \in Tasks |-> NoWorker]

Submit(t) ==
  /\ state[t] = "absent"
  /\ state' = [state EXCEPT ![t] = "queued"]
  /\ UNCHANGED owner

\* A worker claims a batch at once.
Claim(w, batch) ==
  /\ \A t \in batch : state[t] = "queued"
  /\ state' = [t \in Tasks |-> IF t \in batch THEN "claimed" ELSE state[t]]
  /\ owner' = [t \in Tasks |-> IF t \in batch THEN w ELSE owner[t]]

Settle(t, outcome) ==
  /\ state[t] = "claimed"
  /\ state' = [state EXCEPT ![t] = outcome]
  /\ UNCHANGED owner

Next ==
  \/ \E t \in Tasks : Submit(t)
  \/ \E w \in Workers, batch \in SUBSET Tasks : Claim(w, batch)
  \/ \E t \in Tasks, outcome \in Settled : Settle(t, outcome)

Spec == Init /\ [][Next]_vars
=============================================================================
