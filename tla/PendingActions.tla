--------------------------- MODULE PendingActions ---------------------------
(***************************************************************************)
(* The in-memory port of pending actions, for the requests of one session: *)
(* an action waits for a confirmation for at most Ttl ticks, and a session *)
(* may have Quota of them open.  Expiry is lazy: an action whose time is   *)
(* over is marked when it is next read, resolved or counted.               *)
(*                                                                         *)
(* A pending action is named by the request it holds.                      *)
(***************************************************************************)
EXTENDS Integers, FiniteSets

CONSTANTS
  Requests,  \* tool calls the model makes
  Quota,     \* maxPendingActionsPerSession, 0 for none
  Ttl        \* life of an action in ticks, 0 for no expiry

ASSUME PendingAssumption ==
  /\ IsFiniteSet(Requests)
  /\ Quota \in Nat
  /\ Ttl \in Nat

VARIABLES
  action,  \* status of the action of each request, "none" before it is made
  left     \* ticks until it expires

portVars == <<action, left>>

NoExpiry == -1
Open == {"confirmation_required", "approved"}
Closed == {"rejected", "expired", "executed", "failed"}

PortTypeOK ==
  /\ action \in [Requests -> {"none"} \cup Open \cup Closed]
  /\ left \in [Requests -> {NoExpiry} \cup (0..Ttl)]

PortInit ==
  /\ action = [r \in Requests |-> "none"]
  /\ left = [r \in Requests |-> NoExpiry]

Due(r) == action[r] \in Open /\ left[r] = 0

\* The statuses once the due actions among `rs' are marked.
Swept(rs) == [r \in Requests |-> IF r \in rs /\ Due(r) THEN "expired" ELSE action[r]]

OpenRequests(statuses) == {r \in Requests : statuses[r] \in Open}

\* Mutant: one more action than the quota.
QuotaReachedLate == Quota # 0 /\ Cardinality(OpenRequests(Swept(Requests))) > Quota

QuotaReached == Quota # 0 /\ Cardinality(OpenRequests(Swept(Requests))) >= Quota

Create(r) ==
  /\ action[r] = "none"
  /\ ~QuotaReached
  /\ action' = [Swept(Requests) EXCEPT ![r] = "confirmation_required"]
  /\ left' = [left EXCEPT ![r] = IF Ttl = 0 THEN NoExpiry ELSE Ttl]

CreateRefused(r) ==
  /\ action[r] = "none"
  /\ QuotaReached
  /\ action' = Swept(Requests)
  /\ UNCHANGED left

\* get(): the status of the record it returns is Swept({r})[r].
Get(r) ==
  /\ action' = Swept({r})
  /\ UNCHANGED left

\* Mutant: an expired action can still be resolved.
ResolveAnyway(r, status) ==
  /\ action' = [action EXCEPT ![r] = status]
  /\ UNCHANGED left

\* resolve(): anything but an expired action takes the new status; an
\* expired one is refused.
Resolve(r, status) ==
  /\ action' = IF Swept({r})[r] = "expired" THEN Swept({r})
               ELSE [action EXCEPT ![r] = status]
  /\ UNCHANGED left

\* Does resolve() throw?
ResolveThrows(r) == Swept({r})[r] = "expired"

Tick ==
  /\ left' = [r \in Requests |-> IF left[r] > 0 THEN left[r] - 1 ELSE left[r]]
  /\ UNCHANGED action

-----------------------------------------------------------------------------

\* A session never has more actions open than its quota, counting those
\* whose time is over but not yet noticed, however decisions, executions and
\* expiry interleave with new ones.
QuotaRespected == Quota # 0 => Cardinality(OpenRequests(action)) <= Quota
=============================================================================
