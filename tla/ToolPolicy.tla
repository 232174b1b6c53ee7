----------------------------- MODULE ToolPolicy -----------------------------
(***************************************************************************)
(* The policy engine between the model's tool calls and the handlers of    *)
(* the tools, over the port of pending actions.  execute() runs a request, *)
(* or holds it as a pending action; a human decides on it; the host then   *)
(* has the engine execute the approved action.  The host's authorization,  *)
(* audit and handlers are asynchronous, so that calls of the engine        *)
(* interleave at every await; an action is the code between two of them.   *)
(***************************************************************************)
EXTENDS PendingActions

CONSTANTS
  Tools,
  ToolOf,      \* the tool each request calls
  Confirmed,   \* the tools that need a confirmation
  Limit,       \* maxCallsPerSession of every tool, 0 for none
  Executors,   \* hosts that execute approved actions, one at a time each
  Deciders,    \* hosts that approve or reject actions, one at a time each
  AuditFails   \* may the host's audit reject

ASSUME PolicyAssumption ==
  /\ ToolOf \in [Requests -> Tools]
  /\ IsFiniteSet(Executors)
  /\ Confirmed \subseteq Tools
  /\ Limit \in Nat
  /\ AuditFails \in BOOLEAN

VARIABLES
  request,    \* where execute() is for each request
  executing,  \* where executeApprovedPendingAction() is for each executor
  target,     \* the request whose action the executor works on
  reading,    \* the request each decider has read, itself when idle
  counts,     \* callCounts of the session
  started,    \* history: how often the handler was started for a request
  approved,   \* history: the requests a decider approved
  contested   \* history: those an executor found approved while another one
              \*   was at work on them

engineVars == <<request, executing, target, reading, counts, started, approved, contested>>
vars == <<action, left, request, executing, target, reading, counts, started,
          approved, contested>>

Idle == "idle"
RequestPhase == {"new", "authorizing", "asked", "starting", "running",
                 "held", "returned", "thrown"}
ExecutorPhase == {Idle, "authorizing", "starting", "running", "auditing"}

TypeOK ==
  /\ PortTypeOK
  /\ request \in [Requests -> RequestPhase]
  /\ executing \in [Executors -> ExecutorPhase]
  /\ target \in [Executors -> Requests \cup {Idle}]
  /\ reading \in [Deciders -> Requests \cup {Idle}]
  /\ counts \in [Tools -> Nat]
  /\ started \in [Requests -> Nat]
  /\ approved \in SUBSET Requests
  /\ contested \in SUBSET Requests

Init ==
  /\ PortInit
  /\ request = [r \in Requests |-> "new"]
  /\ executing = [x \in Executors |-> Idle]
  /\ target = [x \in Executors |-> Idle]
  /\ reading = [d \in Deciders |-> Idle]
  /\ counts = [t \in Tools |-> 0]
  /\ started = [r \in Requests |-> 0]
  /\ approved = {}
  /\ contested = {}

\* Mutant: one more call than the limit.
LimitReachedLate(t) == Limit # 0 /\ counts[t] > Limit

LimitReached(t) == Limit # 0 /\ counts[t] >= Limit

\* The count and the call of the handler, after the audit of the start.
StartHandler(r) ==
  /\ counts' = [counts EXCEPT ![ToolOf[r]] = @ + 1]
  /\ started' = [started EXCEPT ![r] = @ + 1]

Request(r, from, to) ==
  /\ request[r] = from
  /\ request' = [request EXCEPT ![r] = to]

-----------------------------------------------------------------------------
\* execute()

Ask(r) ==
  /\ Request(r, "new", "authorizing")
  /\ UNCHANGED <<portVars, executing, target, reading, counts, started, approved, contested>>

\* Invalid arguments, no authorization, or an audit that rejects.
Reject(r) ==
  /\ \/ Request(r, "new", "thrown")
     \/ Request(r, "authorizing", "thrown")
     \/ AuditFails /\ Request(r, "asked", "thrown")
     \/ AuditFails /\ Request(r, "starting", "thrown")
  /\ UNCHANGED <<portVars, executing, target, reading, counts, started, approved, contested>>

NeedsConfirmation(r) == ToolOf[r] \in Confirmed

\* Authorized: the limit is checked, then the request is held or started.
Authorized(r) ==
  /\ \/ /\ LimitReached(ToolOf[r])
        /\ Request(r, "authorizing", "thrown")
        /\ UNCHANGED portVars
     \/ /\ ~LimitReached(ToolOf[r])
        /\ NeedsConfirmation(r)
        /\ \/ Create(r) /\ Request(r, "authorizing", "asked")
           \/ CreateRefused(r) /\ Request(r, "authorizing", "thrown")
     \/ /\ ~LimitReached(ToolOf[r])
        /\ ~NeedsConfirmation(r)
        /\ Request(r, "authorizing", "starting")
        /\ UNCHANGED portVars
  /\ UNCHANGED <<executing, target, reading, counts, started, approved, contested>>

Hold(r) ==
  /\ Request(r, "asked", "held")
  /\ UNCHANGED <<portVars, executing, target, reading, counts, started, approved, contested>>

Run(r) ==
  /\ Request(r, "starting", "running")
  /\ StartHandler(r)
  /\ UNCHANGED <<portVars, executing, target, reading, approved, contested>>

\* The handler returns, throws or is timed out.
RunEnds(r) ==
  /\ \/ Request(r, "running", "returned")
     \/ Request(r, "running", "thrown")
  /\ UNCHANGED <<portVars, executing, target, reading, counts, started, approved, contested>>

-----------------------------------------------------------------------------
\* The host's decisions: the action is read, and resolved after an await.

Consider(d, r) ==
  /\ reading[d] = Idle
  /\ action[r] # "none"
  /\ Get(r)
  /\ Swept({r})[r] = "confirmation_required"
  /\ reading' = [reading EXCEPT ![d] = r]
  /\ UNCHANGED <<request, executing, target, counts, started, approved, contested>>

Decide(d, status) ==
  /\ reading[d] # Idle
  /\ Resolve(reading[d], status)
  /\ approved' = IF status = "approved" /\ ~ResolveThrows(reading[d])
                 THEN approved \cup {reading[d]} ELSE approved
  /\ reading' = [reading EXCEPT ![d] = Idle]
  /\ UNCHANGED <<request, executing, target, counts, started, contested>>

-----------------------------------------------------------------------------
\* executeApprovedPendingAction()

Executor(x, from, to) ==
  /\ executing[x] = from
  /\ executing' = [executing EXCEPT ![x] = to]
  /\ target' = IF to = Idle THEN [target EXCEPT ![x] = Idle] ELSE target

\* Mutant: any open action is executed.
ExecutableOpen(status) == status \in Open

Executable(status) == status = "approved"

\* An action that may not be executed is only read: the call throws.
Fetch(x, r) ==
  /\ executing[x] = Idle
  /\ action[r] # "none"
  /\ Get(r)
  /\ IF Executable(Swept({r})[r])
     THEN /\ executing' = [executing EXCEPT ![x] = "authorizing"]
          /\ target' = [target EXCEPT ![x] = r]
          /\ contested' = IF \E y \in Executors : target[y] = r
                          THEN contested \cup {r} ELSE contested
     ELSE UNCHANGED <<executing, target, contested>>
  /\ UNCHANGED <<request, reading, counts, started, approved>>

\* Invalid arguments, no authorization, the limit, or an audit that rejects.
Abandon(x) ==
  /\ \/ Executor(x, "authorizing", Idle)
     \/ AuditFails /\ Executor(x, "starting", Idle)
  /\ UNCHANGED <<portVars, request, reading, counts, started, approved, contested>>

Admit(x) ==
  /\ Executor(x, "authorizing", "starting")
  /\ ~LimitReached(ToolOf[target[x]])
  /\ UNCHANGED <<portVars, request, reading, counts, started, approved, contested>>

RunApproved(x) ==
  /\ Executor(x, "starting", "running")
  /\ StartHandler(target[x])
  /\ UNCHANGED <<portVars, request, reading, approved, contested>>

\* The handler returned: the action is executed, unless it has expired while
\* the handler ran; then resolve() throws, in the catch as well.
Succeed(x) ==
  /\ Executor(x, "running", IF ResolveThrows(target[x]) THEN Idle ELSE "auditing")
  /\ Resolve(target[x], "executed")
  /\ UNCHANGED <<request, reading, counts, started, approved, contested>>

\* Mutant: a handler that failed gives the action back for a retry.
FailRetryable(x) ==
  /\ Executor(x, "running", Idle)
  /\ UNCHANGED <<portVars, request, reading, counts, started, approved, contested>>

\* The handler threw or was timed out.
Fail(x) ==
  /\ Executor(x, "running", Idle)
  /\ Resolve(target[x], "failed")
  /\ UNCHANGED <<request, reading, counts, started, approved, contested>>

\* The audit of the completion; if it rejects, the catch resolves "failed".
Audited(x) ==
  /\ Executor(x, "auditing", Idle)
  /\ \/ UNCHANGED portVars
     \/ AuditFails /\ Resolve(target[x], "failed")
  /\ UNCHANGED <<request, reading, counts, started, approved, contested>>

-----------------------------------------------------------------------------

Execute(r) ==
  Ask(r) \/ Reject(r) \/ Authorized(r) \/ Hold(r) \/ Run(r) \/ RunEnds(r)

Approve(d) ==
  \/ \E r \in Requests : Consider(d, r)
  \/ \E status \in {"approved", "rejected"} : Decide(d, status)

ExecuteApproved(x) ==
  \/ \E r \in Requests : Fetch(x, r)
  \/ Abandon(x) \/ Admit(x) \/ RunApproved(x) \/ Succeed(x) \/ Fail(x) \/ Audited(x)

Next == \/ \E r \in Requests : Execute(r)
        \/ \E d \in Deciders : Approve(d)
        \/ \E x \in Executors : ExecuteApproved(x)
        \/ Tick /\ UNCHANGED engineVars

Spec == Init /\ [][Next]_vars

-----------------------------------------------------------------------------

\* The handler of a tool that needs a confirmation never runs for a request
\* that no decider has approved: not on the model's word, not after a
\* rejection or an expiry.
OnlyApprovedRun ==
  \A r \in Requests :
    started[r] > 0 /\ ToolOf[r] \in Confirmed => r \in approved

\* With one decider at a time, the status of an action tells whether its
\* handler was run: a rejected or waiting one was not, an executed or failed
\* one was; and only once, unless executors met on it.
StatusTruthful ==
  \A r \in Requests :
    /\ action[r] \in {"confirmation_required", "rejected"} => started[r] = 0
    /\ action[r] \in {"executed", "failed"} =>
         started[r] > 0 /\ (r \notin contested => started[r] = 1)

\* The limit of calls is checked before an await and the call counted after
\* it, so that executors which overlap start a tool that needs a confirmation
\* beyond its limit; they do so at most once for each of them but one, however
\* often they retry, and whichever calls fail, expire or end meanwhile.
LimitRespected ==
  Limit # 0 => \A t \in Confirmed : counts[t] < Limit + Cardinality(Executors)

\* An action that was closed is never open again.
ClosedForGood ==
  [][\A r \in Requests : action[r] \in Closed => action'[r] \in Closed]_vars

\* Claimed: a handler runs exactly once after its approval.
HandlerRunsOnce == \A r \in Requests : r \in approved => started[r] <= 1

=============================================================================
