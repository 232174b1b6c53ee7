-------------------------- MODULE ToolPolicyProofs --------------------------
(***************************************************************************)
(* Safety of the policy engine for any requests, tools and executors: its  *)
(* types, no execution without an approval, and, if the host has one       *)
(* decider, that closed actions stay closed and the quota holds.           *)
(***************************************************************************)
EXTENDS ToolPolicy, TLAPS, FiniteSetTheorems

Status == {"none"} \cup Open \cup Closed

\* Marking due actions yields statuses of actions, and opens none.
LEMMA SweptType ==
  ASSUME PortTypeOK, NEW rs
  PROVE  /\ Swept(rs) \in [Requests -> Status]
         /\ \A r \in Requests : Swept(rs)[r] \in {action[r], "expired"}
         /\ \A r \in Requests : action[r] \notin Open => Swept(rs)[r] = action[r]
  BY DEF PortTypeOK, Swept, Due, Status, Closed

\* An action at most expires, if it is open; or at most is closed, in any way.
Slid(r) ==
  /\ action'[r] \in {action[r], "expired"}
  /\ action[r] \notin Open => action'[r] = action[r]
Kept(r) == action'[r] = action[r] \/ action'[r] \in Closed

LEMMA SlidKept ==
  ASSUME NEW r, Slid(r) PROVE Kept(r)
  BY DEF Slid, Kept, Closed

\* create(): the others are swept, and the new action waits.
LEMMA CreateStep ==
  ASSUME PortTypeOK, PendingAssumption, NEW r \in Requests, Create(r)
  PROVE  /\ PortTypeOK'
         /\ action'[r] = "confirmation_required"
         /\ \A q \in Requests \ {r} : Slid(q)
<1>1. action' = [Swept(Requests) EXCEPT ![r] = "confirmation_required"]
  BY DEF Create
<1>2. action' \in [Requests -> Status] /\ action'[r] = "confirmation_required"
  BY <1>1, SweptType DEF Status, Open
<1>3. \A q \in Requests \ {r} : action'[q] = Swept(Requests)[q]
  BY <1>1, SweptType
<1>4. left' \in [Requests -> {NoExpiry} \cup (0..Ttl)]
  BY DEF Create, PortTypeOK, PendingAssumption
<1> QED
  BY <1>2, <1>3, <1>4, SweptType DEF PortTypeOK, Slid, Status

\* Reading an action, refusing a new one and the passing of time.
LEMMA SweepStep ==
  ASSUME PortTypeOK, PendingAssumption, NEW r \in Requests,
         CreateRefused(r) \/ Get(r) \/ Tick \/ UNCHANGED portVars
  PROVE  PortTypeOK' /\ \A q \in Requests : Slid(q)
<1>1. CASE CreateRefused(r)
  BY <1>1, SweptType DEF CreateRefused, PortTypeOK, Slid, Status
<1>2. CASE Get(r)
  BY <1>2, SweptType DEF Get, PortTypeOK, Slid, Status
<1>3. CASE Tick
  BY <1>3 DEF Tick, PortTypeOK, PendingAssumption, NoExpiry, Slid
<1>4. CASE UNCHANGED portVars
  BY <1>4 DEF portVars, PortTypeOK, Slid
<1> QED
  BY <1>1, <1>2, <1>3, <1>4

\* resolve(): the one action expires or takes the status.
LEMMA ResolveStep ==
  ASSUME PortTypeOK, NEW r \in Requests, NEW s \in Open \cup Closed, Resolve(r, s)
  PROVE  /\ PortTypeOK'
         /\ action'[r] = IF ResolveThrows(r) THEN "expired" ELSE s
         /\ \A q \in Requests \ {r} : action'[q] = action[q]
<1>1. CASE ResolveThrows(r)
  <2>1. action' = Swept({r}) /\ action'[r] = "expired" /\ left' = left
    BY <1>1 DEF Resolve, ResolveThrows
  <2>2. \A q \in Requests \ {r} : action'[q] = action[q]
    BY <2>1 DEF Swept, PortTypeOK
  <2> QED
    BY <1>1, <2>1, <2>2, SweptType DEF PortTypeOK, Status
<1>2. CASE ~ResolveThrows(r)
  <2>1. action' = [action EXCEPT ![r] = s] /\ left' = left
    BY <1>2 DEF Resolve, ResolveThrows
  <2> QED
    BY <1>2, <2>1 DEF PortTypeOK
<1> QED
  BY <1>1, <1>2

-----------------------------------------------------------------------------

EngineTypeOK ==
  /\ request \in [Requests -> RequestPhase]
  /\ executing \in [Executors -> ExecutorPhase]
  /\ target \in [Executors -> Requests \cup {Idle}]
  /\ reading \in [Deciders -> Requests \cup {Idle}]
  /\ counts \in [Tools -> Nat]
  /\ started \in [Requests -> Nat]
  /\ approved \in SUBSET Requests
  /\ contested \in SUBSET Requests

\* Only a decision makes an action approved.
ApprovedByHost == \A r \in Requests : action[r] = "approved" => r \in approved

\* An executor works on an action that was approved.
WorksOnApproved == \A x \in Executors : executing[x] # Idle => target[x] \in approved

\* What execute() starts at once needs no confirmation.
DirectUnconfirmed ==
  \A r \in Requests :
    request[r] \in {"starting", "running"} => ToolOf[r] \notin Confirmed

IInv ==
  /\ PortTypeOK
  /\ EngineTypeOK
  /\ ApprovedByHost
  /\ WorksOnApproved
  /\ DirectUnconfirmed
  /\ OnlyApprovedRun

\* No handler runs and no decision is taken.
LEMMA KeptKeepsApproval ==
  ASSUME IInv, \A r \in Requests : Kept(r) \/ action'[r] = "confirmation_required",
         approved' = approved
  PROVE  ApprovedByHost'
  BY DEF IInv, Kept, Closed, ApprovedByHost

LEMMA InitIInv ==
  ASSUME PendingAssumption, PolicyAssumption, Init
  PROVE  IInv
<1>1. PortTypeOK
  BY DEF Init, PortInit, PortTypeOK
<1>2. EngineTypeOK
  BY DEF Init, EngineTypeOK, RequestPhase, ExecutorPhase
<1> QED
  BY <1>1, <1>2 DEF Init, PortInit, IInv, ApprovedByHost, WorksOnApproved,
     DirectUnconfirmed, OnlyApprovedRun

\* The steps of execute().
LEMMA ExecuteStep ==
  ASSUME IInv, PendingAssumption, PolicyAssumption, NEW r \in Requests, Execute(r)
  PROVE  IInv'
<1> USE DEF IInv
<1>1. UNCHANGED <<executing, target, reading, approved>>
  BY DEF Execute, Ask, Reject, Authorized, Hold, Run, RunEnds
<1>2. WorksOnApproved'
  BY <1>1 DEF WorksOnApproved
<1>3. PortTypeOK' /\ ApprovedByHost'
  <2>1. CASE UNCHANGED portVars
    BY <2>1, <1>1, SweepStep, SlidKept, KeptKeepsApproval
  <2>2. CASE Create(r)
    BY <2>2, <1>1, CreateStep, SlidKept, KeptKeepsApproval
  <2>3. CASE CreateRefused(r)
    BY <2>3, <1>1, SweepStep, SlidKept, KeptKeepsApproval
  <2> QED
    BY <2>1, <2>2, <2>3 DEF Execute, Ask, Reject, Authorized, Hold, Run, RunEnds
<1>4. CASE Run(r)
  <2>1. EngineTypeOK'
    BY <1>4 DEF EngineTypeOK, Run, StartHandler, Request, RequestPhase, PolicyAssumption
  <2>2. DirectUnconfirmed'
    BY <1>4 DEF DirectUnconfirmed, EngineTypeOK, Run, Request
  <2>3. OnlyApprovedRun'
    <3>1. ToolOf[r] \notin Confirmed
      BY <1>4 DEF DirectUnconfirmed, Run, Request
    <3> QED
      BY <1>1, <1>4, <3>1 DEF OnlyApprovedRun, EngineTypeOK, Run, StartHandler
  <2> QED
    BY <1>2, <1>3, <2>1, <2>2, <2>3
<1>5. CASE ~Run(r)
  <2>1. UNCHANGED <<counts, started>>
    BY <1>5 DEF Execute, Ask, Reject, Authorized, Hold, RunEnds
  <2>2. EngineTypeOK'
    BY <1>1, <1>5, <2>1 DEF EngineTypeOK, Execute, Ask, Reject, Authorized, Hold,
       RunEnds, Request, RequestPhase
  <2>3. DirectUnconfirmed'
    BY <1>5 DEF DirectUnconfirmed, EngineTypeOK, Execute, Ask, Reject, Authorized,
       Hold, RunEnds, Request, NeedsConfirmation
  <2>4. OnlyApprovedRun'
    BY <1>1, <2>1 DEF OnlyApprovedRun
  <2> QED
    BY <1>2, <1>3, <2>2, <2>3, <2>4
<1> QED
  BY <1>4, <1>5

\* The steps of a decider.
LEMMA ApproveStep ==
  ASSUME IInv, PendingAssumption, NEW d \in Deciders, Approve(d)
  PROVE  IInv'
<1> USE DEF IInv
<1>1. CASE \E r \in Requests : Consider(d, r)
  <2>1. PICK r \in Requests : Consider(d, r)
    BY <1>1
  <2>2. PortTypeOK' /\ ApprovedByHost'
    BY <2>1, SweepStep, SlidKept, KeptKeepsApproval DEF Consider
  <2>3. EngineTypeOK'
    BY <2>1 DEF EngineTypeOK, Consider
  <2> QED
    BY <2>1, <2>2, <2>3 DEF Consider, WorksOnApproved, DirectUnconfirmed, OnlyApprovedRun
<1>2. CASE \E s \in {"approved", "rejected"} : Decide(d, s)
  <2>1. PICK s \in {"approved", "rejected"} : Decide(d, s)
    BY <1>2
  <2>2. reading[d] \in Requests
    BY <2>1 DEF EngineTypeOK, Decide
  <2> DEFINE r == reading[d]
  <2>3. s \in Open \cup Closed
    BY DEF Open, Closed
  <2>4. /\ PortTypeOK'
        /\ action'[r] = IF ResolveThrows(r) THEN "expired" ELSE s
        /\ \A q \in Requests \ {r} : action'[q] = action[q]
    <3> HIDE DEF r
    <3>1. Resolve(r, s)
      BY <2>1 DEF Decide, r
    <3>2. r \in Requests
      BY <2>2 DEF r
    <3> QED
      BY <3>1, <3>2, <2>3, ResolveStep
  <2>5. approved \subseteq approved' /\ approved' \in SUBSET Requests
    BY <2>1, <2>2 DEF Decide, EngineTypeOK
  <2>6. ApprovedByHost'
    <3> SUFFICES ASSUME NEW q \in Requests, action'[q] = "approved"
                 PROVE  q \in approved'
      BY DEF ApprovedByHost
    <3>1. CASE q = r
      BY <3>1, <2>1, <2>4 DEF Decide
    <3>2. CASE q # r
      BY <3>2, <2>4, <2>5 DEF ApprovedByHost
    <3> QED
      BY <3>1, <3>2
  <2>7. EngineTypeOK'
    BY <2>1, <2>5 DEF Decide, EngineTypeOK
  <2> QED
    BY <2>1, <2>4, <2>5, <2>6, <2>7 DEF Decide, WorksOnApproved, DirectUnconfirmed,
       OnlyApprovedRun
<1> QED
  BY <1>1, <1>2 DEF Approve

\* resolve() by an executor, to "executed" or "failed", closes the action.
LEMMA CloseStep ==
  ASSUME PortTypeOK, NEW r \in Requests, NEW s \in {"executed", "failed"}, Resolve(r, s)
  PROVE  PortTypeOK' /\ \A q \in Requests : Kept(q)
<1>1. s \in Open \cup Closed
  BY DEF Closed
<1>2. action'[r] = IF ResolveThrows(r) THEN "expired" ELSE s
  BY <1>1, ResolveStep
<1>3. action'[r] \in Closed
  BY <1>2 DEF Closed
<1> QED
  BY <1>1, <1>3, ResolveStep DEF Kept

\* What an executor does to the actions.
LEMMA ExecutorPort ==
  ASSUME PortTypeOK, EngineTypeOK, WorksOnApproved, PendingAssumption,
         NEW x \in Executors, ExecuteApproved(x)
  PROVE  PortTypeOK' /\ \A q \in Requests : Kept(q)
<1>1. CASE \E r \in Requests : Fetch(x, r)
  BY <1>1, SweepStep, SlidKept DEF Fetch
<1>2. CASE Abandon(x) \/ Admit(x) \/ RunApproved(x)
  BY <1>2 DEF Abandon, Admit, RunApproved, portVars, PortTypeOK, Kept
<1>3. CASE Succeed(x) \/ Fail(x) \/ Audited(x)
  <2>1. executing[x] # Idle
    BY <1>3 DEF Succeed, Fail, Audited, Executor, Idle
  <2>2. target[x] \in Requests
    BY <2>1 DEF WorksOnApproved, EngineTypeOK
  <2>3. \/ UNCHANGED portVars
        \/ \E s \in {"executed", "failed"} : Resolve(target[x], s)
    BY <1>3 DEF Succeed, Fail, Audited
  <2>4. CASE UNCHANGED portVars
    BY <2>4 DEF portVars, PortTypeOK, Kept
  <2>5. CASE \E s \in {"executed", "failed"} : Resolve(target[x], s)
    BY <2>2, <2>5, CloseStep
  <2> QED
    BY <2>3, <2>4, <2>5
<1> QED
  BY <1>1, <1>2, <1>3 DEF ExecuteApproved

\* The steps of an executor.
LEMMA ExecuteApprovedStep ==
  ASSUME IInv, PendingAssumption, PolicyAssumption, NEW x \in Executors,
         ExecuteApproved(x)
  PROVE  IInv'
<1> USE DEF IInv
<1>1. UNCHANGED <<request, reading, approved>>
  BY DEF ExecuteApproved, Fetch, Abandon, Admit, RunApproved, Succeed, Fail, Audited
<1>2. PortTypeOK' /\ ApprovedByHost'
  BY <1>1, ExecutorPort, KeptKeepsApproval
<1>3. DirectUnconfirmed'
  BY <1>1 DEF DirectUnconfirmed
<1>4. CASE \E r \in Requests : Fetch(x, r)
  <2>1. PICK r \in Requests : Fetch(x, r)
    BY <1>4
  <2>2. WorksOnApproved'
    <3>1. Swept({r})[r] = "approved" => r \in approved
      BY SweptType DEF ApprovedByHost
    <3> QED
      BY <1>1, <2>1, <3>1 DEF Fetch, Executable, WorksOnApproved, EngineTypeOK
  <2>3. EngineTypeOK'
    BY <2>1 DEF Fetch, EngineTypeOK, ExecutorPhase
  <2> QED
    BY <1>2, <1>3, <2>1, <2>2, <2>3 DEF Fetch, OnlyApprovedRun
<1>5. CASE ~\E r \in Requests : Fetch(x, r)
  <2>1. PICK from \in ExecutorPhase \ {Idle}, to \in ExecutorPhase : Executor(x, from, to)
    BY <1>5 DEF ExecuteApproved, Abandon, Admit, RunApproved, Succeed, Fail, Audited,
       ExecutorPhase, Idle
  <2>2. target[x] \in approved /\ target[x] \in Requests
    BY <2>1 DEF WorksOnApproved, EngineTypeOK, Executor
  <2>3. WorksOnApproved'
    BY <1>1, <2>1, <2>2 DEF Executor, WorksOnApproved, EngineTypeOK
  <2>4. /\ executing' \in [Executors -> ExecutorPhase]
        /\ target' \in [Executors -> Requests \cup {Idle}]
    BY <2>1 DEF Executor, EngineTypeOK
  <2>5. contested' = contested
    BY <1>5 DEF ExecuteApproved, Abandon, Admit, RunApproved, Succeed, Fail, Audited
  <2>6. CASE RunApproved(x)
    <3>1. /\ counts' \in [Tools -> Nat]
          /\ started' = [started EXCEPT ![target[x]] = @ + 1]
          /\ started' \in [Requests -> Nat]
      BY <2>2, <2>6 DEF RunApproved, StartHandler, EngineTypeOK, PolicyAssumption
    <3>2. OnlyApprovedRun'
      BY <1>1, <2>2, <3>1 DEF OnlyApprovedRun, EngineTypeOK
    <3> QED
      BY <1>1, <1>2, <1>3, <2>3, <2>4, <3>1, <3>2, <2>5 DEF EngineTypeOK
  <2>7. CASE ~RunApproved(x)
    <3>1. UNCHANGED <<counts, started>>
      BY <1>5, <2>7 DEF ExecuteApproved, Abandon, Admit, Succeed, Fail, Audited
    <3> QED
      BY <1>1, <1>2, <1>3, <2>3, <2>4, <3>1, <2>5 DEF EngineTypeOK, OnlyApprovedRun
  <2> QED
    BY <2>6, <2>7
<1> QED
  BY <1>4, <1>5

LEMMA NextIInv ==
  ASSUME PendingAssumption, PolicyAssumption, IInv, [Next]_vars
  PROVE  IInv'
<1>1. CASE Tick /\ UNCHANGED engineVars
  <2>1. PortTypeOK' /\ ApprovedByHost'
    BY <1>1 DEF IInv, Tick, engineVars, PortTypeOK, PendingAssumption, NoExpiry,
       ApprovedByHost
  <2> QED
    BY <1>1, <2>1 DEF IInv, engineVars, EngineTypeOK, WorksOnApproved,
       DirectUnconfirmed, OnlyApprovedRun
<1>2. CASE UNCHANGED vars
  BY <1>2 DEF vars, IInv, PortTypeOK, EngineTypeOK, ApprovedByHost, WorksOnApproved,
     DirectUnconfirmed, OnlyApprovedRun
<1> QED
  BY <1>1, <1>2, ExecuteStep, ApproveStep, ExecuteApprovedStep DEF Next

THEOREM IInvAlways == Spec => []IInv
<1>1. Init => IInv
  BY InitIInv, PendingAssumption, PolicyAssumption
<1>2. IInv /\ [Next]_vars => IInv'
  BY NextIInv, PendingAssumption, PolicyAssumption
<1> QED
  BY <1>1, <1>2, PTL DEF Spec

\* The port and the engine are well typed, however many hosts there are.
THEOREM TypeCorrect == Spec => []TypeOK
<1>1. IInv => TypeOK
  BY DEF IInv, EngineTypeOK, TypeOK
<1> QED
  BY <1>1, IInvAlways, PTL

\* However deciders, executors, expiry and failures interleave, the handler of
\* a tool that needs a confirmation runs only for a request that was approved.
THEOREM OnlyApprovedAlways == Spec => []OnlyApprovedRun
<1>1. IInv => OnlyApprovedRun
  BY DEF IInv
<1> QED
  BY <1>1, IInvAlways, PTL

-----------------------------------------------------------------------------
\* Expiry and the limit of calls, for any deciders and executors.

\* A step of the decider or of an executor leaves an expired action expired.
LEMMA ResolveKeepsExpired ==
  ASSUME PortTypeOK, NEW r \in Requests, NEW s, Resolve(r, s),
         NEW q \in Requests, action[q] = "expired"
  PROVE  action'[q] = "expired"
<1>1. Swept({r})[q] = "expired"
  BY SweptType DEF Open
<1>2. CASE q = r
  BY <1>1, <1>2 DEF Resolve
<1>3. CASE q # r
  BY <1>1, <1>3 DEF Resolve, PortTypeOK
<1> QED
  BY <1>2, <1>3

LEMMA NextKeepsExpired ==
  ASSUME IInv, PendingAssumption, [Next]_vars, NEW q \in Requests, action[q] = "expired"
  PROVE  action'[q] = "expired"
<1> USE DEF IInv
<1>1. CASE \E r \in Requests : Resolve(r, "approved") \/ Resolve(r, "rejected")
                              \/ Resolve(r, "executed") \/ Resolve(r, "failed")
  BY <1>1, ResolveKeepsExpired
<1>2. CASE \E r \in Requests : Create(r)
  BY <1>2, CreateStep DEF Slid, Create
<1>3. CASE \/ \E r \in Requests : CreateRefused(r) \/ Get(r)
           \/ Tick
           \/ UNCHANGED portVars
  <2>1. \A r \in Requests : CreateRefused(r) \/ Get(r) => Slid(q)
    BY SweepStep
  <2>2. Tick \/ UNCHANGED portVars => Slid(q)
    BY DEF Tick, portVars, Slid
  <2> QED
    BY <1>3, <2>1, <2>2 DEF Slid
<1>4. CASE \E r \in Requests : Execute(r)
  BY <1>2, <1>3, <1>4 DEF Execute, Ask, Reject, Authorized, Hold, Run, RunEnds
<1>5. CASE \E d \in Deciders : Approve(d)
  <2>1. PICK d \in Deciders : Approve(d)
    BY <1>5
  <2>2. CASE \E r \in Requests : Consider(d, r)
    BY <1>3, <2>2 DEF Consider
  <2>3. CASE \E s \in {"approved", "rejected"} : Decide(d, s)
    BY <1>1, <2>3 DEF Decide, EngineTypeOK
  <2> QED
    BY <2>1, <2>2, <2>3 DEF Approve
<1>6. CASE \E x \in Executors : ExecuteApproved(x)
  <2>1. PICK x \in Executors : ExecuteApproved(x)
    BY <1>6
  <2>2. CASE \E r \in Requests : Fetch(x, r)
    BY <1>3, <2>2 DEF Fetch
  <2>3. CASE Abandon(x) \/ Admit(x) \/ RunApproved(x)
    BY <1>3, <2>3 DEF Abandon, Admit, RunApproved
  <2>4. CASE Succeed(x) \/ Fail(x) \/ Audited(x)
    <3>1. target[x] \in Requests
      BY <2>4 DEF Succeed, Fail, Audited, Executor, WorksOnApproved, EngineTypeOK, Idle
    <3> QED
      BY <1>1, <1>3, <2>4, <3>1 DEF Succeed, Fail, Audited
  <2> QED
    BY <2>1, <2>2, <2>3, <2>4 DEF ExecuteApproved
<1> QED
  BY <1>3, <1>4, <1>5, <1>6 DEF Next, vars, portVars

\* An action that ran out of time is final, even for hosts whose deciders and
\* executors race each other: resolve() refuses it in all of them.
THEOREM ExpiredForGood ==
  Spec => [][\A r \in Requests : action[r] = "expired" => action'[r] = "expired"]_vars
<1>1. IInv /\ [Next]_vars
        => [\A r \in Requests : action[r] = "expired" => action'[r] = "expired"]_vars
  BY NextKeepsExpired, PendingAssumption
<1> QED
  BY <1>1, IInvAlways, PTL DEF Spec

\* The calls of a tool that were admitted and are not counted yet.
StartingRequests(t) == {r \in Requests : request[r] = "starting" /\ ToolOf[r] = t}
StartingExecutors(t) ==
  {x \in Executors : executing[x] = "starting" /\ ToolOf[target[x]] = t}
Overlap(t) == Cardinality(StartingRequests(t)) + Cardinality(StartingExecutors(t))

\* What a step does to the calls of a tool: it admits some below the limit, it
\* counts one it starts, or it admits none.
Admits(t) == counts'[t] = counts[t] /\ (Limit # 0 => counts[t] < Limit)
Starts(t) ==
  /\ counts'[t] = counts[t] + 1
  /\ \/ /\ \E r \in StartingRequests(t) : StartingRequests(t)' = StartingRequests(t) \ {r}
        /\ StartingExecutors(t)' = StartingExecutors(t)
     \/ /\ \E x \in StartingExecutors(t) : StartingExecutors(t)' = StartingExecutors(t) \ {x}
        /\ StartingRequests(t)' = StartingRequests(t)
AdmitsNone(t) ==
  /\ counts'[t] = counts[t]
  /\ StartingRequests(t)' \subseteq StartingRequests(t)
  /\ StartingExecutors(t)' \subseteq StartingExecutors(t)

LEMMA CallsStep ==
  ASSUME IInv, PolicyAssumption, [Next]_vars, NEW t \in Tools
  PROVE  Admits(t) \/ Starts(t) \/ AdmitsNone(t)
<1> USE DEF IInv
<1>1. CASE \E r \in Requests : Execute(r)
  <2>1. PICK r \in Requests : Execute(r)
    BY <1>1
  <2>2. UNCHANGED <<executing, target>> /\ StartingExecutors(t)' = StartingExecutors(t)
    BY <2>1 DEF Execute, Ask, Reject, Authorized, Hold, Run, RunEnds, StartingExecutors
  <2>3. CASE Run(r)
    <3>1. ToolOf[r] = t \/ ToolOf[r] # t
      OBVIOUS
    <3>2. StartingRequests(t)' = StartingRequests(t) \ {r}
      BY <2>3 DEF Run, Request, StartingRequests, EngineTypeOK
    <3>3. /\ ToolOf[r] = t => r \in StartingRequests(t) /\ counts'[t] = counts[t] + 1
          /\ ToolOf[r] # t => counts'[t] = counts[t]
      BY <2>3 DEF Run, Request, StartHandler, StartingRequests, EngineTypeOK,
         PolicyAssumption
    <3> QED
      BY <2>2, <3>1, <3>2, <3>3 DEF Starts, AdmitsNone
  <2>4. CASE Authorized(r)
    <3>1. counts'[t] = counts[t]
      BY <2>4 DEF Authorized
    <3>2. CASE ToolOf[r] = t /\ ~LimitReached(t)
      BY <3>1, <3>2 DEF Admits, LimitReached, EngineTypeOK
    <3>3. CASE ToolOf[r] # t \/ LimitReached(t)
      BY <2>2, <2>4, <3>1, <3>3 DEF AdmitsNone, Authorized, Request, StartingRequests,
         EngineTypeOK
    <3> QED
      BY <3>2, <3>3
  <2>5. CASE ~Run(r) /\ ~Authorized(r)
    BY <2>1, <2>2, <2>5 DEF AdmitsNone, Execute, Ask, Reject, Hold, RunEnds, Request,
       StartingRequests, EngineTypeOK
  <2> QED
    BY <2>3, <2>4, <2>5
<1>2. CASE \E x \in Executors : ExecuteApproved(x)
  <2>1. PICK x \in Executors : ExecuteApproved(x)
    BY <1>2
  <2>2. request' = request /\ StartingRequests(t)' = StartingRequests(t)
    BY <2>1 DEF ExecuteApproved, Fetch, Abandon, Admit, RunApproved, Succeed, Fail,
       Audited, StartingRequests
  <2>3. CASE RunApproved(x)
    <3>1. target[x] \in Requests
      BY <2>3 DEF RunApproved, Executor, WorksOnApproved, EngineTypeOK, Idle
    <3>2. StartingExecutors(t)' = StartingExecutors(t) \ {x}
      BY <2>3 DEF RunApproved, Executor, StartingExecutors, EngineTypeOK, Idle
    <3>3. /\ ToolOf[target[x]] = t =>
               x \in StartingExecutors(t) /\ counts'[t] = counts[t] + 1
          /\ ToolOf[target[x]] # t => counts'[t] = counts[t]
      BY <2>3, <3>1 DEF RunApproved, Executor, StartHandler, StartingExecutors,
         EngineTypeOK, PolicyAssumption
    <3> QED
      BY <2>2, <3>2, <3>3 DEF Starts, AdmitsNone
  <2>4. CASE Admit(x)
    <3>1. counts'[t] = counts[t]
      BY <2>4 DEF Admit
    <3>2. CASE ToolOf[target[x]] = t
      BY <2>4, <3>1, <3>2 DEF Admit, Admits, LimitReached, EngineTypeOK
    <3>3. CASE ToolOf[target[x]] # t
      BY <2>2, <2>4, <3>1, <3>3 DEF AdmitsNone, Admit, Executor, StartingExecutors,
         EngineTypeOK, Idle
    <3> QED
      BY <3>2, <3>3
  <2>5. CASE ~RunApproved(x) /\ ~Admit(x)
    <3>1. counts' = counts
      BY <2>1, <2>5 DEF ExecuteApproved, Fetch, Abandon, Succeed, Fail, Audited
    <3>2. /\ executing'[x] # "starting"
          /\ \A y \in Executors \ {x} : executing'[y] = executing[y] /\ target'[y] = target[y]
      BY <2>1, <2>5 DEF ExecuteApproved, Fetch, Abandon, Succeed, Fail, Audited, Executor,
         EngineTypeOK, Idle
    <3>3. StartingExecutors(t)' \subseteq StartingExecutors(t)
      BY <3>2 DEF StartingExecutors
    <3> QED
      BY <2>2, <3>1, <3>3 DEF AdmitsNone
  <2> QED
    BY <2>3, <2>4, <2>5
<1>3. CASE \/ \E d \in Deciders : Approve(d)
           \/ Tick /\ UNCHANGED engineVars
           \/ UNCHANGED vars
  BY <1>3 DEF Approve, Consider, Decide, engineVars, vars, AdmitsNone, StartingRequests,
     StartingExecutors
<1> QED
  BY <1>1, <1>2, <1>3 DEF Next

LEMMA OverlapFinite ==
  ASSUME PendingAssumption, PolicyAssumption, NEW t
  PROVE  /\ IsFiniteSet(StartingRequests(t)) /\ IsFiniteSet(StartingRequests(t)')
         /\ IsFiniteSet(StartingExecutors(t)) /\ IsFiniteSet(StartingExecutors(t)')
         /\ Cardinality(StartingRequests(t)) \in Nat
         /\ Cardinality(StartingRequests(t)') \in Nat
         /\ Cardinality(StartingExecutors(t)) \in Nat
         /\ Cardinality(StartingExecutors(t)') \in Nat
<1>1. /\ StartingRequests(t) \in SUBSET Requests /\ StartingRequests(t)' \in SUBSET Requests
      /\ StartingExecutors(t) \in SUBSET Executors
      /\ StartingExecutors(t)' \in SUBSET Executors
  BY DEF StartingRequests, StartingExecutors
<1>2. IsFiniteSet(Requests) /\ IsFiniteSet(Executors)
  BY DEF PendingAssumption, PolicyAssumption
<1>3. /\ IsFiniteSet(StartingRequests(t)) /\ IsFiniteSet(StartingRequests(t)')
      /\ IsFiniteSet(StartingExecutors(t)) /\ IsFiniteSet(StartingExecutors(t)')
  BY <1>1, <1>2, FS_Subset
<1> QED
  BY <1>3, FS_CardinalityType

\* The calls counted and those about to be, while at most N overlap.
WithinLimit(t, N) == counts[t] + Overlap(t) < Limit + N

LEMMA NextWithinLimit ==
  ASSUME PendingAssumption, PolicyAssumption, IInv, IInv', [Next]_vars, Limit # 0,
         NEW t \in Tools, NEW N \in Nat, WithinLimit(t, N), Overlap(t)' <= N
  PROVE  WithinLimit(t, N)'
<1>1. /\ counts[t] \in Nat /\ counts'[t] \in Nat /\ Limit \in Nat
  BY DEF IInv, EngineTypeOK, PolicyAssumption
<1>2. Overlap(t) \in Nat /\ Overlap(t)' \in Nat
  BY OverlapFinite DEF Overlap
<1>3. CASE Admits(t)
  BY <1>1, <1>2, <1>3 DEF Admits, WithinLimit
<1>4. CASE Starts(t)
  <2>1. Overlap(t)' = Overlap(t) - 1
    <3>1. CASE /\ \E r \in StartingRequests(t) : StartingRequests(t)' = StartingRequests(t) \ {r}
               /\ StartingExecutors(t)' = StartingExecutors(t)
      <4>1. Cardinality(StartingRequests(t)') = Cardinality(StartingRequests(t)) - 1
        BY <3>1, OverlapFinite, FS_RemoveElement
      <4> QED
        BY <3>1, <4>1, OverlapFinite DEF Overlap
    <3>2. CASE /\ \E x \in StartingExecutors(t) : StartingExecutors(t)' = StartingExecutors(t) \ {x}
               /\ StartingRequests(t)' = StartingRequests(t)
      <4>1. Cardinality(StartingExecutors(t)') = Cardinality(StartingExecutors(t)) - 1
        BY <3>2, OverlapFinite, FS_RemoveElement
      <4> QED
        BY <3>2, <4>1, OverlapFinite DEF Overlap
    <3> QED
      BY <1>4, <3>1, <3>2 DEF Starts
  <2> QED
    BY <1>1, <1>2, <1>4, <2>1 DEF Starts, WithinLimit
<1>5. CASE AdmitsNone(t)
  <2>1. /\ Cardinality(StartingRequests(t)') <= Cardinality(StartingRequests(t))
        /\ Cardinality(StartingExecutors(t)') <= Cardinality(StartingExecutors(t))
    BY <1>5, OverlapFinite, FS_Subset DEF AdmitsNone
  <2>2. Overlap(t)' <= Overlap(t)
    BY <2>1, OverlapFinite DEF Overlap
  <2> QED
    BY <1>1, <1>2, <1>5, <2>2 DEF AdmitsNone, WithinLimit
<1> QED
  BY <1>3, <1>4, <1>5, CallsStep

LEMMA InitWithinLimit ==
  ASSUME PolicyAssumption, Init, Limit # 0, NEW t \in Tools, NEW N \in Nat
  PROVE  WithinLimit(t, N)
<1>1. StartingRequests(t) = {} /\ StartingExecutors(t) = {} /\ counts[t] = 0
  BY DEF Init, StartingRequests, StartingExecutors, Idle
<1>2. Overlap(t) = 0
  BY <1>1, FS_EmptySet DEF Overlap
<1> QED
  BY <1>1, <1>2 DEF WithinLimit, PolicyAssumption

\* As long as at most N calls of a tool are between the check of the limit and
\* the count, the tool is called at most N - 1 times beyond its limit: calls
\* that do not overlap keep it, and nothing the engine does adds to the excess.
THEOREM OverrunBounded ==
  ASSUME NEW t \in Tools, NEW N \in Nat, Limit # 0
  PROVE  Spec /\ [](Overlap(t) <= N) => [](counts[t] < Limit + N)
<1>1. Init => WithinLimit(t, N)
  BY InitWithinLimit, PolicyAssumption
<1>2. IInv /\ IInv' /\ WithinLimit(t, N) /\ (Overlap(t) <= N)' /\ [Next]_vars
        => WithinLimit(t, N)'
  BY NextWithinLimit, PendingAssumption, PolicyAssumption
<1>3. IInv /\ WithinLimit(t, N) => counts[t] < Limit + N
  <2>1. IInv => counts[t] \in Nat
    BY DEF IInv, EngineTypeOK
  <2>2. Overlap(t) \in Nat /\ Limit \in Nat
    BY OverlapFinite, PendingAssumption, PolicyAssumption DEF Overlap, PolicyAssumption
  <2> QED
    BY <2>1, <2>2 DEF WithinLimit
<1> QED
  BY <1>1, <1>2, <1>3, IInvAlways, PTL DEF Spec

\* A tool that needs a confirmation is started by executors only.
LEMMA ConfirmedOverlap ==
  ASSUME PendingAssumption, PolicyAssumption, IInv, NEW t \in Confirmed
  PROVE  Overlap(t) <= Cardinality(Executors)
<1>1. StartingRequests(t) = {}
  BY DEF IInv, DirectUnconfirmed, StartingRequests
<1>2. Cardinality(StartingExecutors(t)) <= Cardinality(Executors)
  BY FS_Subset DEF StartingExecutors, PolicyAssumption
<1> QED
  BY <1>1, <1>2, FS_EmptySet, OverlapFinite DEF Overlap

\* Whatever the limit, the tools and the hosts, a tool that needs a
\* confirmation is started beyond its limit only as often as executors overlap.
THEOREM LimitAlways == Spec => []LimitRespected
<1> DEFINE C == Cardinality(Executors)
           Few == \A t \in Confirmed : Overlap(t) <= C
           LInv == Limit # 0 => \A t \in Confirmed : WithinLimit(t, C)
<1>1. C \in Nat
  BY FS_CardinalityType, PolicyAssumption DEF PolicyAssumption
<1>2. \A t \in Confirmed : t \in Tools
  BY PolicyAssumption DEF PolicyAssumption
<1>3. IInv => Few
  BY ConfirmedOverlap, PendingAssumption, PolicyAssumption
<1> HIDE DEF C
<1>4. Init => LInv
  BY <1>1, <1>2, InitWithinLimit, PolicyAssumption
<1>5. IInv /\ IInv' /\ Few' /\ LInv /\ [Next]_vars => LInv'
  BY <1>1, <1>2, NextWithinLimit, PendingAssumption, PolicyAssumption
<1>6. IInv /\ LInv => LimitRespected
  <2> SUFFICES ASSUME IInv, LInv, Limit # 0, NEW t \in Confirmed
               PROVE  counts[t] < Limit + C
    BY DEF LimitRespected, C
  <2>1. counts[t] \in Nat /\ Limit \in Nat
    BY <1>2, PolicyAssumption DEF IInv, EngineTypeOK, PolicyAssumption
  <2>2. Overlap(t) \in Nat
    BY OverlapFinite, PendingAssumption, PolicyAssumption DEF Overlap
  <2> QED
    BY <1>1, <2>1, <2>2 DEF WithinLimit
<1> QED
  BY <1>3, <1>4, <1>5, <1>6, IInvAlways, PTL DEF Spec

-----------------------------------------------------------------------------
\* A host with one decider at a time.

OneDecider == \A d, e \in Deciders : d = e

\* What the decider has read still waits, or has expired meanwhile.
ReadingWaits ==
  \A d \in Deciders :
    reading[d] # Idle => action[reading[d]] \in {"confirmation_required", "expired"}

Decided(r) == action[r] \notin {"none", "confirmation_required"}

\* Executors work on decided actions.
WorksOnDecided == \A x \in Executors : executing[x] # Idle => Decided(target[x])

DInv == IInv /\ ReadingWaits /\ WorksOnDecided /\ QuotaRespected

\* What becomes of an action that is not the one created: it stays or expires,
\* a decision is taken on it, or its execution closes it.
Chosen(r) == /\ action[r] = "confirmation_required"
             /\ action'[r] \in {"approved", "rejected"}
Forward(r) == Slid(r) \/ Chosen(r) \/ (Decided(r) /\ action'[r] \in Closed)

\* Going forward opens no action and loses no decision.
LEMMA ForwardKeeps ==
  ASSUME NEW r, Forward(r)
  PROVE  /\ action'[r] \in Open => action[r] \in Open
         /\ action[r] \in Closed => action'[r] \in Closed
         /\ Decided(r) => Decided(r)'
  BY DEF Forward, Chosen, Slid, Decided, Open, Closed

\* A step of execute() creates at most the action of its request.
LEMMA ExecuteForward ==
  ASSUME DInv, PendingAssumption, NEW r \in Requests, Execute(r)
  PROVE  /\ \/ Create(r) /\ \A q \in Requests \ {r} : Slid(q)
            \/ \A q \in Requests : Slid(q)
         /\ ReadingWaits' /\ WorksOnDecided'
<1>1. \/ Create(r) /\ \A q \in Requests \ {r} : Slid(q)
      \/ \A q \in Requests : Slid(q)
  BY CreateStep, SweepStep DEF DInv, IInv, Execute, Ask, Reject, Authorized, Hold, Run,
     RunEnds
<1>2. UNCHANGED <<executing, target, reading>>
  BY DEF Execute, Ask, Reject, Authorized, Hold, Run, RunEnds
<1>3. Create(r) => action[r] = "none"
  BY DEF Create
<1>4. ReadingWaits'
  BY <1>1, <1>2, <1>3 DEF DInv, IInv, EngineTypeOK, ReadingWaits, Slid
<1>5. WorksOnDecided'
  <2> SUFFICES ASSUME NEW x \in Executors, executing[x] # Idle
               PROVE  Decided(target[x])'
    BY <1>2 DEF WorksOnDecided
  <2>1. target[x] \in Requests /\ Decided(target[x]) /\ target'[x] = target[x]
    BY <1>2 DEF DInv, IInv, WorksOnApproved, EngineTypeOK, WorksOnDecided
  <2> QED
    BY <1>1, <1>3, <2>1 DEF Decided, Slid
<1> QED
  BY <1>1, <1>4, <1>5

\* A step of the decider decides on a waiting action only.
LEMMA ApproveForward ==
  ASSUME DInv, PendingAssumption, OneDecider, NEW d \in Deciders, Approve(d)
  PROVE  /\ \A q \in Requests : Slid(q) \/ Chosen(q)
         /\ ReadingWaits' /\ WorksOnDecided'
<1> USE DEF DInv, IInv
<1>1. UNCHANGED <<executing, target>>
  BY DEF Approve, Consider, Decide
<1>2. (\A q \in Requests : Slid(q) \/ Chosen(q)) /\ ReadingWaits'
  <2>1. CASE \E r \in Requests : Consider(d, r)
    <3>1. PICK r \in Requests : Consider(d, r)
      BY <2>1
    <3>2. \A q \in Requests : Slid(q)
      BY <3>1, SweepStep DEF Consider
    <3>3. action'[r] = "confirmation_required" /\ reading'[d] = r
      BY <3>1 DEF Consider, Get, EngineTypeOK
    <3>4. ReadingWaits'
      BY <3>3, OneDecider DEF OneDecider, ReadingWaits
    <3> QED
      BY <3>2, <3>4
  <2>2. CASE \E s \in {"approved", "rejected"} : Decide(d, s)
    <3>1. PICK s \in {"approved", "rejected"} : Decide(d, s)
      BY <2>2
    <3>2. PICK r \in Requests : r = reading[d] /\ Resolve(r, s)
      BY <3>1 DEF Decide, EngineTypeOK
    <3>3. s \in Open \cup Closed
      BY DEF Open, Closed
    <3>4. /\ action'[r] = IF ResolveThrows(r) THEN "expired" ELSE s
          /\ \A q \in Requests \ {r} : action'[q] = action[q]
      BY <3>2, <3>3, ResolveStep
    <3>5. action[r] \in {"confirmation_required", "expired"}
      BY <3>1, <3>2 DEF Decide, ReadingWaits
    <3>6. action[r] = "expired" => ResolveThrows(r)
      BY SweptType DEF ResolveThrows
    <3>7. ReadingWaits'
      <4>1. reading'[d] = Idle
        BY <3>1 DEF Decide, EngineTypeOK
      <4> QED
        BY <4>1, OneDecider DEF OneDecider, ReadingWaits
    <3> QED
      BY <3>4, <3>5, <3>6, <3>7 DEF Chosen, Slid, Open
  <2> QED
    BY <2>1, <2>2 DEF Approve
<1>3. WorksOnDecided'
  <2> SUFFICES ASSUME NEW x \in Executors, executing[x] # Idle
               PROVE  Decided(target[x])'
    BY <1>1 DEF WorksOnDecided
  <2>1. target[x] \in Requests /\ Decided(target[x]) /\ target'[x] = target[x]
    BY <1>1 DEF WorksOnApproved, EngineTypeOK, WorksOnDecided
  <2> QED
    BY <1>2, <2>1 DEF Decided, Slid, Chosen
<1> QED
  BY <1>2, <1>3

\* A step of an executor closes a decided action only.
LEMMA ExecutorForward ==
  ASSUME DInv, PendingAssumption, NEW x \in Executors, ExecuteApproved(x)
  PROVE  (\A q \in Requests : Forward(q)) /\ ReadingWaits' /\ WorksOnDecided'
<1> USE DEF DInv, IInv
<1>1. reading' = reading
  BY DEF ExecuteApproved, Fetch, Abandon, Admit, RunApproved, Succeed, Fail, Audited
<1>2. ASSUME \A q \in Requests : Slid(q)
      PROVE  (\A q \in Requests : Forward(q)) /\ ReadingWaits'
  <2>1. \A q \in Requests : Forward(q)
    BY <1>2 DEF Forward
  <2>2. \A q \in Requests : action'[q] \in {action[q], "expired"}
    BY <1>2 DEF Slid
  <2>3. ReadingWaits'
    BY <1>1, <2>2 DEF ReadingWaits, EngineTypeOK
  <2> QED
    BY <2>1, <2>3
<1>3. CASE \E r \in Requests : Fetch(x, r)
  <2>1. PICK r \in Requests : Fetch(x, r)
    BY <1>3
  <2>2. \A q \in Requests : Slid(q)
    BY <2>1, SweepStep DEF Fetch
  <2>3. action'[r] = Swept({r})[r]
    BY <2>1 DEF Fetch, Get
  <2>4. ASSUME NEW y \in Executors, executing'[y] # Idle
        PROVE  Decided(target[y])'
    <3>1. CASE y = x
      BY <2>1, <2>3, <2>4, <3>1 DEF Fetch, Executable, Decided, EngineTypeOK
    <3>2. CASE y # x
      <4>1. /\ executing[y] # Idle
            /\ target'[y] = target[y]
        BY <2>1, <2>4, <3>2 DEF Fetch, EngineTypeOK
      <4>2. target[y] \in Requests /\ Decided(target[y])
        BY <4>1 DEF WorksOnApproved, EngineTypeOK, WorksOnDecided
      <4> QED
        BY <2>2, <4>1, <4>2 DEF Decided, Slid
    <3> QED
      BY <3>1, <3>2
  <2> QED
    BY <1>2, <2>2, <2>4 DEF WorksOnDecided
<1>4. CASE ~\E r \in Requests : Fetch(x, r)
  <2>1. PICK from \in ExecutorPhase \ {Idle}, to \in ExecutorPhase : Executor(x, from, to)
    BY <1>4 DEF ExecuteApproved, Abandon, Admit, RunApproved, Succeed, Fail, Audited,
       ExecutorPhase, Idle
  <2>2. target[x] \in Requests /\ Decided(target[x])
    BY <2>1 DEF WorksOnApproved, EngineTypeOK, WorksOnDecided, Executor
  <2>3. (\A q \in Requests : Forward(q)) /\ ReadingWaits'
    <3>1. \/ UNCHANGED portVars
          \/ \E s \in {"executed", "failed"} : Resolve(target[x], s)
      BY <1>4 DEF ExecuteApproved, Abandon, Admit, RunApproved, Succeed, Fail, Audited
    <3>2. CASE UNCHANGED portVars
      BY <1>2, <3>2 DEF portVars, Slid
    <3>3. CASE \E s \in {"executed", "failed"} : Resolve(target[x], s)
      <4>1. PICK r \in Requests, s \in {"executed", "failed"} :
              r = target[x] /\ Resolve(r, s)
        BY <2>2, <3>3
      <4>2. s \in Open \cup Closed
        BY DEF Closed
      <4>3. /\ action'[r] = IF ResolveThrows(r) THEN "expired" ELSE s
            /\ \A q \in Requests \ {r} : action'[q] = action[q]
        BY <4>1, <4>2, ResolveStep
      <4>4. action[r] = "expired" => ResolveThrows(r)
        BY SweptType DEF ResolveThrows
      <4>5. \A q \in Requests : Forward(q)
        <5>1. Decided(r) /\ action'[r] \in Closed
          BY <2>2, <4>1, <4>3 DEF Closed
        <5>2. \A q \in Requests \ {r} : Slid(q)
          BY <4>3 DEF Slid
        <5> QED
          BY <5>1, <5>2 DEF Forward
      <4>6. ReadingWaits'
        BY <1>1, <2>2, <4>1, <4>3, <4>4 DEF ReadingWaits, Decided, EngineTypeOK
      <4> QED
        BY <4>5, <4>6
    <3> QED
      BY <3>1, <3>2, <3>3
  <2>4. WorksOnDecided'
    <3> SUFFICES ASSUME NEW y \in Executors, executing'[y] # Idle
                 PROVE  Decided(target[y])'
      BY DEF WorksOnDecided
    <3>1. executing[y] # Idle /\ target'[y] = target[y]
      BY <2>1 DEF Executor, EngineTypeOK
    <3>2. target[y] \in Requests /\ Decided(target[y])
      BY <3>1 DEF WorksOnApproved, EngineTypeOK, WorksOnDecided
    <3> QED
      BY <2>3, <3>1, <3>2, ForwardKeeps DEF Decided
  <2> QED
    BY <2>3, <2>4
<1> QED
  BY <1>3, <1>4

\* The quota survives a step that opens no action.
LEMMA QuotaKept ==
  ASSUME PendingAssumption, QuotaRespected, \A q \in Requests : Forward(q)
  PROVE  QuotaRespected'
<1>1. OpenRequests(action') \subseteq OpenRequests(action)
  BY ForwardKeeps DEF OpenRequests
<1>2. IsFiniteSet(OpenRequests(action))
  BY FS_Subset DEF OpenRequests, PendingAssumption
<1>3. Cardinality(OpenRequests(action')) <= Cardinality(OpenRequests(action))
  BY <1>1, <1>2, FS_Subset
<1>4. /\ Cardinality(OpenRequests(action)) \in Nat
      /\ Cardinality(OpenRequests(action')) \in Nat
  BY <1>1, <1>2, FS_Subset, FS_CardinalityType
<1> QED
  BY <1>3, <1>4 DEF QuotaRespected, PendingAssumption, OpenRequests

\* create() is refused at the quota, so that it adds one below it.
LEMMA QuotaCreate ==
  ASSUME PendingAssumption, PortTypeOK, NEW r \in Requests, Create(r)
  PROVE  QuotaRespected'
<1> DEFINE before == OpenRequests(Swept(Requests))
<1>1. OpenRequests(action') \subseteq before \cup {r}
  BY SweptType DEF Create, OpenRequests
<1>2. IsFiniteSet(before)
  BY FS_Subset DEF OpenRequests, PendingAssumption
<1>3. /\ IsFiniteSet(before \cup {r})
      /\ Cardinality(before \cup {r}) <= Cardinality(before) + 1
  <2> HIDE DEF before
  <2>1. /\ IsFiniteSet(before \cup {r})
        /\ Cardinality(before \cup {r}) = IF r \in before THEN Cardinality(before)
                                          ELSE Cardinality(before) + 1
    BY <1>2, FS_AddElement
  <2>2. Cardinality(before) \in Nat
    BY <1>2, FS_CardinalityType
  <2> QED
    BY <2>1, <2>2
<1>4. Cardinality(OpenRequests(action')) <= Cardinality(before \cup {r})
  BY <1>1, <1>3, FS_Subset
<1>5. Quota # 0 => Cardinality(before) < Quota
  <2>1. Cardinality(before) \in Nat
    BY <1>2, FS_CardinalityType
  <2> QED
    BY <2>1 DEF Create, QuotaReached, PendingAssumption
<1>6. /\ Cardinality(OpenRequests(action')) \in Nat
      /\ Cardinality(before) \in Nat
      /\ Cardinality(before \cup {r}) \in Nat
  BY <1>1, <1>2, <1>3, FS_Subset, FS_CardinalityType
<1> QED
  BY <1>3, <1>4, <1>5, <1>6 DEF QuotaRespected, PendingAssumption, OpenRequests

LEMMA NextDInv ==
  ASSUME PendingAssumption, PolicyAssumption, OneDecider, DInv, [Next]_vars
  PROVE  /\ DInv'
         /\ \A q \in Requests : action[q] \in Closed => action'[q] \in Closed
<1>1. IInv'
  BY NextIInv DEF DInv
<1>2. CASE \E r \in Requests : Execute(r)
  <2>1. PICK r \in Requests : Execute(r)
    BY <1>2
  <2>2. ReadingWaits' /\ WorksOnDecided'
    BY <2>1, ExecuteForward
  <2>3. CASE Create(r) /\ \A q \in Requests \ {r} : Slid(q)
    <3>1. action[r] = "none"
      BY <2>3 DEF Create
    <3>2. QuotaRespected'
      BY <2>3, QuotaCreate DEF DInv, IInv
    <3> QED
      BY <1>1, <2>2, <2>3, <3>1, <3>2 DEF DInv, Slid, Open, Closed
  <2>4. CASE \A q \in Requests : Slid(q)
    <3>1. \A q \in Requests : Forward(q)
      BY <2>4 DEF Forward
    <3>2. QuotaRespected'
      BY <3>1, QuotaKept DEF DInv
    <3> QED
      BY <1>1, <2>2, <3>1, <3>2, ForwardKeeps DEF DInv
  <2> QED
    BY <2>1, <2>3, <2>4, ExecuteForward
<1>3. CASE \/ \E d \in Deciders : Approve(d)
           \/ \E x \in Executors : ExecuteApproved(x)
           \/ Tick /\ UNCHANGED engineVars
           \/ UNCHANGED vars
  <2>1. (\A q \in Requests : Forward(q)) /\ ReadingWaits' /\ WorksOnDecided'
    <3>1. CASE (Tick /\ UNCHANGED engineVars) \/ UNCHANGED vars
      <4>1. UNCHANGED <<action, reading, executing, target>>
        BY <3>1 DEF Tick, vars, engineVars
      <4>2. ReadingWaits' /\ WorksOnDecided'
        BY <4>1 DEF DInv, ReadingWaits, WorksOnDecided, Decided
      <4> QED
        BY <4>1, <4>2 DEF Forward, Slid
    <3>2. CASE \E d \in Deciders : Approve(d)
      BY <3>2, ApproveForward DEF Forward
    <3>3. CASE \E x \in Executors : ExecuteApproved(x)
      BY <3>3, ExecutorForward
    <3> QED
      BY <1>3, <3>1, <3>2, <3>3
  <2>2. QuotaRespected'
    BY <2>1, QuotaKept DEF DInv
  <2> QED
    BY <1>1, <2>1, <2>2, ForwardKeeps DEF DInv
<1> QED
  BY <1>2, <1>3 DEF Next

LEMMA InitDInv ==
  ASSUME PendingAssumption, PolicyAssumption, Init
  PROVE  DInv
<1>1. OpenRequests(action) = {}
  BY DEF Init, PortInit, OpenRequests, Open
<1>2. QuotaRespected
  BY <1>1, FS_EmptySet DEF QuotaRespected, PendingAssumption
<1> QED
  BY <1>2, InitIInv DEF DInv, Init, ReadingWaits, WorksOnDecided

\* A host that takes one decision at a time never opens a closed action again:
\* what was rejected, expired or executed is not approved afterwards.
THEOREM ClosedAlways == OneDecider => (Spec => ClosedForGood)
<1> SUFFICES ASSUME OneDecider PROVE Spec => ClosedForGood
  OBVIOUS
<1>1. Init => DInv
  BY InitDInv, PendingAssumption, PolicyAssumption
<1>2. DInv /\ [Next]_vars => DInv'
  BY NextDInv, PendingAssumption, PolicyAssumption
<1>3. DInv /\ [Next]_vars
        => [\A r \in Requests : action[r] \in Closed => action'[r] \in Closed]_vars
  BY NextDInv, PendingAssumption, PolicyAssumption
<1> QED
  BY <1>1, <1>2, <1>3, PTL DEF Spec, ClosedForGood

\* With one decision at a time the quota of a session is never exceeded,
\* however many executors and requests there are.
THEOREM QuotaAlways == OneDecider => (Spec => []QuotaRespected)
<1> SUFFICES ASSUME OneDecider PROVE Spec => []QuotaRespected
  OBVIOUS
<1>1. Init => DInv
  BY InitDInv, PendingAssumption, PolicyAssumption
<1>2. DInv /\ [Next]_vars => DInv'
  BY NextDInv, PendingAssumption, PolicyAssumption
<1>3. DInv => QuotaRespected
  BY DEF DInv
<1> QED
  BY <1>1, <1>2, <1>3, PTL DEF Spec

-----------------------------------------------------------------------------
\* What the status says of the handler, for a host with one decider at a time.

\* Executors that work on one action know that they meet on it.
Sole ==
  \A x, y \in Executors :
    /\ executing[x] # Idle /\ executing[y] # Idle
    /\ target[x] = target[y] /\ target[x] \notin contested
    => x = y

\* What the status of an action and the state of its request say of its
\* handler; an approved action whose handler was started is being executed,
\* unless executors met on it.
Honest(r) ==
  /\ action[r] \in {"confirmation_required", "rejected"} => started[r] = 0
  /\ action[r] \in {"executed", "failed"} =>
       started[r] > 0 /\ (r \notin contested => started[r] = 1)
  /\ action[r] = "approved" /\ r \notin contested =>
       started[r] = 0 \/ \E x \in Executors : executing[x] = "running" /\ target[x] = r
  /\ request[r] \in {"new", "authorizing"} => action[r] = "none" /\ started[r] = 0
  /\ request[r] \in {"starting", "running"} => action[r] = "none"

\* What an executor has found, and done so far; and no other one, if none met
\* it on the action.
Accounts(x) ==
  /\ executing[x] # Idle =>
       action[target[x]] \in {"approved", "expired", "executed", "failed"}
  /\ executing[x] \in {"running", "auditing"} => started[target[x]] > 0
  /\ executing[x] \in {"authorizing", "starting"} /\ target[x] \notin contested =>
       action[target[x]] \in {"approved", "expired"} /\ started[target[x]] = 0
  /\ executing[x] = "running" /\ target[x] \notin contested =>
       action[target[x]] \in {"approved", "expired"} /\ started[target[x]] = 1
  /\ executing[x] = "auditing" /\ target[x] \notin contested =>
       action[target[x]] = "executed" /\ started[target[x]] = 1

SInv ==
  /\ DInv
  /\ Sole
  /\ \A r \in Requests : Honest(r)
  /\ \A x \in Executors : Accounts(x)

\* An executor that works has a request for a target.
LEMMA TargetOfWorking ==
  ASSUME SInv, NEW x \in Executors, executing[x] # Idle
  PROVE  target[x] \in Requests
  BY DEF SInv, DInv, IInv, WorksOnApproved, EngineTypeOK

\* An executor that does not move accounts for its action while that expires.
LEMMA AccountsKept ==
  ASSUME SInv, NEW x \in Executors, executing'[x] = executing[x], target'[x] = target[x],
         executing[x] # Idle => /\ Slid(target[x])
                                /\ started'[target[x]] = started[target[x]],
         contested \subseteq contested'
  PROVE  Accounts(x)'
<1>1. Accounts(x)
  BY DEF SInv
<1> QED
  BY <1>1 DEF Accounts, Slid, Open, Idle

\* A request and its action are as honest as before if the action at most
\* expires, no handler is started and no execution of it ends.
LEMMA HonestKept ==
  ASSUME SInv, NEW r \in Requests, Slid(r), started'[r] = started[r],
         contested \subseteq contested',
         request'[r] \in {"new", "authorizing"} => request[r] \in {"new", "authorizing"},
         request'[r] \in {"starting", "running"} =>
           request[r] \in {"authorizing", "starting", "running"},
         \A x \in Executors : executing[x] = "running" /\ target[x] = r =>
                              executing'[x] = "running" /\ target'[x] = r
  PROVE  Honest(r)'
<1>1. Honest(r)
  BY DEF SInv
<1>2. action[r] = "none" => action'[r] = "none"
  BY DEF Slid, Open
<1>3. action'[r] \in {action[r], "expired"}
  BY DEF Slid
<1> QED
  BY <1>1, <1>2, <1>3 DEF Honest

\* The steps of execute().
LEMMA ExecuteHonest ==
  ASSUME SInv, PendingAssumption, PolicyAssumption, NEW r \in Requests, Execute(r)
  PROVE  /\ Sole'
         /\ \A q \in Requests : Honest(q)'
         /\ \A x \in Executors : Accounts(x)'
<1> USE DEF SInv, DInv, IInv
<1>1. /\ UNCHANGED <<executing, target, contested>>
      /\ \A q \in Requests \ {r} : request'[q] = request[q]
  BY DEF Execute, Ask, Reject, Authorized, Hold, Run, RunEnds, Request, EngineTypeOK
<1>2. Sole'
  BY <1>1 DEF Sole
<1>3. \/ Create(r) /\ \A q \in Requests \ {r} : Slid(q)
      \/ \A q \in Requests : Slid(q)
  BY ExecuteForward
<1>4. ASSUME NEW q \in Requests, Slid(q), started'[q] = started[q]
      PROVE  Honest(q)'
  <2>1. request'[q] \in {"new", "authorizing"} => request[q] \in {"new", "authorizing"}
    BY <1>1 DEF Execute, Ask, Reject, Authorized, Hold, Run, RunEnds, Request, EngineTypeOK
  <2>2. request'[q] \in {"starting", "running"} =>
          request[q] \in {"authorizing", "starting", "running"}
    BY <1>1 DEF Execute, Ask, Reject, Authorized, Hold, Run, RunEnds, Request, EngineTypeOK
  <2> QED
    BY <1>1, <1>4, <2>1, <2>2, HonestKept
<1>5. CASE Create(r)
  <2>1. started' = started /\ request'[r] = "asked" /\ request[r] = "authorizing"
    BY <1>5, CreateStep DEF Execute, Ask, Reject, Authorized, Hold, Run, RunEnds, Request,
       EngineTypeOK, Create, CreateRefused, portVars
  <2>2. action[r] = "none" /\ started[r] = 0
    BY <2>1 DEF Honest
  <2>3. action'[r] = "confirmation_required" /\ \A q \in Requests \ {r} : Slid(q)
    BY <1>5, CreateStep
  <2>4. \A q \in Requests : Honest(q)'
    <3>1. Honest(r)'
      BY <2>1, <2>2, <2>3 DEF Honest
    <3> QED
      BY <1>4, <2>1, <2>3, <3>1
  <2>5. ASSUME NEW x \in Executors PROVE Accounts(x)'
    <3>1. executing[x] # Idle => target[x] \in Requests \ {r}
      BY <2>2, TargetOfWorking DEF WorksOnDecided, Decided
    <3> QED
      BY <1>1, <2>1, <2>3, <3>1, AccountsKept
  <2> QED
    BY <1>2, <2>4, <2>5
<1>6. CASE Run(r)
  <2>1. \A q \in Requests : Slid(q)
    BY <1>6, SweepStep DEF Run
  <2>2. action[r] = "none" /\ request'[r] = "running"
    BY <1>6 DEF Run, Request, Honest, EngineTypeOK
  <2>3. \A q \in Requests \ {r} : started'[q] = started[q]
    BY <1>6 DEF Run, StartHandler, EngineTypeOK
  <2>4. Honest(r)'
    BY <2>1, <2>2 DEF Honest, Slid, Open
  <2>5. ASSUME NEW x \in Executors PROVE Accounts(x)'
    <3>1. executing[x] # Idle => target[x] \in Requests \ {r}
      BY <2>2, TargetOfWorking DEF WorksOnDecided, Decided
    <3> QED
      BY <1>1, <2>1, <2>3, <3>1, AccountsKept
  <2> QED
    BY <1>2, <1>4, <2>1, <2>3, <2>4, <2>5
<1>7. CASE ~Create(r) /\ ~Run(r)
  <2>1. started' = started
    BY <1>7 DEF Execute, Ask, Reject, Authorized, Hold, RunEnds
  <2>2. ASSUME NEW x \in Executors PROVE Accounts(x)'
    BY <1>1, <1>3, <1>7, <2>1, AccountsKept, TargetOfWorking
  <2> QED
    BY <1>2, <1>3, <1>4, <1>7, <2>1, <2>2
<1> QED
  BY <1>5, <1>6, <1>7

\* The steps of the decider: only waiting actions, never started, change.
LEMMA ApproveHonest ==
  ASSUME SInv, PendingAssumption, OneDecider, NEW d \in Deciders, Approve(d)
  PROVE  /\ Sole'
         /\ \A q \in Requests : Honest(q)'
         /\ \A x \in Executors : Accounts(x)'
<1>1. UNCHANGED <<executing, target, request, started, contested>>
  BY DEF Approve, Consider, Decide
<1>2. \A q \in Requests : Slid(q) \/ Chosen(q)
  BY ApproveForward DEF SInv
<1>3. ASSUME NEW q \in Requests PROVE Honest(q)'
  <2>1. CASE Slid(q)
    BY <1>1, <2>1, HonestKept
  <2>2. CASE Chosen(q)
    BY <1>1, <2>2 DEF Chosen, Honest, SInv
  <2> QED
    BY <1>2, <2>1, <2>2
<1>4. ASSUME NEW x \in Executors PROVE Accounts(x)'
  <2>1. executing[x] # Idle => target[x] \in Requests /\ ~Chosen(target[x])
    BY TargetOfWorking DEF SInv, DInv, WorksOnDecided, Decided, Chosen
  <2> QED
    BY <1>1, <1>2, <2>1, AccountsKept
<1>5. Sole'
  BY <1>1 DEF SInv, Sole
<1> QED
  BY <1>3, <1>4, <1>5

\* An executor begins with an action it found approved.
LEMMA FetchHonest ==
  ASSUME SInv, PendingAssumption, NEW x \in Executors, NEW r \in Requests, Fetch(x, r)
  PROVE  /\ Sole'
         /\ \A q \in Requests : Honest(q)'
         /\ \A y \in Executors : Accounts(y)'
<1> USE DEF SInv, DInv, IInv
<1>1. /\ \A q \in Requests : Slid(q)
      /\ request' = request /\ started' = started /\ executing[x] = Idle
      /\ contested \subseteq contested'
      /\ \A y \in Executors \ {x} : executing'[y] = executing[y] /\ target'[y] = target[y]
  BY SweepStep DEF Fetch, EngineTypeOK
<1>2. \A q \in Requests : Honest(q)'
  BY <1>1, HonestKept DEF Idle
<1>3. \A y \in Executors \ {x} : Accounts(y)'
  BY <1>1, AccountsKept, TargetOfWorking
<1>4. CASE Executable(Swept({r})[r])
  <2>1. /\ executing'[x] = "authorizing" /\ target'[x] = r
        /\ (\E y \in Executors : target[y] = r) => r \in contested'
    BY <1>4 DEF Fetch, EngineTypeOK
  <2>2. action'[r] = "approved" /\ action[r] = "approved"
    BY <1>1, <1>4 DEF Fetch, Get, Executable, Slid
  <2>3. r \notin contested' => started[r] = 0
    BY <1>1, <2>1, <2>2 DEF Honest
  <2>4. Accounts(x)'
    BY <1>1, <2>1, <2>2, <2>3 DEF Accounts
  <2>5. Sole'
    BY <1>1, <2>1 DEF Sole
  <2> QED
    BY <1>2, <1>3, <2>4, <2>5
<1>5. CASE ~Executable(Swept({r})[r])
  <2>1. UNCHANGED <<executing, target, contested>>
    BY <1>5 DEF Fetch
  <2> QED
    BY <1>1, <1>2, <1>3, <2>1 DEF Accounts, Sole, Idle
<1> QED
  BY <1>4, <1>5

\* An executor that does not move, while another one works on the action r.
LEMMA OthersAccount ==
  ASSUME SInv, NEW x \in Executors, NEW y \in Executors \ {x}, NEW r \in Requests,
         executing[x] # Idle, target[x] = r, contested' = contested,
         executing'[y] = executing[y], target'[y] = target[y],
         \A q \in Requests \ {r} : action'[q] = action[q] /\ started'[q] = started[q],
         action'[r] \in {action[r], "executed", "failed", "expired"},
         started[r] > 0 => started'[r] > 0
  PROVE  Accounts(y)'
<1>1. Accounts(y) /\ Sole
  BY DEF SInv
<1>2. executing[y] # Idle => target[y] \in Requests
  BY TargetOfWorking
<1>3. CASE executing[y] = Idle \/ target[y] # r
  BY <1>1, <1>2, <1>3 DEF Accounts, Idle
<1>4. CASE executing[y] # Idle /\ target[y] = r
  <2>1. r \in contested
    BY <1>1, <1>4 DEF Sole
  <2> QED
    BY <1>1, <1>4, <2>1 DEF Accounts, Idle
<1> QED
  BY <1>3, <1>4

\* An executor goes on with the action it works on.
LEMMA WorkHonest ==
  ASSUME SInv, PendingAssumption, PolicyAssumption, NEW x \in Executors,
         ExecuteApproved(x), ~\E r \in Requests : Fetch(x, r)
  PROVE  /\ Sole'
         /\ \A q \in Requests : Honest(q)'
         /\ \A y \in Executors : Accounts(y)'
<1> USE DEF SInv, DInv, IInv
<1>1. PICK r \in Requests : executing[x] # Idle /\ target[x] = r
  BY TargetOfWorking DEF ExecuteApproved, Abandon, Admit, RunApproved, Succeed, Fail,
     Audited, Executor, Idle
<1>2. /\ request' = request /\ contested' = contested
      /\ executing'[x] # Idle => target'[x] = r
      /\ \A y \in Executors \ {x} : executing'[y] = executing[y] /\ target'[y] = target[y]
  BY <1>1 DEF ExecuteApproved, Abandon, Admit, RunApproved, Succeed, Fail, Audited,
     Executor, EngineTypeOK, Idle
<1>3. Sole'
  BY <1>1, <1>2 DEF Sole
<1>4. Decided(r) /\ Accounts(x) /\ Honest(r)
  BY <1>1 DEF WorksOnDecided
<1>5. CASE Abandon(x) \/ Admit(x)
  <2>1. /\ executing'[x] \in {Idle, "starting"}
        /\ executing[x] \in {"authorizing", "starting"}
        /\ UNCHANGED <<action, started>>
    BY <1>1, <1>5 DEF Abandon, Admit, Executor, portVars, EngineTypeOK, Idle
  <2>2. \A q \in Requests : Honest(q)'
    BY <1>2, <2>1, HonestKept DEF Slid
  <2>3. \A y \in Executors \ {x} : Accounts(y)'
    BY <1>1, <1>2, <2>1, OthersAccount
  <2> QED
    BY <1>1, <1>2, <1>3, <1>4, <2>1, <2>2, <2>3 DEF Accounts, Idle
<1>6. CASE RunApproved(x)
  <2>1. executing[x] = "starting" /\ executing'[x] = "running" /\ target'[x] = r
    BY <1>1, <1>6 DEF RunApproved, Executor, EngineTypeOK, Idle
  <2>2. action' = action /\ started' = [started EXCEPT ![r] = @ + 1]
    BY <1>1, <1>6 DEF RunApproved, StartHandler, portVars
  <2>3. /\ started'[r] > 0 /\ (r \notin contested => started'[r] = 1)
        /\ \A q \in Requests \ {r} : started'[q] = started[q]
    BY <1>1, <1>4, <2>1, <2>2 DEF Accounts, EngineTypeOK
  <2>4. Honest(r)'
    BY <1>1, <1>2, <1>4, <2>1, <2>2, <2>3 DEF Honest, Accounts, Decided
  <2>5. \A q \in Requests \ {r} : Honest(q)'
    BY <1>1, <1>2, <2>1, <2>2, <2>3, HonestKept DEF Slid
  <2>6. \A y \in Executors \ {x} : Accounts(y)'
    BY <1>1, <1>2, <2>2, <2>3, OthersAccount
  <2>7. Accounts(x)'
    BY <1>1, <1>2, <1>4, <2>1, <2>2, <2>3 DEF Accounts
  <2> QED
    BY <1>3, <2>4, <2>5, <2>6, <2>7
<1>7. CASE Succeed(x) \/ Fail(x) \/ Audited(x)
  <2>1. /\ UNCHANGED started
        /\ started[r] > 0 /\ (r \notin contested => started[r] = 1)
        /\ executing'[x] \in {Idle, "auditing"}
        /\ executing[x] \in {"running", "auditing"}
        /\ executing[x] = "auditing" /\ r \notin contested => action[r] = "executed"
    BY <1>1, <1>4, <1>7 DEF Succeed, Fail, Audited, Executor, Accounts, EngineTypeOK, Idle
  <2>2. \/ Audited(x) /\ UNCHANGED action
        \/ \E s \in {"executed", "failed"} : Resolve(r, s)
    BY <1>1, <1>7 DEF Succeed, Fail, Audited, portVars
  <2>3. /\ \A q \in Requests \ {r} : action'[q] = action[q]
        /\ \/ action'[r] \in {"executed", "failed", "expired"}
           \/ action'[r] = action[r] /\ r \in contested
    <3>1. CASE Audited(x) /\ UNCHANGED action
      BY <2>1, <3>1 DEF Audited, Executor
    <3>2. CASE \E s \in {"executed", "failed"} : Resolve(r, s)
      <4>1. PICK s \in {"executed", "failed"} : Resolve(r, s)
        BY <3>2
      <4>2. s \in Open \cup Closed
        BY DEF Closed
      <4> QED
        BY <4>1, <4>2, ResolveStep
    <3> QED
      BY <2>2, <3>1, <3>2
  <2>4. executing'[x] = "auditing" => action'[r] = "executed"
    <3> SUFFICES ASSUME executing'[x] = "auditing" PROVE action'[r] = "executed"
      OBVIOUS
    <3>1. Succeed(x) /\ ~ResolveThrows(r) /\ Resolve(r, "executed")
      BY <1>1, <1>7 DEF Succeed, Fail, Audited, Executor, EngineTypeOK, Idle
    <3>2. "executed" \in Open \cup Closed
      BY DEF Closed
    <3> QED
      BY <3>1, <3>2, ResolveStep
  <2>5. Honest(r)'
    BY <1>2, <1>4, <2>1, <2>3 DEF Honest, Decided
  <2>6. \A q \in Requests \ {r} : Honest(q)'
    BY <1>1, <1>2, <2>1, <2>3, HonestKept DEF Slid
  <2>7. \A y \in Executors \ {x} : Accounts(y)'
    BY <1>1, <1>2, <2>1, <2>3, OthersAccount
  <2>8. Accounts(x)'
    BY <1>1, <1>2, <2>1, <2>4 DEF Accounts, Idle
  <2> QED
    BY <1>3, <2>5, <2>6, <2>7, <2>8
<1> QED
  BY <1>5, <1>6, <1>7 DEF ExecuteApproved

LEMMA NextSInv ==
  ASSUME PendingAssumption, PolicyAssumption, OneDecider, SInv, [Next]_vars
  PROVE  SInv'
<1>1. DInv'
  BY NextDInv DEF SInv
<1>2. CASE (Tick /\ UNCHANGED engineVars) \/ UNCHANGED vars
  <2>1. UNCHANGED <<action, request, executing, target, started, contested>>
    BY <1>2 DEF Tick, engineVars, vars
  <2> QED
    BY <1>1, <2>1 DEF SInv, Sole, Honest, Accounts
<1>3. CASE \E r \in Requests : Execute(r)
  BY <1>1, <1>3, ExecuteHonest DEF SInv
<1>4. CASE \E d \in Deciders : Approve(d)
  BY <1>1, <1>4, ApproveHonest DEF SInv
<1>5. CASE \E x \in Executors : ExecuteApproved(x)
  BY <1>1, <1>5, FetchHonest, WorkHonest DEF SInv
<1> QED
  BY <1>2, <1>3, <1>4, <1>5 DEF Next

\* With one decider at a time the status of an action tells whether its handler
\* was started: never if it waits or was rejected, some time if it was executed
\* or failed, and once if no executors met on it, whatever expires, whichever
\* audit rejects and however many executors there are.
THEOREM StatusAlways == OneDecider => (Spec => []StatusTruthful)
<1> SUFFICES ASSUME OneDecider PROVE Spec => []StatusTruthful
  OBVIOUS
<1>1. Init => SInv
  BY InitDInv, PendingAssumption, PolicyAssumption
  DEF SInv, Init, PortInit, Sole, Honest, Accounts, Idle
<1>2. SInv /\ [Next]_vars => SInv'
  BY NextSInv, PendingAssumption, PolicyAssumption
<1>3. SInv => StatusTruthful
  BY DEF SInv, Honest, StatusTruthful
<1> QED
  BY <1>1, <1>2, <1>3, PTL DEF Spec

\* No handler has been started more than once but those of actions executors
\* met on, and none of a call of execute() that is about to start it.
Once(r) ==
  /\ r \notin contested => started[r] <= 1
  /\ request[r] = "starting" => started[r] = 0

OInv == SInv /\ \A r \in Requests : Once(r)

LEMMA NextOInv ==
  ASSUME PendingAssumption, PolicyAssumption, OneDecider, OInv, [Next]_vars
  PROVE  OInv'
<1> USE DEF OInv, SInv, DInv, IInv
<1>1. SInv'
  BY NextSInv
<1>2. SUFFICES ASSUME NEW q \in Requests PROVE Once(q)'
  BY <1>1
<1>3. CASE \E r \in Requests : Run(r)
  <2>1. PICK r \in Requests : Run(r)
    BY <1>3
  <2>2. started[r] = 0
    BY <2>1 DEF Once, Run, Request
  <2> QED
    BY <2>1, <2>2 DEF Once, Run, StartHandler, Request, EngineTypeOK
<1>4. CASE \E x \in Executors : RunApproved(x)
  <2>1. PICK x \in Executors : RunApproved(x)
    BY <1>4
  <2>2. executing[x] = "starting"
    BY <2>1 DEF RunApproved, Executor
  <2>3. /\ target[x] \in Requests /\ Decided(target[x])
        /\ target[x] \notin contested => started[target[x]] = 0
    BY <2>2, TargetOfWorking DEF WorksOnDecided, Accounts, Idle
  <2>4. request[target[x]] # "starting"
    BY <2>3 DEF Honest, Decided
  <2> QED
    BY <2>1, <2>3, <2>4 DEF Once, RunApproved, StartHandler, EngineTypeOK
<1>5. CASE ~(\E r \in Requests : Run(r)) /\ ~(\E x \in Executors : RunApproved(x))
  <2>1. started' = started /\ contested \subseteq contested'
    BY <1>5 DEF Next, Execute, Ask, Reject, Authorized, Hold, RunEnds, Approve, Consider,
       Decide, ExecuteApproved, Fetch, Abandon, Admit, Succeed, Fail, Audited,
       engineVars, vars
  <2>2. request'[q] = "starting" => request[q] \in {"authorizing", "starting"}
    BY <1>5 DEF Next, Execute, Ask, Reject, Authorized, Hold, RunEnds, Request, Approve,
       Consider, Decide, ExecuteApproved, Fetch, Abandon, Admit, Succeed, Fail, Audited,
       engineVars, vars, EngineTypeOK
  <2> QED
    BY <2>1, <2>2 DEF Once, Honest
<1> QED
  BY <1>3, <1>4, <1>5

\* What the code promises of an approved action, that its handler runs once,
\* holds for hosts that take one decision at a time and never have two
\* executors at work on one action; the engine does not see to it.
THEOREM RunsOnceIfSequential ==
  OneDecider => (Spec => [](\A r \in Requests : r \notin contested => started[r] <= 1))
<1> SUFFICES ASSUME OneDecider
             PROVE  Spec => [](\A r \in Requests : r \notin contested => started[r] <= 1)
  OBVIOUS
<1>1. Init => OInv
  BY InitDInv, PendingAssumption, PolicyAssumption
  DEF OInv, SInv, Init, PortInit, Sole, Honest, Accounts, Idle, Once
<1>2. OInv /\ [Next]_vars => OInv'
  BY NextOInv, PendingAssumption, PolicyAssumption
<1>3. OInv => \A r \in Requests : r \notin contested => started[r] <= 1
  BY DEF OInv, Once
<1> QED
  BY <1>1, <1>2, <1>3, PTL DEF Spec
=============================================================================
