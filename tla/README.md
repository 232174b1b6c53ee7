# Verification of the voice agents SDK

The repository is an SDK for voice agents in TypeScript: a server library
(`src/src/server`), the SDK proper (`src/src/sdk`), a browser client
(`src/src/client/browser`) and a starter application
(`src/starters/voip-rtc`).  Everything runs on one event loop per process, so
that code between two awaits is atomic; what is hard is what happens *between*
the awaits: handlers, promises, timers and sockets that do not know of each
other.  This directory holds TLA+ modules that model those parts, the TLC
configurations that check them, and proofs for TLAPS.

A path such as `agent/sessions/voice-session.ts` below is under
`src/src/server`; `PROJECT.json` names the lines of every definition.

## Inventory

| part | state | operations | what is hard | what makes it correct |
|---|---|---|---|---|
| In-memory agent mailbox (`mailbox/in-memory-agent-mailbox.ts`) | map of messages, subscriptions | send, claim, ack, list, subscribe | leases that expire, late acks, retried sends | a message is claimed by one worker, settled for good, never lost |
| Mailbox worker (`mailbox/agent-mailbox-worker.ts`) | the batch of a run and a cursor | runOnce | loops share a cursor around awaits; handlers hang or throw | every entry handled by one loop, counters add up |
| Session state machine (`agent/sessions/state-machine/`) | state | transition | refused transitions are ignored by callers | a session that is over stays over |
| Realtime voice session (`agent/sessions/voice-session.ts`) | state machine, context, socket of the provider | start, end, interrupt, provider callbacks, function calls | overlapping calls, end() in the middle of anything, start() again, late close events | host, summary and model agree on each call; the transport knows the connection it has, and an ended session has none |
| Pending action port (`agent/sessions/pending-action-port.ts`) | map of actions | create, get, resolve | lazy expiry, quota | a closed action stays closed, the quota holds |
| Tool policy engine (`agent/sessions/tool-execution-policy-engine.ts`) | call counts | execute, executeApprovedPendingAction | every check is separated from its effect by awaits | no unapproved handler runs; the status tells what ran |
| Browser voice service (`browser/voice-service/service.ts`) | map from socket to session | startSession, endSession, shutdown, socket events | starts and ends overlap and share one map entry | a closed socket leaves nothing behind |
| Cascaded transport (`agent/transports/cascaded/`) | history, tool waits, aborts | STT, LLM and TTS turns, tool results, cancel | overlapping turns, an answer before its wait, cancel in a wait | every tool call gets its result in the history, no tool wait hangs |
| Realtime transports (`agent/transports/*-realtime/`) | socket, response in flight | connect, disconnect, events, submissions | connect and disconnect race | events translated once and in order |
| Browser client (`src/src/client/browser/session`, `voice-ws.ts`) | snapshot, audio resources, a WebSocket client per call with its reconnect timer | connect, disconnect, destroy, socket events | connect() awaits three times, disconnect() works later and on what the fields hold by then, late close events, reconnects | one connection per client, nothing left after a hang-up, no message of an old session |
| Twilio transports (`agent/transports/twilio-*`) | stream ids, pending marks | marks, media, stop | mark timeouts and late marks | each mark settles once |
| Barge-in handler, interrupt controller (`agent/handlers/barge-in`, `agent/sessions`) | state, timers | speech events, interrupt | timers that outlive their cause | recovery only from the interruption that started it |
| A2A router and JSON-RPC adapter (`protocols/a2a`) | none of their own | send, get, list and cancel tasks | cancel looks up, awaits, looks up again, awaits, acknowledges | a task canceled while it is queued is never handled |
| MCP adapters (`protocols/mcp`) | none | dispatch of tool calls | | |
| Learning loop (`src/src/sdk/learning`) | runs | enqueue, run, publish | the end of a session reported twice; a step or a publication rejects; a restart | a session is learned once, the status of a run tells what it did |
| Agent drafts and their evolution (starter, `server/builder`, `server/learning`) | drafts with versions, audits, a rollback artifact, a pending infra plan | builder workflows, validateAndApply, approve, rollback | workflows read, await for minutes, and save what they made of what they read | versions only grow, no recommended plan that needs an approval without one |
| SDK store, registry, builders (`src/src/sdk`) | records | sequential | | |
| Starter application | approvals, routes, database adapters | approve, reject | two deciders | one decision per action |

How they interact.  The browser service makes, per socket, a media bridge and a
realtime voice session; the session drives a provider transport and hands each
function call to the policy engine; the engine runs the tool or leaves a pending
action, which a person decides on through the approval service, after which the
host has the engine execute it.  Agents exchange work through the mailbox, which
workers poll; A2A is a protocol face of the same mailbox.  In the browser, the
client talks to the service through one WebSocket per call.  When a session ends
the host hands its summary to the learning loop, which may evolve the draft the
agent was compiled from, beside the workflows that build that draft.

## Modules

| module | models | state and actions |
|---|---|---|
| `AgentMailbox` | the mailbox | `messages` in insertion order (an inbox is the pair of tenant and target agent), open subscriptions, what subscribers were last told; `Send`, `Claim`, `Ack`, `Subscribe`, `Unsubscribe`, `Tick` |
| `AgentMailboxWorker` | `runOnce()` of several workers over the mailbox | batch, cursor, what each loop handles; `RunOnce`, `TakeNext`, `Settle`, `Hang`, `FinishRun` |
| `TaskQueue` | abstract: a task is claimed once and settled once by its claimer | refined by `AgentMailboxWorker` |
| `A2ATasks` | A2A clients over `AgentMailboxWorker` | the task of each message, where each `tasks/cancel` is and what it found; `SendMessage`, `Look`, `LookAgain`, `Acknowledge` |
| `SessionStateMachine` | the transition table and what a refused transition does | operators only |
| `VoiceSession` | start and end, any number of each, interrupt, the provider's callbacks, the handler of each function call | where each `start()` and its socket are, the socket the transport refers to, the context; one action per stretch between two awaits |
| `VoiceLink` | abstract: the connection of a `start()` never comes back | followed by each `start()` of `VoiceSession` and each session of `BrowserVoiceService` |
| `PendingActions` | the port of pending actions | status and remaining time per action; create, get, resolve |
| `ToolPolicy` | `execute`, `executeApprovedPendingAction`, and deciders | where each request, executor and decider is; extends `PendingActions` |
| `BrowserVoiceService` | one socket: starts, ends, close, shutdown | the map's entry, where each handler is, state of each bridge and link |
| `CascadedPipeline` | the cascaded transport and its turns: transcribe, stream, speak, wait for tools, again | where each turn is, the shared history (its length and the calls without a result), resolvers, timers, abort controllers; one action per stretch between two awaits |
| `Conversation` | abstract: each tool call gets one result before anything else is said | refined by `CascadedPipeline` |
| `BrowserVoiceClient` | the session client of the browser, the WebSocket client of each connect() and the host | snapshot state, the fields with what they refer to, sockets, timers, contexts, microphones; one action per stretch between two awaits, timers or events |
| `AgentDrafts` | one draft, its workflows and the evolution port | the draft, the copy each workflow works on; `Read`, `Save`, `SaveAtOnce`, `GivesUp`, `Apply`, `Approve`, `Rollback` |
| `LearningLoop` | the runs of the loop over `AgentDrafts`, with restarts | status in the store, where each handler is and goes on; one action per publication and await |
| `AgentMailboxProofs`, `A2AProofs`, `VoiceSessionProofs`, `ToolPolicyProofs`, `BrowserVoiceProofs`, `BrowserClientProofs`, `CascadedPipelineProofs`, `LearningProofs` | the theorems of these modules | |
| `MCMailbox`, `MCA2A`, `MCToolPolicy`, `MCBrowserVoice`, `MCLearning` | instances for TLC | constants, symmetry |

Conventions.  An action is the code between two awaits, everything that it
calls included; a rejected promise is the action taken instead.  A definition
whose comment begins with *Mutant* is a plausible fault, used to check that a
property notices it; no specification uses one.  Variables marked *history* are
written and never read by the actions; they exist so that properties can speak
of the past: what the host did (`cutIn`, `hasty`, `overlapped`, `crossed`,
`early`, `contested`), what failed (`failed`, `lost`, `troubled`) and what was
done (`started`, `stopped`, `reported`, `appended`, `approved`).  A discipline
of the host is such a history and not a guard: every order of calls is
explored, and a property says which histories it speaks of.

Time is relative.  A lease or an expiry is the number of ticks that remain, so
no clock grows; the age of a message saturates at `MaxAge`, past which updates
are not told apart, as equal timestamps are in the code.

## Runs

Every run finishes within four minutes on two workers.  The bounds are named in
the configurations.

| run | instance | checks |
|---|---|---|
| `mailbox_no_lease` | 2 workers of 1 inbox, 3 messages, batches of 2, 2 loops, one worker may hang, one idempotency key, a subscriber | a retried send queues nothing; **implements `TaskQueue`** |
| `mailbox_lease` | 2 workers of 1 inbox, 2 messages, leases of 1 tick, one worker may hang, one task, one `tasks/cancel`, fairness | types; a claimed message always has a keeper; a task canceled while queued is never handled; settled stays settled; **every message is settled in the end** |
| `session_calls` | 2 calls, 2 `start()`s and 2 `end()`s at any time, fairness | types; tool accounting; host and model agree; the transport knows its connection; ended means disconnected; no revival; **calls settle** |
| `session_end_claim` | 1 call, 1 `start()`, 1 `end()` | violated: `EndedIsFinal` |
| `policy_single` | 3 requests, 2 of them held, quota 1, limit 2, expiry, failing audits, 1 decider, 2 executors that overlap | quota; the limit of calls but for the executors that overlap; the status tells what ran, and that it ran once where no executors met; nothing unapproved runs; closed for good |
| `policy_run_once_claim` | 2 requests, 2 executors | violated: `HandlerRunsOnce` |
| `browser_service` | 2 starts, 2 ends at any time, any operation of a bridge or a session may reject, fairness | types; with an orderly host nothing is left on a closed socket, one session is connected at a time and the client knows; a session reported ended was released; **a closed socket is released for good** |
| `browser_end_claim` | 1 start, 1 end | violated: `BridgeStopsAtEnd` |
| `browser_client` | 2 connects, 2 disconnects under way, destroy at any time, every audio mode, 2 reconnects, fairness | types; one connection per client; nothing left after a hang-up; idle until the next connect; **every client gives up when the server is gone** |
| `cascaded_turns` | 2 turns that may overlap (1 spoken, 1 greeting), 2 rounds of up to 2 tool calls, 1 injected message, cancels, timeouts, reconnections, fairness | types; waits can end; cancel reaches everything in flight; **the history implements `Conversation`; every turn ends** |
| `learning_runs` | the end of 1 session reported twice, 1 compile, 1 build, 2 requests of the host, sink, ports and activation may reject, 1 restart | types; a session is learned once; the status tells what was done; no recommended plan that needs an approval without one; **only a workflow that saves over a draft it has not read takes anything away** |
| `learning_append_only_claim` | 1 run, 1 compile | violated: `VersionsAppendOnly` |

Why the bounds are enough.  Two workers, deciders, executors, runs or callers
are what a race needs; a third message lets one batch be full while another
worker claims; a lease of one tick is the shortest that can run out while a
batch waits, and because time is relative a longer one adds no new order of
events. `mailbox_lease` has the constraint `MCUnwatched`: no state with a
subscriber is explored there, subscriptions being in `mailbox_no_lease` and in
the theorem `SubscribersCurrent`; the constraint cuts off the steps of
`Subscribe` alone, which no other action waits for, so that no liveness is lost
to it.  Two executors are what the overrun of a limit needs: both pass the
check before either is counted, and one call more than the limit allows is
started.  Two calls of a session overlap in every pair of phases, and no action
of a call reads another call except through the state, the context and the
link.  Two `start()`s let the second meet the socket of the first in each of
its phases, and two `end()`s fall before, between and after them.  Two starts
and two ends on a socket let an end that belongs to the first meet the second.
Two connects of the client let what the first left meet the second.  Two turns
of the pipeline overlap in every pair of phases; two calls of a response and
two rounds are the fewest that have a next call and a next round, and a round
beyond the last one (the code allows 5 after the first, `MaxIterations` is 1).
A build saves twice: more saves are the second again.  Symmetry is used in
`policy_single` and `learning_runs`, which check no liveness.  The theorems
below remove the bounds for what they cover.

## Fairness

Nobody has to send, start, end, speak or hang.  What is fair is what the event
loop does by itself: promises settle (`Settle`, `Handler`, `StartStep`,
`EndStep`), loops of a run go on, the host calls `runOnce()` again, time passes.
The policy engine answers every call because it times handlers out
(`tool-execution-policy-runtime.ts`), which justifies fairness for the handler
of a function call.  A handler of a mailbox message has no timeout; hence
`CanHang`, and the liveness of a message rests on another worker and a lease.
In the pipeline a host need not answer a tool call: the timer of the wait fires.
That the providers of a turn answer or fail is an assumption, for `fetch()` has
no timeout there.  In the browser client reconnect timers fire and a socket that
opens or closes comes to an end; the server may be gone for good.  No client of
a task has to cancel it.  The learning loop is checked without fairness: nothing
promises that a run ends, and a restart forgets it.

## Where the code and its documents differ

* `session_end_claim`: `end()` while a tool is processed reports the summary, is
  refused both transitions and leaves a live session.
* `policy_run_once_claim`: two executions of one approved action both run it.
* `browser_end_claim`: ending a session that is still starting stops its bridge,
  and the start then starts it again.
* `learning_append_only_claim`: a compile saves the draft it read before it
  awaited the model, without the versions and audits that learning, an approval
  or a rollback appended meanwhile; the README of the starter says that versions
  are append-only.

What the documents say holds under a discipline that the code does not enforce.
For each of the four the proofs name one under which it holds of every instance:

| claim | holds if | theorem |
|---|---|---|
| `EndedIsFinal` | `end()` is called in a state that may end, and not after the session was reported (`EndInTime`) | `EndedIsFinalInTime` |
| `HandlerRunsOnce` | one decider at a time, and no two executors at work on one action (`contested`) | `RunsOnceIfSequential` |
| `BridgeStopsAtEnd` | no end finds a session that is still starting (`EndAfterStart`); starts and ends may overlap otherwise, and anything may fail | `EndStopsBridge` |
| `VersionsAppendOnly` | a workflow that saves has read the versions it saves over (`SavesCurrent`) | `AppendOnlyIfCurrent` |

Without a run of its own: an audit that rejects after the handler ran records
the executed action as failed
(`agent/sessions/tool-execution-policy-engine.ts:159`).

A task that a worker settles while `tasks/cancel` is between its lookups is
overwritten with `canceled`, although a settled task is refused as not
cancelable when the first lookup finds it so
(`json-rpc-mailbox-adapter.ts:156`). A learning run that is queued or running
when the server stops is never taken up again and stands for its session from
then on.

Some properties are checked only under the discipline they need, and fail
without it: `OneSessionPerSocket`, `AllReleased` and `ClientAgrees` when the
host handles a message in the middle of a start or an operation rejects,
`ConnectionKnown` when a `start()` meets a socket that is not closed yet
(`crossed`): the late close event of the earlier one, or its connection that
comes up after all, takes the reference to the new one from the transport,
which then can neither use nor close it; `EndedMeansDisconnected` then too, and
when `end()` meets a `start()` or a `start()` follows an `end()` (`early`),
`ReleasedAfterHangUp` and `IdleUntilConnect` when the host of the client calls
`connect()` or hangs up before what it started is through (`hasty`): connecting
again after `ended` or `error` leaves the old client and the old microphone
behind, and hanging up while the URL is awaited leaves a connection nobody
refers to.  The limit of calls of a tool does not hold for executions that
overlap (checked before an await, counted after it): `LimitRespected` says, and
`OverrunBounded` proves, that they exceed it by no more than those that
overlap.  `StatusTruthful`, `ClosedForGood` and `QuotaRespected` need one
decider at a time: two overwrite each other's decision.  That a handler is run
once per action is said of actions no two executors met on. An infra plan that
`approvalReasonsFor()` would hold for an approval
(`learning/evolution-infra.ts:37`) is held only where the evolution port gets
it: the workflows install the plans of the planner without asking, also such
plans. `RiskyNeedsApproval` therefore speaks of the recommended ones.
`ImplementsConversation` speaks of histories nobody cut into (`overlapped` is
FALSE), for a turn that starts while another waits for a tool puts its entry
between the call and the result.  A cancelled turn that waits for a tool is one
way to get there: it is answered "cancelled", asks the model again and speaks
on.

## Proofs

All theorems hold for every value of the constants under the named assumptions
of the modules (`MailboxAssumption`, `WorkerAssumption`, `SessionAssumption`,
`TasksAssumption`, `PendingAssumption`, `PolicyAssumption`, `ServiceAssumption`,
`ClientAssumption`, `PipelineAssumption`, `DraftsAssumption`,
`LoopAssumption`), which only give the constants their kinds.

* **Mailbox** (`AgentMailboxProofs`).  `TypeCorrect`; `ClaimedHasKeeper` and
  `CursorSplits` from `Inv`, which adds to the types, per worker, that the
  entries handled, done and below the cursor fit together (`RunInv`): without it
  a late acknowledgement could leave a claimed message outside every batch.
  `SettledForGood` from the same invariant.  A lease that runs out lets a second
  worker handle a message; as long as none runs out on a claimed message
  (`LeasesLast`, a hypothesis on the execution) `HandledOnceWhileLeased` and the
  refinement `LeasesImplementTaskQueue` hold for leases of any length, from
  `OnceInv` (a message never claimed was never handled, and a pending entry of a
  batch carries the claim of its worker and is pending in no other) and
  `PendingClaimed` (nobody else has settled it).  Without leases (`LeaseMs = 0`)
  no lease is ever set (`Unleased`), hence `HandledOnce` and
  `MailboxImplementsTaskQueue`.
  `SentOnce` and `SubscribersCurrent` from `SendersInv`, which adds to both that
  nobody was told of a message that does not exist (`ViewInv`).
* **A2A** (`A2AProofs`).  The same mailbox with any number of clients that
  cancel: `TasksTypeCorrect`, `CancelsKeepKeepers`,
  `SettledForGoodWithCancels`, and `CanceledNeverHandled`, which needs
  `StopInv`: what was canceled while queued is settled, was never handled and
  is in no batch, and no entry of a batch is queued, so that no claim made
  before can still bring it to a handler. The steps of the workers are those of
  the mailbox proofs. `HandledOnceWithCancels`, again while leases last:
  `OnceInv` is stated so that a cancel keeps it, which settles a message under
  its handler but leaves the claim with the worker; `PendingClaimed`, and with
  it the task queue, it breaks.
* **Voice session** (`VoiceSessionProofs`).  `TypeCorrect`; `OverForGood` (the
  states that are over are closed under the transition table); the agreement of
  host and model and the accounting of calls from `CallsInv`, which ties the
  phase of each handler to what host and model were told;
  `ConnectionAlwaysKnown` from `SocketInv`: while no `start()` meets a socket,
  one socket at most is not closed, and the transport refers to it exactly
  while it is open.  `DisconnectedAlways` from `EndedInv`, by which after an
  `end()` no `start()` is connecting and no socket is open.
  `EachStartFollowsVoiceLink`: every step is a step of the `VoiceLink` of a
  `start()` or leaves its phase alone, whatever starts, ends and closes beside
  it.  `EndedIsFinalInTime` from `EndInv`: between the request and the report
  of an end the session is over, and once reported it is in a final state,
  which only another request to end could leave.
* **Tool policy** (`ToolPolicyProofs`).  `TypeCorrect` and `OnlyApprovedAlways`
  for any number of deciders and executors, from `IInv`: an action is approved
  only by a decider and an executor only works on approved ones.  With one
  decision at a time (`OneDecider`) `ClosedAlways` and `QuotaAlways` from
  `DInv`: the action a decider has read still waits or has expired.  Also with
  one decision at a time, and any number of executors, `StatusAlways` from
  `SInv`: an executor accounts for whether the handler of its action was
  started (`Accounts`), executors that work on one action know that they met
  (`Sole`), an approved action whose handler was started is being executed
  unless they did, and a request has no action and no started handler before it
  is authorized (`Honest`).  Without the last part a new action could wait for
  a handler that already ran.  `RunsOnceIfSequential` adds `Once`: the handler
  of a request that starts has not been started.  For any hosts
  `ExpiredForGood`, an action property, and `OverrunBounded` from
  `WithinLimit`: the count of a tool and the calls between its check and its
  count stay below the limit and the calls that overlap, all told;
  `LimitAlways` is its case for the tools only executors call.
* **Browser service** (`BrowserVoiceProofs`).  From `Inv`, which is inductive
  for every host.  Its part for an orderly host, `IInv`, says that one start is
  at work at a time, that whatever streams or is connected is held by the
  entry, by the start or by an end at work, and that a closed socket with an
  entry has an end at work: `ReleasedAlways` and `OneSessionAlways`.  `Told`
  ties what the client heard last to the entry: `ClientAlwaysAgrees`.  `Fresh`,
  that an entry is of a bridge that streams, of a start that goes on, or in the
  hands of an end at work, holds for any host as long as bridges stop:
  `NeverStaleEntry`, which no run checks.  `ReportedAlways` allows every
  failure and follows from `RInv`: an end works on a session whose start is
  over, which no later start can stream or connect again (`RInv`, of which
  `Base` holds for every host and `EndsMeetOver` for one whose ends find no
  start at work; the latter also gives `EndStopsBridge`).
  `LinksImplementVoiceLink` maps the link of each session of the service to
  `VoiceLink`, as `EachStartFollowsVoiceLink` does the `start()` of a session,
  so that both follow the same abstract connection; it needs `MadeOnce`, that a
  start that has not made its session yet finds no link.  `TypeCorrect` counts
  the ends that are over (`EndsOf`) to bound how often a session is reported.
* **Browser client** (`BrowserClientProofs`).  `ClientTypes` and
  `OneConnectionAlways` for any host.  For a host that waits, `ReleasedAlways`
  from `Orderly`: each socket, timer, pump, stream and context is the one its
  field refers to, or belongs to the one call in flight; without it a field
  could be overwritten while what it held goes on.  `IdleAlways` from
  `IdleQuiet`: an idle snapshot leaves no call in flight and no socket that
  could still speak.
* **Cascaded pipeline** (`CascadedPipelineProofs`).  From one invariant `IInv`,
  for any number of turns that overlap in any way: `TypeCorrect`,
  `CancelReachesAlways`, and `WaitsCanAlwaysEnd` from `WaitInv` (resolver and
  timer of a call are set exactly while its turn waits at it).  From its part
  `TalkInv` (while nobody cuts in, one turn is at work and the calls owed are
  those from the one it is at to the last) `RequestsComplete` and the refinement
  `HistoryIsAConversation`; `AtACall`, that a waiting turn is at a call its
  response has, is what shows that the entry of the last call leaves none owed.

* **Learning** (`LearningProofs`).  `LearningTypeCorrect`; `LearnsOnce` from
  `OneRunPerSession` and `DInv`: one run of a session is in the store at most,
  and no draft, also none a workflow holds a copy of and will save, has two
  versions of one run; without the copies a late save could bring a version
  back twice. `RiskyIsApproved` from the same `DInv`, whose copies carry no
  recommended plan that needs an approval without it, but any plan of a
  workflow.  `StatusIsTrue` from `RInv`, which ties the status of a run, where
  its handler is and whether it appended a version; `VersionsSerialize` is an
  action property: every step either extends the draft or is the save of a
  workflow whose copy is not the draft.  `AppendOnlyIfCurrent` from the same
  invariant: under `SavesCurrent` every step keeps the versions or appends one,
  and only one of its own makes a learner one that appended (`Grows`).

Theorems of the form `Spec /\ [][D]_vars => []P` or `Spec /\ []D => []P` speak
of the executions of the model that keep the discipline `D`; the specification
is the unrestricted one, and `D` is named next to the theorem.  None is vacuous
or idle: with leases of one tick, for instance, a batch may be handled and
settled before the next tick, which keeps `LeasesLast`, and in an execution
that does not keep it a message is handled twice.

Only model-checked: the liveness properties (`EventuallySettled`,
`CallsSettle`, `ClosedIsReleased`, `GivesUp`, `TurnsEnd`; fairness and ENABLED
are beyond the prover).  Only proved: `CursorSplits`, `HandledOnce`,
`HandledOnceWhileLeased`, `HandledOnceWithCancels`, `SubscribersCurrent`,
`NeverStaleEntry`, `EachStartFollowsVoiceLink`, `LinksImplementVoiceLink`,
`RequestsComplete`, `ExpiredForGood`, `OverrunBounded`, `TypeCorrect` of the
policy engine and of the mailbox without A2A clients, and the four theorems of
the preceding section, whose claims no passing run can check.

## Assumptions about the surroundings

* Callbacks of the host do not throw, but for handlers and audits of tools,
  whose rejections are modelled.
* `disconnect()` of a provider resolves; `connect()` may resolve or reject.
* A decider reads an action and resolves it after an await, as the starter's
  approval service does; ownership checks are not modelled, one owner is.
* The pending actions and calls of one session are modelled: quota and limit
  count per session.
* In `BrowserVoiceService` a session is its `VoiceLink` phase, because the
  service calls `start()` once per session and each `start()` is proved to
  follow it; one socket is modelled because the map has one entry per socket
  and no handler reads another's.
* The ids of tool calls differ, and a result can be written as JSON.  The
  transcriber and the chat model pass the abort signal on, as those of the
  repository do; a host calls `connect()` on a transport that is not connected.
* An app-owned mailbox whose `ack` rejects is not modelled, and neither are run
  repositories and draft stores whose methods are asynchronous: those of the
  repository read and write at once, into a file that is there after a restart
  (a file torn by a crash is not modelled).
* A2A clients name the inbox of a task.
* In `LearningLoop` `Session(r)` is the session, the agent and the draft a run
  is asked for, compared as a whole.

## Not modelled

Audio samples and signal processing; wording of prompts, logs and errors; the
redaction of tool results; database, LLM and infrastructure adapters, which are
most of the starter; the web UI; the parsing of requests; plain data types and
builders, most of `src/src/sdk`.  These make up most of the lines of the
repository and keep no state that several actors share.

Of the parts that do, these are left, with what is hard in them:

* `TwilioStream`: a mark that times out while its acknowledgement is under way,
  or is sent twice under one name, settles or loses the other's promise
  (`agent/transports/twilio-voice/transport.ts:160`).
* `InterruptRecovery`: the recovery timer of a first interruption fires within a
  second one (`agent/sessions/interrupt-controller.ts:63`); `BargeIn`: its
  cooldown and timers.
* `MediaBridge`: the flush timer and buffer under `BrowserVoiceService`, which
  keeps of the bridge whether it streams.
* The realtime transports beyond `VoiceLink`: the translation of events.
* The Temporal worker of the starter, which publishes statuses of its own over
  those of the loop; `createPromptPlan()` under the id of a draft that exists;
  run repositories that look for a duplicate and create the run in two
  asynchronous steps.
* The entries with expiry of the memory store, which `PendingActions` resembles.
* An operation of a bridge that rejects and leaves its session connected
  (`browser/voice-service/service.ts:205`), two ends that both report one
  session (`:225`), and the promise of a greeting nobody handles
  (`agent/transports/cascaded/transport.ts:114`): the models allow them, no
  text of the repository says what should happen, and no property is stated.
