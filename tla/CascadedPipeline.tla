-------------------------- MODULE CascadedPipeline --------------------------
(***************************************************************************)
(* The cascaded transport: turns that transcribe speech, stream a response *)
(* of the chat model, speak it and wait for the results of the tools it    *)
(* calls, over and over.  Turns share the history, the resolvers of tool   *)
(* results and the abort controllers, and nothing keeps one from starting  *)
(* while another is at work.  An action is the code between two awaits.    *)
(*                                                                         *)
(* Of the history the model keeps its length and the tool calls in it that *)
(* have no result.  The sentences of a response are one: it is spoken when *)
(* the stream has ended.  The ids of tool calls are the model's, one for   *)
(* every call.  The transcriber and the chat model hand the signal they    *)
(* are given to fetch(): an operation that was aborted fails.              *)
(* currentResponseItemId, which the transport only shows, is left out.     *)
(***************************************************************************)
EXTENDS Integers

CONSTANTS
  Turns,          \* turns of the transport's life
  Greetings,      \* those started by createResponse()
  HasStt,         \* is there a transcriber, or does the model take audio
  Notes,          \* messages the host injects
  MaxIterations,  \* rounds of a turn after its first response: 5 in the code
  MaxCalls        \* bound: tool calls of one response

ASSUME PipelineAssumption ==
  /\ Greetings \subseteq Turns
  /\ HasStt \in BOOLEAN
  /\ MaxIterations \in Nat
  /\ MaxCalls \in Nat

Calls == Turns \X (0..MaxIterations) \X (1..MaxCalls)

VARIABLES
  connected,   \* _state = "connected"
  phase,       \* where each turn is
  iteration,   \* the round of each turn
  calls,       \* how many tools its last response calls
  at,          \* which of these it is at
  controller,  \* the abort controller of its operation: "active" in activeAborts
  pending,     \* pendingToolResults: the calls with a resolver
  timers,      \* the calls whose timeout is armed
  entries,     \* history.length
  owed,        \* the tool calls of the history without a tool entry
  injected,    \* the messages the host has injected
  overlapped   \* history: did anybody cut into a turn since connect()

historyVars == <<entries, owed>>
roundVars == <<iteration, calls, at>>
waitVars == <<pending, timers>>
hostVars == <<connected, injected, overlapped>>
vars == <<hostVars, phase, controller, roundVars, waitVars, historyVars>>

Working == {"transcribing", "streaming", "speaking", "waiting", "answered"}
Over == {"done", "failed", "rejected"}
AtWork == {t \in Turns : phase[t] \in Working}

TypeOK ==
  /\ connected \in BOOLEAN
  /\ phase \in [Turns -> {"new"} \cup Working \cup Over]
  /\ iteration \in [Turns -> 0..MaxIterations]
  /\ calls \in [Turns -> 0..MaxCalls]
  /\ at \in [Turns -> 0..MaxCalls]
  /\ controller \in [Turns -> {"none", "active", "aborted"}]
  /\ pending \in SUBSET Calls
  /\ timers \in SUBSET Calls
  /\ entries \in Nat
  /\ owed \in SUBSET Calls
  /\ injected \in SUBSET Notes
  /\ overlapped \in BOOLEAN

Init ==
  /\ connected = FALSE
  /\ phase = [t \in Turns |-> "new"]
  /\ iteration = [t \in Turns |-> 0]
  /\ calls = [t \in Turns |-> 0]
  /\ at = [t \in Turns |-> 0]
  /\ controller = [t \in Turns |-> "none"]
  /\ pending = {} /\ timers = {}
  /\ entries = 0 /\ owed = {}
  /\ injected = {}
  /\ overlapped = FALSE

Call(t) == <<t, iteration[t], at[t]>>

Push == entries' = entries + 1 /\ UNCHANGED owed

Goto(t, p) == phase' = [phase EXCEPT ![t] = p]

\* createAbort() and removeAbort()
Control(t, c) == controller' = [controller EXCEPT ![t] = c]

\* Mutant: a stream without a controller of its own.
StreamUncontrolled(t) == Goto(t, "streaming") /\ UNCHANGED controller

\* A response of the chat model is asked for.
Stream(t) == Goto(t, "streaming") /\ Control(t, "active")
-----------------------------------------------------------------------------
\* The host.  It connects a transport that is not connected.

Connect ==
  /\ ~connected
  /\ connected' = TRUE
  /\ entries' = 1 /\ owed' = {}
  /\ overlapped' = (AtWork # {})
  /\ UNCHANGED <<phase, controller, roundVars, waitVars, injected>>

\* The user has stopped speaking and there is a transcriber.
Transcribe(t) ==
  /\ HasStt /\ t \notin Greetings
  /\ connected /\ phase[t] = "new"
  /\ Goto(t, "transcribing") /\ Control(t, "active")
  /\ overlapped' = (overlapped \/ AtWork # {})
  /\ UNCHANGED <<connected, injected, roundVars, waitVars, historyVars>>

\* The audio goes to the chat model, or createResponse() was called.
Respond(t) ==
  /\ ~HasStt \/ t \in Greetings
  /\ connected /\ phase[t] = "new"
  /\ Push
  /\ Stream(t)
  /\ overlapped' = (overlapped \/ AtWork # {})
  /\ UNCHANGED <<connected, injected, roundVars, waitVars>>

\* injectSystemMessage()
Inject(n) ==
  /\ n \notin injected
  /\ injected' = injected \cup {n}
  /\ Push
  /\ overlapped' = (overlapped \/ owed # {})
  /\ UNCHANGED <<connected, phase, controller, roundVars, waitVars>>

\* Mutant: the wait is rejected, and the turn ends where it waited.
CancelInFlightRejects ==
  /\ controller' = [t \in Turns |->
       IF controller[t] = "active" THEN "aborted" ELSE controller[t]]
  /\ phase' = [t \in Turns |->
       IF phase[t] = "waiting" /\ Call(t) \in pending THEN "done" ELSE phase[t]]
  /\ timers' = timers \ pending
  /\ pending' = {}
  /\ UNCHANGED roundVars

\* cancelCascadedInFlight(): a turn that waits is answered "cancelled".
CancelInFlight ==
  /\ controller' = [t \in Turns |->
       IF controller[t] = "active" THEN "aborted" ELSE controller[t]]
  /\ phase' = [t \in Turns |->
       IF phase[t] = "waiting" /\ Call(t) \in pending THEN "answered" ELSE phase[t]]
  /\ timers' = timers \ pending
  /\ pending' = {}
  /\ UNCHANGED roundVars

\* cancelResponse()
Cancel ==
  /\ CancelInFlight
  /\ UNCHANGED <<hostVars, historyVars>>

Disconnect ==
  /\ CancelInFlight
  /\ connected' = FALSE
  /\ entries' = 0 /\ owed' = {}
  /\ UNCHANGED <<injected, overlapped>>

\* The resolver of a call goes back to the turn that set it.
Resolve(c) ==
  phase' = [t \in Turns |->
    IF phase[t] = "waiting" /\ Call(t) = c THEN "answered" ELSE phase[t]]

\* Mutant: the timer of an answered call is left to fire.
SubmitKeepingTimer(c) ==
  /\ c \in pending
  /\ Resolve(c)
  /\ pending' = pending \ {c}
  /\ UNCHANGED <<hostVars, timers, controller, roundVars, historyVars>>

\* submitFunctionResult().  Without a resolver, because the result is late or
\* early or is the second, the transport logs a warning and that is all.
Submit(c) ==
  /\ c \in pending
  /\ Resolve(c)
  /\ timers' = timers \ {c}
  /\ pending' = pending \ {c}
  /\ UNCHANGED <<hostVars, controller, roundVars, historyVars>>

-----------------------------------------------------------------------------
\* A turn

Transcribed(t) ==
  /\ phase[t] = "transcribing" /\ controller[t] = "active"
  /\ Push
  /\ Stream(t)
  /\ UNCHANGED <<hostVars, roundVars, waitVars>>

\* The transcript is empty.
Silence(t) ==
  /\ phase[t] = "transcribing" /\ controller[t] = "active"
  /\ Goto(t, "done") /\ Control(t, "none")
  /\ UNCHANGED <<hostVars, roundVars, waitVars, historyVars>>

\* An operation that was aborted ends the turn without a word, another error is
\* reported; nobody handles either when createResponse() started the turn.
Failure(t) ==
  IF t \in Greetings THEN "rejected"
  ELSE IF controller[t] = "aborted" THEN "done" ELSE "failed"

\* The controller of a transcription that fails stays in activeAborts.
TranscribeFails(t) ==
  /\ phase[t] = "transcribing"
  /\ Goto(t, Failure(t))
  /\ UNCHANGED <<hostVars, controller, roundVars, waitVars, historyVars>>

StreamFails(t) ==
  /\ phase[t] = "streaming"
  /\ Goto(t, Failure(t)) /\ Control(t, "none")
  /\ UNCHANGED <<hostVars, roundVars, waitVars, historyVars>>

\* The response is complete: n tools to call, and a sentence to speak, whose
\* synthesis has a controller of its own.
StreamEnds(t, n) ==
  /\ phase[t] = "streaming" /\ controller[t] = "active"
  /\ calls' = [calls EXCEPT ![t] = n]
  /\ at' = [at EXCEPT ![t] = 0]
  /\ Goto(t, "speaking") /\ Control(t, "active")
  /\ UNCHANGED <<hostVars, iteration, waitVars, historyVars>>

\* The response calls no tools: an entry of the assistant, if it has text.
Finish(t) ==
  /\ phase[t] = "speaking" /\ calls[t] = 0
  /\ Push \/ UNCHANGED historyVars
  /\ Goto(t, "done") /\ Control(t, "none")
  /\ UNCHANGED <<hostVars, roundVars, waitVars>>

\* The host is told of a call, then its resolver and its timer are set: an
\* answer the host gives at once is lost.
Wait(t, i) ==
  LET c == <<t, iteration[t], i>>
  IN /\ at' = [at EXCEPT ![t] = i]
     /\ pending' = pending \cup {c}
     /\ timers' = timers \cup {c}
     /\ Goto(t, "waiting")
     /\ UNCHANGED <<iteration, calls>>

\* The response calls tools: an entry that lists them all, and the first.
CallTools(t) ==
  /\ phase[t] = "speaking" /\ calls[t] > 0
  /\ entries' = entries + 1
  /\ owed' = owed \cup {<<t, iteration[t], i>> : i \in 1..calls[t]}
  /\ Wait(t, 1)
  /\ Control(t, "none")
  /\ UNCHANGED hostVars

\* Mutant: the resolver is dropped and not called.
TimeoutDrops(c) ==
  /\ c \in timers
  /\ timers' = timers \ {c}
  /\ pending' = pending \ {c}
  /\ UNCHANGED <<hostVars, phase, controller, roundVars, historyVars>>

\* The timer of a call fires.
Timeout(c) ==
  /\ c \in timers
  /\ timers' = timers \ {c}
  /\ IF c \in pending THEN Resolve(c) ELSE UNCHANGED phase
  /\ pending' = pending \ {c}
  /\ UNCHANGED <<hostVars, controller, roundVars, historyVars>>

\* Mutant: one call more than the response has.
MoreCallsByOne(t) == at[t] <= calls[t]

MoreCalls(t) == at[t] < calls[t]

\* An entry for the result, the timeout or the cancellation the turn was given.
ToolEntry(t) ==
  /\ phase[t] = "answered"
  /\ entries' = entries + 1
  /\ owed' = owed \ {Call(t)}

NextCall(t) ==
  /\ MoreCalls(t)
  /\ ToolEntry(t)
  /\ Wait(t, at[t] + 1)
  /\ UNCHANGED <<hostVars, controller>>

NextRound(t) ==
  /\ ~MoreCalls(t) /\ iteration[t] < MaxIterations
  /\ ToolEntry(t)
  /\ iteration' = [iteration EXCEPT ![t] = @ + 1]
  /\ Stream(t)
  /\ UNCHANGED <<hostVars, calls, at, waitVars>>

\* The turn had all the rounds it may have.
GiveUp(t) ==
  /\ ~MoreCalls(t) /\ iteration[t] = MaxIterations
  /\ ToolEntry(t)
  /\ Goto(t, "done")
  /\ UNCHANGED <<hostVars, controller, roundVars, waitVars>>

TurnStep(t) ==
  \/ Transcribed(t) \/ Silence(t) \/ TranscribeFails(t)
  \/ \E n \in 0..MaxCalls : StreamEnds(t, n)
  \/ StreamFails(t)
  \/ Finish(t) \/ CallTools(t)
  \/ NextCall(t) \/ NextRound(t) \/ GiveUp(t)

Next ==
  \/ Connect \/ Cancel \/ Disconnect
  \/ \E n \in Notes : Inject(n)
  \/ \E c \in Calls : Submit(c) \/ Timeout(c)
  \/ \E t \in Turns : Transcribe(t) \/ Respond(t) \/ TurnStep(t)

Spec == Init /\ [][Next]_vars

\* The providers of a turn answer or fail, and timers fire; hosts do nothing
\* that is waited for.
FairSpec ==
  /\ Spec
  /\ \A t \in Turns : WF_vars(TurnStep(t))
  /\ \A c \in Calls : WF_vars(Timeout(c))

-----------------------------------------------------------------------------
\* While nobody cuts into a turn, no request to the chat model holds a tool
\* call without its result, whatever was cancelled, timed out or answered late
\* before; the chat model refuses such a request, and every later one with it.
CompleteRequests ==
  connected /\ ~overlapped =>
    \A t \in Turns : phase[t] = "streaming" => owed = {}

\* A turn waits for the very call whose resolver and timer are set, and these
\* are set for no other: a late answer or an old timer never ends another wait.
WaitsCanEnd ==
  LET awaited == {Call(t) : t \in {u \in Turns : phase[u] = "waiting"}}
  IN pending = awaited /\ timers = awaited

\* Whatever transcribes, streams or speaks is within reach of
\* cancelCascadedInFlight(), or was aborted by it.
CancelReaches ==
  \A t \in Turns :
    phase[t] \in {"transcribing", "streaming", "speaking"} =>
      controller[t] # "none"

Promise == INSTANCE Conversation WITH open <- connected /\ ~overlapped

\* While nobody cuts into a turn, the history is a conversation: each entry
\* with tool calls is followed by their results, one for each call, also by
\* those of calls that were cancelled or timed out.
ImplementsConversation == Promise!Spec

\* A turn at work ends, also if the host never answers: the tool waits of the
\* pipeline time out instead of hanging the session.
TurnsEnd == \A t \in Turns : t \in AtWork ~> phase[t] \in Over
=============================================================================
