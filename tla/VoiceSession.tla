---------------------------- MODULE VoiceSession ----------------------------
(***************************************************************************)
(* One realtime voice session: start() and end(), the callbacks of its     *)
(* provider, interruptions, and the asynchronous handling of function      *)
(* calls, which overlap each other and everything else.  An action is the  *)
(* code between two awaits.  The host may call anything at any time: a     *)
(* second start(), an end() before or during a start().                    *)
(*                                                                         *)
(* Of the provider the model keeps its sockets, as a realtime transport    *)
(* does: each connect() opens one, the field ws refers to the last that    *)
(* came up, disconnect() closes that one, and the close event of any of    *)
(* them clears the field.  Events already received are delivered while a   *)
(* socket closes.                                                          *)
(***************************************************************************)
EXTENDS SessionStateMachine, Integers, FiniteSets

CONSTANTS
  Calls,     \* callIds of the function calls the provider makes
  Starters,  \* calls of start(), and the socket each of them opens
  Enders     \* calls of end()

NoSocket == "null"

ASSUME SessionAssumption ==
  /\ IsFiniteSet(Calls)
  /\ NoSocket \notin Starters

VARIABLES
  state,     \* stateMachine.state
  starter,   \* where each start() is
  socket,    \* the socket of each start()
  ws,        \* the socket the transport refers to, connected if there is one
  ending,    \* the end() calls that await disconnect()
  returned,  \* the end() calls that have returned
  ended,     \* how often onEnded was called
  call,      \* where the handler of each function call is
  told,      \* the last status onToolCall was given for each call
  pending,   \* context.pendingToolCalls
  completed, \* context.toolCallsCompleted
  answers,   \* what the provider accepted as the result of each call
  crossed,   \* history: a start() met a socket that was not closed yet
  early      \* history: an end() met a start(), or a start() followed an end()

callVars == <<call, told, pending, completed, answers>>
linkVars == <<starter, socket, ws, crossed>>
lifeVars == <<linkVars, ending, returned, ended, early>>
vars == <<state, starter, socket, ws, ending, returned, ended, call, told,
          pending, completed, answers, crossed, early>>

\* "executing" in the policy engine, "submitted" or "unsubmitted" awaiting
\* submitFunctionResult() that resolves or rejects, "failing" and
\* "unreported" the same in failToolCall(), "shown" and "unshown" the same for
\* a side channel call, "rejected" when the handler's promise rejected.
Phase == {"new", "executing", "held", "submitted", "unsubmitted", "failing",
          "unreported", "shown", "unshown", "closed", "rejected"}
Told == {"nothing", "executing", "awaiting_confirmation", "completed", "failed"}
StarterPhase == {"new", "connecting", "started", "failed"}
Socket == {"none", "connecting", "open", "closing", "refused", "closed"}

TypeOK ==
  /\ state \in States
  /\ starter \in [Starters -> StarterPhase]
  /\ socket \in [Starters -> Socket]
  /\ ws \in Starters \cup {NoSocket}
  /\ ending \in SUBSET Enders
  /\ returned \in SUBSET Enders
  /\ ended \in Nat
  /\ call \in [Calls -> Phase]
  /\ told \in [Calls -> Told]
  /\ pending \in SUBSET Calls
  /\ completed \in Nat
  /\ answers \in [Calls -> SUBSET {"ok", "result", "error"}]
  /\ crossed \in BOOLEAN
  /\ early \in BOOLEAN

Init ==
  /\ state = "initializing"
  /\ starter = [s \in Starters |-> "new"]
  /\ socket = [s \in Starters |-> "none"]
  /\ ws = NoSocket
  /\ ending = {}
  /\ returned = {}
  /\ ended = 0
  /\ call = [c \in Calls |-> "new"]
  /\ told = [c \in Calls |-> "nothing"]
  /\ pending = {}
  /\ completed = 0
  /\ answers = [c \in Calls |-> {}]
  /\ crossed = FALSE
  /\ early = FALSE

-----------------------------------------------------------------------------
\* start() and end()

\* A socket that is there: its close event is still to come.
Alive(s) == socket[s] \notin {"none", "closed"}

\* disconnect() of the transport: the socket it refers to, if any, is closed;
\* one that is still connecting is not known to it yet.
Disconnect == IF ws = NoSocket THEN socket ELSE [socket EXCEPT ![ws] = "closing"]

\* connect() of the transport disconnects first and opens a socket.
Connect(s) ==
  /\ socket' = [Disconnect EXCEPT ![s] = "connecting"]
  /\ ws' = NoSocket

Start(s) ==
  /\ starter[s] = "new"
  /\ starter' = [starter EXCEPT ![s] = "connecting"]
  /\ state' = After(state, "connecting")
  /\ Connect(s)
  /\ crossed' = (crossed \/ \E t \in Starters : Alive(t))
  /\ early' = (early \/ ending \cup returned # {})
  /\ UNCHANGED <<ending, returned, ended, callVars>>

\* connect() resolves, whatever happened meanwhile.
Connected(s) ==
  /\ starter[s] = "connecting"
  /\ socket[s] = "connecting"
  /\ starter' = [starter EXCEPT ![s] = "started"]
  /\ socket' = [socket EXCEPT ![s] = "open"]
  /\ ws' = s
  /\ state' = AfterBoth(state, "active", "listening")
  /\ UNCHANGED <<ending, returned, ended, crossed, early, callVars>>

\* connect() rejects, by an error or its timeout, and start() with it: the
\* state stays as it is, and the socket is yet to be closed.
ConnectFailed(s) ==
  /\ starter[s] = "connecting"
  /\ starter' = [starter EXCEPT ![s] = "failed"]
  /\ socket' = [socket EXCEPT ![s] = IF @ = "connecting" THEN "refused" ELSE @]
  /\ UNCHANGED <<state, ws, ending, returned, ended, crossed, early, callVars>>

EndCalled(e) ==
  /\ e \notin ending \cup returned
  /\ early' = (early \/ \E s \in Starters : starter[s] = "connecting")

\* Mutant: end() disconnects only if the state machine lets the session end.
EndIfAccepted(e) ==
  /\ EndCalled(e)
  /\ state \notin Terminal
  /\ state' = After(state, "ending")
  /\ IF state' = "ending" THEN socket' = Disconnect /\ ws' = NoSocket
                          ELSE UNCHANGED <<socket, ws>>
  /\ ending' = ending \cup {e}
  /\ UNCHANGED <<starter, returned, ended, crossed, callVars>>

\* end() up to its await: the socket is closed even if the state machine
\* refuses to end.
End(e) ==
  /\ EndCalled(e)
  /\ state \notin Terminal
  /\ state' = After(state, "ending")
  /\ socket' = Disconnect
  /\ ws' = NoSocket
  /\ ending' = ending \cup {e}
  /\ UNCHANGED <<starter, returned, ended, crossed, callVars>>

EndAgain(e) ==
  /\ EndCalled(e)
  /\ state \in Terminal
  /\ returned' = returned \cup {e}
  /\ UNCHANGED <<state, linkVars, ending, ended, callVars>>

\* disconnect() resolves: onEnded is called whatever the state has become.
Disconnected(e) ==
  /\ e \in ending
  /\ ending' = ending \ {e}
  /\ returned' = returned \cup {e}
  /\ state' = After(state, "ended")
  /\ ended' = ended + 1
  /\ UNCHANGED <<linkVars, early, callVars>>

\* Mutant: the transport does not listen to the close of its socket.
SocketClosedUnseen(s) ==
  /\ Alive(s)
  /\ socket' = [socket EXCEPT ![s] = "closed"]
  /\ UNCHANGED <<state, starter, ws, ending, returned, ended, crossed, early, callVars>>

\* A socket closes, or the connection drops, also while it is made: the field
\* is cleared, whichever socket it refers to, and nobody tells the session.
SocketClosed(s) ==
  /\ Alive(s)
  /\ socket' = [socket EXCEPT ![s] = "closed"]
  /\ ws' = NoSocket
  /\ UNCHANGED <<state, starter, ending, returned, ended, crossed, early, callVars>>

-----------------------------------------------------------------------------
\* Events of the provider and calls of the host between the two

Delivering == \E s \in Starters : socket[s] \in {"open", "closing"}

SpeechStarted ==
  /\ Delivering
  /\ state' = After(state, "listening")
  /\ UNCHANGED <<lifeVars, callVars>>

ResponseStarted ==
  /\ Delivering
  /\ state' = After(state, "speaking")
  /\ UNCHANGED <<lifeVars, callVars>>

ResponseCompleted ==
  /\ Delivering
  /\ state' = After(state, "listening")
  /\ UNCHANGED <<lifeVars, callVars>>

\* handleError(): an error event, or sendAudio() or cancelResponse() that
\* rejects, as both do on a provider that is not connected.
HandleError ==
  /\ state' = After(state, "error")
  /\ UNCHANGED <<lifeVars, callVars>>

Interrupt ==
  /\ state' = After(state, "interrupted")
  /\ UNCHANGED <<lifeVars, callVars>>

-----------------------------------------------------------------------------
\* Function calls

\* submitFunctionResult(): accepted by a connected provider only.  `ok' tells
\* whether the promise it returns will resolve.
Submit(c, what, ok) ==
  /\ ok => ws # NoSocket
  /\ answers' = IF ok THEN [answers EXCEPT ![c] = @ \cup {what}] ELSE answers

\* Mutant: the counter goes down as calls are finished.
FinishDown(c, status) ==
  /\ told' = [told EXCEPT ![c] = status]
  /\ completed' = completed - 1
  /\ pending' = pending \ {c}

\* finishPendingToolCall() and the onToolCall that follows it.
Finish(c, status) ==
  /\ told' = [told EXCEPT ![c] = status]
  /\ completed' = completed + 1
  /\ pending' = pending \ {c}

\* failToolCall() up to its await.
FailToolCall(c, ok) ==
  /\ Finish(c, "failed")
  /\ Submit(c, "error", ok)
  /\ call' = [call EXCEPT ![c] = IF ok THEN "failing" ELSE "unreported"]
  /\ UNCHANGED lifeVars

\* A call of a tool the session has: it is handed to the policy engine.
CallTool(c) ==
  /\ Delivering
  /\ call[c] = "new"
  /\ call' = [call EXCEPT ![c] = "executing"]
  /\ told' = [told EXCEPT ![c] = "executing"]
  /\ pending' = pending \cup {c}
  /\ state' = AfterBoth(state, "processing", "processing_tool")
  /\ UNCHANGED <<lifeVars, completed, answers>>

\* A call of a tool it does not have: told "pending", then "failed".
CallUnknown(c, ok) ==
  /\ Delivering
  /\ call[c] = "new"
  /\ FailToolCall(c, ok)
  /\ UNCHANGED state

\* A side channel call: shown to the host and answered, never pending.
CallAffect(c, ok) ==
  /\ Delivering
  /\ call[c] = "new"
  /\ Submit(c, "ok", ok)
  /\ call' = [call EXCEPT ![c] = IF ok THEN "shown" ELSE "unshown"]
  /\ UNCHANGED <<lifeVars, state, told, pending, completed>>

\* Mutant: a call that needs a confirmation is submitted like a result.
EngineHoldsSubmitted(c) ==
  /\ call[c] = "executing"
  /\ call' = [call EXCEPT ![c] = "held"]
  /\ told' = [told EXCEPT ![c] = "awaiting_confirmation"]
  /\ Submit(c, "result", ws # NoSocket)
  /\ state' = After(state, "active")
  /\ UNCHANGED <<lifeVars, pending, completed>>

\* The engine wants a confirmation: nothing is submitted.
EngineHolds(c) ==
  /\ call[c] = "executing"
  /\ call' = [call EXCEPT ![c] = "held"]
  /\ told' = [told EXCEPT ![c] = "awaiting_confirmation"]
  /\ state' = After(state, "active")
  /\ UNCHANGED <<lifeVars, pending, completed, answers>>

EngineReturns(c, ok) ==
  /\ call[c] = "executing"
  /\ Submit(c, "result", ok)
  /\ call' = [call EXCEPT ![c] = IF ok THEN "submitted" ELSE "unsubmitted"]
  /\ UNCHANGED <<lifeVars, state, told, pending, completed>>

EngineThrows(c, ok) ==
  /\ call[c] = "executing"
  /\ FailToolCall(c, ok)
  /\ UNCHANGED state

ResultAccepted(c) ==
  /\ call[c] = "submitted"
  /\ call' = [call EXCEPT ![c] = "closed"]
  /\ Finish(c, "completed")
  /\ state' = After(state, "active")
  /\ UNCHANGED <<lifeVars, answers>>

\* Mutant: the host is told that the call completed, then that it failed.
ResultRefusedTwice(c, ok) ==
  /\ call[c] = "unsubmitted"
  /\ told' = [told EXCEPT ![c] = "failed"]
  /\ completed' = completed + 2
  /\ pending' = pending \ {c}
  /\ Submit(c, "error", ok)
  /\ call' = [call EXCEPT ![c] = IF ok THEN "failing" ELSE "unreported"]
  /\ UNCHANGED <<lifeVars, state>>

\* Mutant: the rejection is swallowed.
ResultRefusedSwallowed(c, ok) ==
  call[c] = "unsubmitted" /\ ok \in BOOLEAN /\ UNCHANGED vars

\* The result was not accepted: the call fails and the error is submitted.
ResultRefused(c, ok) ==
  /\ call[c] = "unsubmitted"
  /\ FailToolCall(c, ok)
  /\ UNCHANGED state

ErrorAccepted(c) ==
  /\ call[c] = "failing"
  /\ call' = [call EXCEPT ![c] = "closed"]
  /\ state' = After(state, "active")
  /\ UNCHANGED <<lifeVars, told, pending, completed, answers>>

ShownAccepted(c) ==
  /\ call[c] = "shown"
  /\ call' = [call EXCEPT ![c] = "closed"]
  /\ UNCHANGED <<lifeVars, state, told, pending, completed, answers>>

\* The last submission was not accepted: nobody handles the rejection.
HandlerRejects(c) ==
  /\ call[c] \in {"unreported", "unshown"}
  /\ call' = [call EXCEPT ![c] = "rejected"]
  /\ UNCHANGED <<lifeVars, state, told, pending, completed, answers>>

-----------------------------------------------------------------------------

Host == \/ \E s \in Starters : Start(s)
        \/ \E e \in Enders : End(e) \/ EndAgain(e)
        \/ Interrupt

Provider == \/ \E s \in Starters : Connected(s) \/ ConnectFailed(s) \/ SocketClosed(s)
            \/ \E e \in Enders : Disconnected(e)
            \/ SpeechStarted \/ ResponseStarted \/ ResponseCompleted
            \/ HandleError
            \/ \E c \in Calls : CallTool(c)
            \/ \E c \in Calls, ok \in BOOLEAN : CallUnknown(c, ok) \/ CallAffect(c, ok)

\* The handler of a call from the answer of the engine on.
Handler(c) ==
  \/ EngineHolds(c)
  \/ \E ok \in BOOLEAN : EngineReturns(c, ok) \/ EngineThrows(c, ok) \/ ResultRefused(c, ok)
  \/ ResultAccepted(c) \/ ErrorAccepted(c) \/ ShownAccepted(c) \/ HandlerRejects(c)

Next == Host \/ Provider \/ \E c \in Calls : Handler(c)

Spec == Init /\ [][Next]_vars

\* The engine answers every call (it times handlers out) and submissions
\* settle.  Nobody has to start, end or speak, and no connection comes or goes.
FairSpec == Spec /\ \A c \in Calls : WF_vars(Handler(c))

-----------------------------------------------------------------------------

\* The calls of the context are those whose handler has not finished them,
\* and toolCallsCompleted counts every other call the host was told of once,
\* however a submission that is refused turns a result into a failure.
ToolAccounting ==
  /\ pending = {c \in Calls : told[c] \in {"executing", "awaiting_confirmation"}}
  /\ completed = Cardinality({c \in Calls : told[c] \in {"completed", "failed"}})

\* What the host was told of a call agrees with what the model was answered:
\* a completed call with its result and nothing else, a failed one never with
\* a result, and a call that awaits its confirmation not at all.
HostAndModelAgree ==
  \A c \in Calls :
    /\ told[c] = "completed" => answers[c] = {"result"}
    /\ told[c] = "failed" => answers[c] \subseteq {"error"}
    /\ told[c] = "awaiting_confirmation" => answers[c] = {}

\* A session that is ending, has ended or is in error is never live again,
\* whatever connects, speaks, answers or is interrupted late.
Over == {"ending", "ended", "error", "fatal_error"}
NoRevival == [][(state \in Over) => (state' \in Over)]_vars

\* When a start() waits for the sockets of the earlier ones to be closed, the
\* transport is connected exactly when a socket is open, and by that socket:
\* a connection that is refused, lost, ended or made late leaves none open
\* that a disconnect() would not reach, nor a closed one that it refers to.
ConnectionKnown ==
  ~crossed => \A s \in Starters : socket[s] = "open" <=> ws = s

\* If moreover no end() meets a start() and no start() follows an end(), a
\* session whose end was reported holds no connection and never will, though
\* its state may be any: end() disconnects even when it may not end.
EndedMeansDisconnected ==
  ~crossed /\ ~early /\ ended > 0 =>
    \A s \in Starters : socket[s] \notin {"connecting", "open"}

\* No function call is left in the hands of its handler for ever.
CallsSettle ==
  \A c \in Calls :
    (call[c] = "executing") ~> (call[c] \in {"held", "closed", "rejected"})

\* The connection each start() makes, as VoiceLink sees it.
LinkPhase(s) ==
  CASE starter[s] = "new" -> "created"
    [] starter[s] = "connecting" -> "connecting"
    [] starter[s] = "failed" -> "failed"
    [] starter[s] = "started" -> IF socket[s] = "open" THEN "up" ELSE "down"
Connection(s) == INSTANCE VoiceLink WITH phase <- LinkPhase(s)

\* Claimed of end(): once onEnded was called for a session that was started
\* before, and no error came between, the session is in a terminal state.
EndedIsFinal ==
  ~early /\ (\E s \in Starters : starter[s] = "started") /\ ended > 0
    => state \in Terminal \cup {"error"}
=============================================================================
