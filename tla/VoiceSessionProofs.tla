------------------------- MODULE VoiceSessionProofs -------------------------
(* Safety of the voice session, for any function calls and any calls of  *)
(* start() and end().                                                    *)
EXTENDS VoiceSession, FiniteSetTheorems, TLAPS

\* A request moves the machine to the requested state or leaves it.
LEMMA AfterRange == \A s, to : After(s, to) \in {s, to}
  BY DEF After

\* No request brings a machine out of the states in which a session is over.
LEMMA AfterOver == \A s \in Over : \A to : After(s, to) \in Over
  BY DEF After, IsValidTransition, ErrorNext, Over, Terminal

LEMMA AfterBothRange ==
  \A s, t, u : AfterBoth(s, t, u) \in {s, t, u}
  BY AfterRange DEF AfterBoth

LEMMA AfterBothOver ==
  \A s \in Over : \A t, u : AfterBoth(s, t, u) \in Over
  BY AfterOver DEF AfterBoth

Live == {"active", "listening", "speaking", "processing", "processing_tool",
         "interrupted"}

\* A request for a live state does not start a session.
LEMMA AfterLive ==
  ASSUME NEW s, NEW t \in Live, NEW u \in Live
  PROVE  /\ After(s, t) \in {s} \cup Live
         /\ AfterBoth(s, t, u) \in {s} \cup Live
         /\ After("initializing", t) = "initializing"
         /\ AfterBoth("initializing", t, u) = "initializing"
  BY DEF After, AfterBoth, IsValidTransition, Live

\* The names of states that requests use are states.
LEMMA RequestedStates ==
  {"connecting", "active", "listening", "speaking", "processing",
   "processing_tool", "interrupted", "ending", "ended", "error"} \subseteq States
  BY DEF States

-----------------------------------------------------------------------------

\* Every action requests states of the machine or leaves it alone.
LEMMA OverStep ==
  ASSUME [Next]_vars, state \in Over
  PROVE  state' \in Over
<1>1. CASE UNCHANGED vars
  BY <1>1 DEF vars
<1>2. CASE Host
  BY <1>2, AfterOver DEF Host, Start, End, EndAgain, Interrupt
<1>3. CASE Provider
  BY <1>3, AfterOver, AfterBothOver DEF Provider, Connected, ConnectFailed,
     SocketClosed, Disconnected, SpeechStarted, ResponseStarted,
     ResponseCompleted, HandleError, CallTool, CallUnknown, CallAffect
<1>4. ASSUME NEW c \in Calls, Handler(c)
      PROVE  state' \in Over
  BY <1>4, AfterOver DEF Handler, EngineHolds, EngineReturns, EngineThrows,
     ResultRefused, ResultAccepted, ErrorAccepted, ShownAccepted, HandlerRejects
<1> QED
  BY <1>1, <1>2, <1>3, <1>4 DEF Next

\* A session that is over is never live again, whatever is requested of it late.
THEOREM OverForGood == Spec => NoRevival
<1>1. [Next]_vars => ((state \in Over) => (state' \in Over))
  BY OverStep
<1> QED
  BY <1>1, PTL DEF Spec, NoRevival

-----------------------------------------------------------------------------

\* Type correctness: no interleaving of the host, the provider and the
\* handlers of function calls leaves the states the variables are meant for.
THEOREM TypeCorrect == Spec => []TypeOK
<1>1. Init => TypeOK
  <2> SUFFICES ASSUME Init PROVE TypeOK
    OBVIOUS
  <2>1. crossed \in BOOLEAN /\ early \in BOOLEAN
    BY Zenon DEF Init
  <2>2. call \in [Calls -> Phase] /\ told \in [Calls -> Told]
    BY DEF Init, Phase, Told
  <2>3. starter \in [Starters -> StarterPhase] /\ socket \in [Starters -> Socket]
    BY DEF Init, StarterPhase, Socket
  <2>4. answers \in [Calls -> SUBSET {"ok", "result", "error"}]
    BY DEF Init
  <2> QED
    BY <2>1, <2>2, <2>3, <2>4 DEF Init, TypeOK, States
<1>2. TypeOK /\ [Next]_vars => TypeOK'
  <2> SUFFICES ASSUME TypeOK, [Next]_vars
               PROVE  TypeOK'
    OBVIOUS
  <2> USE DEF TypeOK
  <2>1. CASE UNCHANGED vars
    BY <2>1 DEF vars
  <2>2. CASE Host
    <3>1. ASSUME NEW s \in Starters, Start(s)
          PROVE  TypeOK'
      <4>1. crossed' \in BOOLEAN /\ early' \in BOOLEAN
        BY <3>1, Zenon DEF Start
      <4>2. Disconnect \in [Starters -> Socket]
        BY DEF Disconnect, Socket
      <4>3. socket' \in [Starters -> Socket] /\ ws' = NoSocket
        BY <3>1, <4>2 DEF Start, Connect, Socket
      <4>4. starter' \in [Starters -> StarterPhase] /\ state' \in States
        BY <3>1, AfterRange, RequestedStates DEF Start, StarterPhase
      <4> QED
        BY <3>1, <4>1, <4>3, <4>4 DEF Start, callVars
    <3>2. ASSUME NEW e \in Enders, End(e) \/ EndAgain(e)
          PROVE  TypeOK'
      <4>1. early' \in BOOLEAN /\ crossed' \in BOOLEAN
        BY <3>2, Zenon DEF End, EndAgain, EndCalled, linkVars
      <4>2. Disconnect \in [Starters -> Socket]
        BY DEF Disconnect, Socket
      <4>3. socket' \in [Starters -> Socket] /\ ws' \in {ws, NoSocket} /\ starter' = starter
        BY <3>2, <4>2 DEF End, EndAgain, linkVars
      <4>4. state' \in States
        BY <3>2, AfterRange, RequestedStates DEF End, EndAgain
      <4> QED
        BY <3>2, <4>1, <4>3, <4>4 DEF End, EndAgain, callVars
    <3>3. CASE Interrupt
      BY <3>3, AfterRange, RequestedStates DEF Interrupt, lifeVars, linkVars, callVars
    <3> QED
      BY <2>2, <3>1, <3>2, <3>3 DEF Host
  <2>3. CASE Provider
    <3>1. ASSUME NEW s \in Starters, Connected(s) \/ ConnectFailed(s) \/ SocketClosed(s)
          PROVE  TypeOK'
      BY <3>1, AfterBothRange, RequestedStates
         DEF Connected, ConnectFailed, SocketClosed, callVars, Socket, StarterPhase
    <3>2. CASE SpeechStarted \/ ResponseStarted \/ ResponseCompleted \/ HandleError
      BY <3>2, AfterRange, RequestedStates DEF SpeechStarted, ResponseStarted,
         ResponseCompleted, HandleError, callVars, lifeVars, linkVars
    <3>3. ASSUME NEW e \in Enders, Disconnected(e)
          PROVE  TypeOK'
      BY <3>3, AfterRange, RequestedStates DEF Disconnected, linkVars, callVars
    <3>4. ASSUME NEW c \in Calls, CallTool(c)
          PROVE  TypeOK'
      BY <3>4, AfterBothRange, RequestedStates
         DEF CallTool, lifeVars, linkVars, Phase, Told
    <3>5. ASSUME NEW c \in Calls, NEW ok \in BOOLEAN,
                 CallUnknown(c, ok) \/ CallAffect(c, ok)
          PROVE  TypeOK'
      BY <3>5 DEF CallUnknown, CallAffect, FailToolCall, Finish, Submit,
         lifeVars, linkVars, Phase, Told
    <3> QED
      BY <2>3, <3>1, <3>2, <3>3, <3>4, <3>5 DEF Provider
  <2>4. ASSUME NEW c \in Calls, Handler(c)
        PROVE  TypeOK'
    <3>1. CASE EngineHolds(c) \/ ErrorAccepted(c) \/ ShownAccepted(c) \/ HandlerRejects(c)
      BY <3>1, AfterRange, RequestedStates DEF EngineHolds, ErrorAccepted,
         ShownAccepted, HandlerRejects, lifeVars, linkVars, Phase, Told
    <3>2. CASE ResultAccepted(c)
      BY <3>2, AfterRange, RequestedStates
         DEF ResultAccepted, Finish, lifeVars, linkVars, Phase, Told
    <3>3. ASSUME NEW ok \in BOOLEAN,
                 EngineReturns(c, ok) \/ EngineThrows(c, ok) \/ ResultRefused(c, ok)
          PROVE  TypeOK'
      BY <3>3 DEF EngineReturns, EngineThrows, ResultRefused, FailToolCall,
         Finish, Submit, lifeVars, linkVars, Phase, Told
    <3> QED
      BY <2>4, <3>1, <3>2, <3>3 DEF Handler
  <2> QED
    BY <2>1, <2>2, <2>3, <2>4 DEF Next
<1> QED
  BY <1>1, <1>2, PTL DEF Spec

-----------------------------------------------------------------------------

\* What the phase of a handler says of the host's view and of the answers.
CallInv(c) ==
  /\ call[c] \in {"new", "shown", "unshown"} => told[c] = "nothing"
  /\ call[c] \in {"executing", "submitted", "unsubmitted"} => told[c] = "executing"
  /\ call[c] = "held" => told[c] = "awaiting_confirmation"
  /\ call[c] \in {"failing", "unreported"} => told[c] = "failed"
  /\ call[c] \in {"closed", "rejected"} => told[c] \in {"nothing", "completed", "failed"}
  /\ call[c] \in {"new", "executing", "unsubmitted", "held"} => answers[c] = {}
  /\ call[c] = "submitted" => answers[c] = {"result"}
  /\ told[c] = "completed" => answers[c] = {"result"}
  /\ told[c] = "failed" => answers[c] \subseteq {"error"}

CallsInv == \A c \in Calls : CallInv(c)

\* A call's own step keeps CallInv, and the other calls are not touched.
LEMMA CallsInvStep == TypeOK /\ CallsInv /\ [Next]_vars => CallsInv'
<1> SUFFICES ASSUME TypeOK, CallsInv, [Next]_vars, NEW d \in Calls
             PROVE  CallInv(d)'
  BY DEF CallsInv
<1>0. CallInv(d)
  BY DEF CallsInv
<1> USE DEF TypeOK, CallInv
<1>1. CASE UNCHANGED callVars
  BY <1>0, <1>1 DEF callVars
<1>2. ASSUME NEW c \in Calls, CallTool(c)
      PROVE  CallInv(d)'
  BY <1>0, <1>2 DEF CallTool
<1>3. ASSUME NEW c \in Calls, NEW ok \in BOOLEAN, CallUnknown(c, ok)
      PROVE  CallInv(d)'
  BY <1>0, <1>3 DEF CallUnknown, FailToolCall, Finish, Submit
<1>4. ASSUME NEW c \in Calls, NEW ok \in BOOLEAN, CallAffect(c, ok)
      PROVE  CallInv(d)'
  BY <1>0, <1>4 DEF CallAffect, Submit
<1>5. ASSUME NEW c \in Calls, EngineHolds(c)
      PROVE  CallInv(d)'
  BY <1>0, <1>5 DEF EngineHolds
<1>6. ASSUME NEW c \in Calls, NEW ok \in BOOLEAN, EngineReturns(c, ok)
      PROVE  CallInv(d)'
  BY <1>0, <1>6 DEF EngineReturns, Submit
<1>7. ASSUME NEW c \in Calls, NEW ok \in BOOLEAN,
             EngineThrows(c, ok) \/ ResultRefused(c, ok)
      PROVE  CallInv(d)'
  BY <1>0, <1>7 DEF EngineThrows, ResultRefused, FailToolCall, Finish, Submit
<1>8. ASSUME NEW c \in Calls, ResultAccepted(c)
      PROVE  CallInv(d)'
  BY <1>0, <1>8 DEF ResultAccepted, Finish
<1>9. ASSUME NEW c \in Calls, ErrorAccepted(c) \/ ShownAccepted(c) \/ HandlerRejects(c)
      PROVE  CallInv(d)'
  BY <1>0, <1>9 DEF ErrorAccepted, ShownAccepted, HandlerRejects
<1>10. Host => UNCHANGED callVars
  BY DEF Host, Start, End, EndAgain, Interrupt
<1>11. (\E s \in Starters : Connected(s) \/ ConnectFailed(s) \/ SocketClosed(s))
         \/ SpeechStarted
         \/ ResponseStarted \/ ResponseCompleted \/ HandleError
         \/ (\E e \in Enders : Disconnected(e)) => UNCHANGED callVars
  BY DEF Connected, ConnectFailed, SocketClosed, SpeechStarted, ResponseStarted,
     ResponseCompleted, HandleError, Disconnected
<1>12. UNCHANGED vars => UNCHANGED callVars
  BY DEF vars, callVars
<1> QED
  BY <1>1, <1>2, <1>3, <1>4, <1>5, <1>6, <1>7, <1>8, <1>9, <1>10, <1>11, <1>12
     DEF Next, Provider, Handler

\* The host and the model are told the same of every call, also when results
\* are refused and when calls overlap.
THEOREM AgreeAlways == Spec => []HostAndModelAgree
<1>1. Init => CallsInv
  BY DEF Init, CallsInv, CallInv
<1>2. TypeOK /\ CallsInv => HostAndModelAgree
  BY DEF TypeOK, CallsInv, CallInv, HostAndModelAgree, Phase
<1> QED
  BY <1>1, <1>2, CallsInvStep, TypeCorrect, PTL DEF Spec

-----------------------------------------------------------------------------

Finished == {c \in Calls : told[c] \in {"completed", "failed"}}
Unfinished == {c \in Calls : told[c] \in {"executing", "awaiting_confirmation"}}

\* Finishing a call that was not finished keeps the accounts.
LEMMA FinishAccounts ==
  ASSUME TypeOK, ToolAccounting, NEW c \in Calls, NEW s \in {"completed", "failed"},
         told[c] \notin {"completed", "failed"}, Finish(c, s)
  PROVE  ToolAccounting'
<1>1. Finished' = Finished \cup {c} /\ c \notin Finished
  BY DEF Finish, Finished, TypeOK
<1>2. Unfinished' = Unfinished \ {c}
  BY DEF Finish, Unfinished, TypeOK
<1>3. IsFiniteSet(Finished)
  BY SessionAssumption, FS_Subset DEF SessionAssumption, Finished
<1>4. Cardinality(Finished') = Cardinality(Finished) + 1
  BY <1>1, <1>3, FS_AddElement
<1> QED
  BY <1>2, <1>4 DEF ToolAccounting, Finish, Finished, Unfinished

\* A step that tells the host nothing of a new kind keeps the accounts.
LEMMA SameAccounts ==
  ASSUME ToolAccounting, Finished' = Finished, Unfinished' = pending',
         completed' = completed
  PROVE  ToolAccounting'
  BY DEF ToolAccounting, Finished, Unfinished

\* Every call of the summary is counted once, and the context forgets no call
\* whose handler is at work.
THEOREM AccountsAlways == Spec => []ToolAccounting
<1>1. Init => ToolAccounting
  <2> SUFFICES ASSUME Init PROVE ToolAccounting
    OBVIOUS
  <2>1. Finished = {} /\ Unfinished = {}
    BY DEF Init, Finished, Unfinished
  <2> QED
    BY <2>1, FS_EmptySet DEF Init, ToolAccounting, Finished, Unfinished
<1>2. TypeOK /\ CallsInv /\ ToolAccounting /\ [Next]_vars => ToolAccounting'
  <2> SUFFICES ASSUME TypeOK, CallsInv, ToolAccounting, [Next]_vars
               PROVE  ToolAccounting'
    OBVIOUS
  <2>0. \A c \in Calls : CallInv(c)
    BY DEF CallsInv
  <2>1. CASE UNCHANGED <<told, pending, completed>>
    BY <2>1 DEF ToolAccounting
  <2>2. ASSUME NEW c \in Calls, CallTool(c)
        PROVE  ToolAccounting'
    <3>1. told[c] = "nothing"
      BY <2>0, <2>2 DEF CallTool, CallInv
    <3>2. Finished' = Finished /\ Unfinished' = Unfinished \cup {c}
      BY <2>2, <3>1 DEF CallTool, Finished, Unfinished, TypeOK
    <3> QED
      BY <2>2, <3>2, SameAccounts DEF CallTool, ToolAccounting, Unfinished
  <2>3. ASSUME NEW c \in Calls, EngineHolds(c)
        PROVE  ToolAccounting'
    <3>1. told[c] = "executing"
      BY <2>0, <2>3 DEF EngineHolds, CallInv
    <3>2. Finished' = Finished /\ Unfinished' = Unfinished
      BY <2>3, <3>1 DEF EngineHolds, Finished, Unfinished, TypeOK
    <3> QED
      BY <2>3, <3>2, SameAccounts DEF EngineHolds, ToolAccounting, Unfinished
  <2>4. ASSUME NEW c \in Calls, NEW ok \in BOOLEAN,
               CallUnknown(c, ok) \/ EngineThrows(c, ok) \/ ResultRefused(c, ok)
        PROVE  ToolAccounting'
    <3>1. told[c] \in {"nothing", "executing"} /\ Finish(c, "failed")
      BY <2>0, <2>4 DEF CallUnknown, EngineThrows, ResultRefused, FailToolCall, CallInv
    <3> QED
      BY <3>1, FinishAccounts
  <2>5. ASSUME NEW c \in Calls, ResultAccepted(c)
        PROVE  ToolAccounting'
    <3>1. told[c] = "executing" /\ Finish(c, "completed")
      BY <2>0, <2>5 DEF ResultAccepted, CallInv
    <3> QED
      BY <3>1, FinishAccounts
  <2>6. Host \/ UNCHANGED vars => UNCHANGED <<told, pending, completed>>
    BY DEF Host, Start, End, EndAgain, Interrupt, vars, callVars
  <2>7. (\E s \in Starters : Connected(s) \/ ConnectFailed(s) \/ SocketClosed(s))
         \/ SpeechStarted
          \/ ResponseStarted \/ ResponseCompleted \/ HandleError
          \/ (\E e \in Enders : Disconnected(e))
          \/ (\E c \in Calls, ok \in BOOLEAN : CallAffect(c, ok))
        => UNCHANGED <<told, pending, completed>>
    BY DEF Connected, ConnectFailed, SocketClosed, SpeechStarted, ResponseStarted,
       ResponseCompleted, HandleError, Disconnected, CallAffect, callVars
  <2>8. ASSUME NEW c \in Calls, NEW ok \in BOOLEAN,
               EngineReturns(c, ok) \/ ErrorAccepted(c) \/ ShownAccepted(c)
                 \/ HandlerRejects(c)
        PROVE  UNCHANGED <<told, pending, completed>>
    BY <2>8 DEF EngineReturns, ErrorAccepted, ShownAccepted, HandlerRejects
  <2> QED
    BY <2>1, <2>2, <2>3, <2>4, <2>5, <2>6, <2>7, <2>8 DEF Next, Provider, Handler
<1>3. Init => CallsInv
  BY DEF Init, CallsInv, CallInv
<1> QED
  BY <1>1, <1>2, <1>3, CallsInvStep, TypeCorrect, PTL DEF Spec

-----------------------------------------------------------------------------

\* What goes on beside the sockets: everything but start(), end() and what
\* comes of them.
LEMMA BesideSockets ==
  ASSUME [Next]_vars,
         ~\E s \in Starters : Start(s) \/ Connected(s) \/ ConnectFailed(s) \/ SocketClosed(s),
         ~\E e \in Enders : End(e) \/ EndAgain(e) \/ Disconnected(e)
  PROVE  UNCHANGED lifeVars
<1>1. CASE UNCHANGED vars
  BY <1>1 DEF vars, lifeVars, linkVars
<1>2. CASE Host
  BY <1>2 DEF Host, Interrupt
<1>3. CASE Provider
  BY <1>3 DEF Provider, SpeechStarted, ResponseStarted, ResponseCompleted,
     HandleError, CallTool, CallUnknown, CallAffect, FailToolCall
<1>4. ASSUME NEW c \in Calls, Handler(c)
      PROVE  UNCHANGED lifeVars
  BY <1>4 DEF Handler, EngineHolds, EngineReturns, EngineThrows, ResultAccepted,
     ResultRefused, ErrorAccepted, ShownAccepted, HandlerRejects, FailToolCall
<1> QED
  BY <1>1, <1>2, <1>3, <1>4 DEF Next

\* How far a start() is, and its socket.
SocketOf(s) ==
  /\ starter[s] = "new" <=> socket[s] = "none"
  /\ socket[s] = "connecting" => starter[s] = "connecting"
  /\ starter[s] = "started" => socket[s] \in {"open", "closing", "closed"}

\* While no start() meets a socket, one is alive at a time, and the transport
\* refers to it exactly while it is open.
OneAlive ==
  ~crossed => /\ \A s, t \in Starters : Alive(s) /\ Alive(t) => s = t
              /\ \A s \in Starters : socket[s] = "open" <=> ws = s

SocketInv ==
  /\ \A s \in Starters : SocketOf(s)
  /\ ws # NoSocket => socket[ws] = "open"
  /\ OneAlive

LEMMA SocketInvInit ==
  ASSUME Init PROVE SocketInv
  BY SessionAssumption DEF Init, SocketInv, SocketOf, OneAlive, Alive, SessionAssumption

LEMMA SocketInvStep ==
  ASSUME TypeOK, SocketInv, [Next]_vars
  PROVE  SocketInv'
<1> USE SessionAssumption DEF SessionAssumption, SocketInv, SocketOf, OneAlive, Alive, TypeOK
<1>1. ASSUME NEW s \in Starters, Start(s)
      PROVE  SocketInv'
  <2>1. \A t \in Starters :
          /\ starter'[t] = IF t = s THEN "connecting" ELSE starter[t]
          /\ socket'[t] = IF t = s THEN "connecting" ELSE
                          IF t = ws THEN "closing" ELSE socket[t]
    BY <1>1 DEF Start, Connect, Disconnect
  <2>2. \A t \in Starters : SocketOf(t)'
    <3> TAKE t \in Starters
    <3>1. t = ws => t # s /\ starter[t] \in {"connecting", "started", "failed"}
      BY <1>1 DEF Start, StarterPhase
    <3> QED
      BY <1>1, <2>1, <3>1 DEF Start
  <2>3. ~crossed' => ~crossed /\ \A t \in Starters : socket[t] \in {"none", "closed"}
    BY <1>1 DEF Start
  <2>4. OneAlive'
    BY <1>1, <2>1, <2>3 DEF Start, Connect
  <2> QED
    BY <1>1, <2>2, <2>4 DEF Start, Connect
<1>2. ASSUME NEW s \in Starters, Connected(s)
      PROVE  SocketInv'
  BY <1>2 DEF Connected
<1>3. ASSUME NEW s \in Starters, ConnectFailed(s)
      PROVE  SocketInv'
  BY <1>3 DEF ConnectFailed
<1>4. ASSUME NEW s \in Starters, SocketClosed(s)
      PROVE  SocketInv'
  BY <1>4 DEF SocketClosed
<1>5. ASSUME NEW e \in Enders, End(e)
      PROVE  SocketInv'
  <2>1. /\ \A t \in Starters : socket'[t] = IF t = ws THEN "closing" ELSE socket[t]
        /\ starter' = starter /\ ws' = NoSocket /\ crossed' = crossed
    BY <1>5 DEF End, Disconnect
  <2>2. \A t \in Starters : SocketOf(t)'
    BY <2>1 DEF StarterPhase
  <2>3. OneAlive'
    BY <2>1
  <2> QED
    BY <2>1, <2>2, <2>3
<1>6. CASE UNCHANGED linkVars
  BY <1>6 DEF linkVars
<1>7. ASSUME NEW e \in Enders, EndAgain(e) \/ Disconnected(e)
      PROVE  UNCHANGED linkVars
  BY <1>7 DEF EndAgain, Disconnected
<1> QED
  BY <1>1, <1>2, <1>3, <1>4, <1>5, <1>6, <1>7, BesideSockets DEF lifeVars

\* Hosts that let the sockets of one start() close before the next, as one does
\* that connects again after a refusal or a loss: the transport knows the
\* connection it has (connect, disconnect and onClose of transport.ts).
THEOREM ConnectionAlwaysKnown == Spec => []ConnectionKnown
<1>1. SocketInv => ConnectionKnown
  BY DEF SocketInv, OneAlive, ConnectionKnown
<1> QED
  BY <1>1, SocketInvInit, SocketInvStep, TypeCorrect, PTL DEF Spec

\* An end() that met no start() and is followed by none finds the one
\* connection there is and closes it; the second part is what tells a late
\* start() from one before.
EndedInv ==
  /\ ended > 0 => returned # {}
  /\ ~crossed /\ ~early /\ (ending # {} \/ ended > 0) =>
       \A s \in Starters : starter[s] # "connecting" /\ socket[s] # "open"

LEMMA EndedInvStep ==
  ASSUME TypeOK, SocketInv, EndedInv, [Next]_vars
  PROVE  EndedInv'
<1> USE SessionAssumption DEF SessionAssumption, EndedInv, TypeOK
<1>1. ASSUME NEW s \in Starters, Start(s)
      PROVE  EndedInv'
  BY <1>1 DEF Start
<1>2. ASSUME NEW s \in Starters, Connected(s) \/ ConnectFailed(s)
      PROVE  EndedInv'
  BY <1>2 DEF Connected, ConnectFailed
<1>3. ASSUME NEW s \in Starters, SocketClosed(s)
      PROVE  EndedInv'
  BY <1>3 DEF SocketClosed
<1>4. ASSUME NEW e \in Enders, End(e)
      PROVE  EndedInv'
  BY <1>4 DEF End, EndCalled, Disconnect, SocketInv, OneAlive
<1>5. ASSUME NEW e \in Enders, EndAgain(e)
      PROVE  EndedInv'
  BY <1>5 DEF EndAgain, EndCalled, linkVars
<1>6. ASSUME NEW e \in Enders, Disconnected(e)
      PROVE  EndedInv'
  BY <1>6 DEF Disconnected, linkVars
<1>7. CASE UNCHANGED lifeVars
  BY <1>7 DEF lifeVars, linkVars
<1> QED
  BY <1>1, <1>2, <1>3, <1>4, <1>5, <1>6, <1>7, BesideSockets

\* A session reported as ended holds no connection, whatever its state, for
\* hosts whose end() neither meets a start() nor is followed by one.
THEOREM DisconnectedAlways == Spec => []EndedMeansDisconnected
<1>1. Init => EndedInv
  BY DEF Init, EndedInv
<1>2. TypeOK /\ SocketInv /\ EndedInv /\ [Next]_vars => EndedInv'
  BY EndedInvStep
<1>3. SocketInv /\ EndedInv => EndedMeansDisconnected
  BY DEF SocketInv, SocketOf, EndedInv, EndedMeansDisconnected
<1> QED
  BY <1>1, <1>2, <1>3, SocketInvInit, SocketInvStep, TypeCorrect, PTL DEF Spec

-----------------------------------------------------------------------------
\* The connection of each start() follows VoiceLink.

LEMMA LinkStep ==
  ASSUME TypeOK, SocketInv, [Next]_vars, NEW s \in Starters
  PROVE  [Connection(s)!Next]_(LinkPhase(s))
<1> USE SessionAssumption DEF SessionAssumption, SocketInv, SocketOf, TypeOK, LinkPhase,
      StarterPhase
<1>1. ASSUME NEW t \in Starters, Start(t)
      PROVE  [Connection(s)!Next]_(LinkPhase(s))
  BY <1>1 DEF Start, Connect, Disconnect, Connection!Next, Connection!Begin, Connection!Down
<1>2. ASSUME NEW t \in Starters, Connected(t)
      PROVE  [Connection(s)!Next]_(LinkPhase(s))
  BY <1>2 DEF Connected, Connection!Next, Connection!Up
<1>3. ASSUME NEW t \in Starters, ConnectFailed(t)
      PROVE  [Connection(s)!Next]_(LinkPhase(s))
  BY <1>3 DEF ConnectFailed, Connection!Next, Connection!Refuse
<1>4. ASSUME NEW t \in Starters, SocketClosed(t)
      PROVE  [Connection(s)!Next]_(LinkPhase(s))
  BY <1>4 DEF SocketClosed, Alive, Connection!Next, Connection!Down
<1>5. ASSUME NEW e \in Enders, End(e)
      PROVE  [Connection(s)!Next]_(LinkPhase(s))
  BY <1>5 DEF End, Disconnect, Connection!Next, Connection!Down
<1>6. CASE UNCHANGED linkVars
  BY <1>6 DEF linkVars
<1>7. ASSUME NEW e \in Enders, EndAgain(e) \/ Disconnected(e)
      PROVE  UNCHANGED linkVars
  BY <1>7 DEF EndAgain, Disconnected
<1> QED
  BY <1>1, <1>2, <1>3, <1>4, <1>5, <1>6, <1>7, BesideSockets DEF lifeVars

\* What the browser service relies on, which calls start() once per session:
\* no later start(), no end() and no late event brings the connection of a
\* start() back.
THEOREM EachStartFollowsVoiceLink ==
  ASSUME NEW s \in Starters PROVE Spec => Connection(s)!Spec
<1>1. Init => Connection(s)!Init
  BY DEF Init, Connection!Init, LinkPhase
<1>2. TypeOK /\ SocketInv /\ [Next]_vars => [Connection(s)!Next]_(LinkPhase(s))
  BY LinkStep
<1> QED
  BY <1>1, <1>2, SocketInvInit, SocketInvStep, TypeCorrect, PTL DEF Spec, Connection!Spec

-----------------------------------------------------------------------------
\* When end() keeps what is said of it.

\* The host calls end() in a state that may end, and not once it was told that
\* the session has ended.
EndInTime ==
  \A e \in Enders : e \in ending' \ ending =>
    /\ IsValidTransition(state, "ending") \/ state = "ending"
    /\ ended = 0

FinalStates == {"ended", "error", "fatal_error"}

\* Nothing but a request to end moves a session that is final.
LEMMA AfterFinal ==
  ASSUME NEW s \in FinalStates, NEW to, to # "ending"
  PROVE  After(s, to) \in FinalStates
  BY DEF FinalStates, After, IsValidTransition, ErrorNext, Terminal

LEMMA AfterBothFinal ==
  ASSUME NEW s \in FinalStates, NEW t, NEW u, t # "ending", u # "ending"
  PROVE  AfterBoth(s, t, u) \in FinalStates
  BY AfterFinal DEF AfterBoth

\* While an end() is under way the session is over, and once one was reported
\* it is final.
EndInv ==
  /\ ending # {} => state \in Over
  /\ ended > 0 => state \in FinalStates

LEMMA NextEndInv ==
  ASSUME TypeOK, EndInv, [Next]_vars, [EndInTime]_vars
  PROVE  EndInv'
<1>1. state \in Over => state' \in Over
  BY OverStep
<1>2. CASE \E e \in Enders : End(e)
  <2>1. PICK e \in Enders : End(e)
    BY <1>2
  <2>2. e \in ending' \ ending /\ ended' = ended
    BY <2>1 DEF End, EndCalled
  <2>3. /\ IsValidTransition(state, "ending") \/ state = "ending"
        /\ ended = 0
    BY <2>2 DEF EndInTime, vars
  <2>4. state' = "ending"
    BY <2>1, <2>3 DEF End, After
  <2> QED
    BY <2>2, <2>3, <2>4 DEF EndInv, Over
<1>3. CASE \E e \in Enders : Disconnected(e)
  <2>1. PICK e \in Enders : Disconnected(e)
    BY <1>3
  <2>2. state \in Over /\ state' = After(state, "ended")
    BY <2>1 DEF Disconnected, EndInv
  <2>3. state' \in FinalStates
    BY <2>2 DEF Over, FinalStates, After, IsValidTransition, ErrorNext
  <2> QED
    BY <2>3 DEF EndInv, Over, FinalStates
<1>4. ASSUME ~\E e \in Enders : End(e) \/ Disconnected(e)
      PROVE  /\ UNCHANGED <<ending, ended>>
             /\ state \in FinalStates => state' \in FinalStates
  <2>1. CASE UNCHANGED vars
    BY <2>1 DEF vars
  <2>2. CASE Host
    BY <1>4, <2>2, AfterFinal DEF Host, Start, EndAgain, Interrupt, lifeVars
  <2>3. CASE Provider
    BY <1>4, <2>3, AfterFinal, AfterBothFinal DEF Provider, Connected, ConnectFailed,
       SocketClosed, SpeechStarted, ResponseStarted, ResponseCompleted, HandleError,
       CallTool, CallUnknown, CallAffect, FailToolCall, lifeVars
  <2>4. ASSUME NEW c \in Calls, Handler(c)
        PROVE  /\ UNCHANGED <<ending, ended>>
               /\ state \in FinalStates => state' \in FinalStates
    BY <2>4, AfterFinal DEF Handler, EngineHolds, EngineReturns, EngineThrows,
       ResultRefused, ResultAccepted, ErrorAccepted, ShownAccepted, HandlerRejects,
       FailToolCall, lifeVars
  <2> QED
    BY <2>1, <2>2, <2>3, <2>4 DEF Next
<1> QED
  BY <1>1, <1>2, <1>3, <1>4 DEF EndInv

\* A session of which the host was told that it ended is final, if the host
\* calls end() only where the state machine lets a session end and not once
\* more afterwards: end() does not see to that, it ignores the refusal.
THEOREM EndedIsFinalInTime == Spec /\ [][EndInTime]_vars => []EndedIsFinal
<1>1. Init => EndInv
  BY DEF Init, EndInv
<1>2. TypeOK /\ EndInv /\ [Next]_vars /\ [EndInTime]_vars => EndInv'
  BY NextEndInv
<1>3. EndInv => EndedIsFinal
  BY DEF EndInv, EndedIsFinal, FinalStates, Terminal
<1> QED
  BY <1>1, <1>2, <1>3, TypeCorrect, PTL DEF Spec
=============================================================================
