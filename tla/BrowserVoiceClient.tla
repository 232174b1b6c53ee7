------------------------- MODULE BrowserVoiceClient -------------------------
(***************************************************************************)
(* The voice client in the browser: one BrowserVoiceSessionClient, the     *)
(* VoiceWebSocketClient each of its connect() calls makes, and the host,   *)
(* which may call connect(), disconnect() and destroy() at any time.       *)
(*                                                                         *)
(* connect() waits for the microphone, the audio nodes and the URL;        *)
(* disconnect() works 100 ms after it was called, and on whatever the      *)
(* fields hold by then; cleanupAudio() waits for the audio context to      *)
(* close and then stops the stream the field holds by then.  A socket that *)
(* closes unasked is opened again, MaxAttempts times in a row.             *)
(*                                                                         *)
(* "live" stands for listening, processing, speaking and interrupted,      *)
(* which no guard tells apart.  The pump of a call is what runs while its  *)
(* connection is set up: the interval timers and the worklet nodes, which  *)
(* are set together and cleared together.                                  *)
(***************************************************************************)
EXTENDS Integers

CONSTANTS
  Calls,        \* connect() calls that pass the guard, and their clients
  Modes,        \* audio modes of the host
  MaxAttempts,  \* MAX_RECONNECT_ATTEMPTS
  MaxHangUps    \* bound: calls of disconnect() under way at a time

None == "none"
AudioModes == {"microphone", "silent", "unsupported"}

ASSUME ClientAssumption ==
  /\ None \notin Calls
  /\ Modes \subseteq AudioModes
  /\ MaxAttempts \in Nat
  /\ MaxHangUps \in Nat

VARIABLES
  mode,         \* options.audioMode; "unsupported": a microphone, in a browser without the APIs
  state,        \* snapshot.state
  call,         \* where each connect() is
  wsClient,     \* this.wsClient
  sock,         \* the socket of each client, "failing" when closed before it opened
  dismissed,    \* clients with intentionalClose
  attempts,     \* reconnectAttempts of each client
  timer,        \* clients whose reconnect timer runs
  pump,         \* this.durationTimer, silenceTimer, captureNode, playbackNode
  pumps,        \* calls whose pump runs
  audioContext, \* this.audioContext
  context,      \* state of the audio context of each call
  mediaStream,  \* this.mediaStream
  microphones,  \* calls whose stream has live tracks
  hangUps,      \* calls of disconnect() whose timer runs
  hasty,        \* history: the host did not wait for what an earlier call of its left
  lost          \* history: a stream was granted and the audio nodes failed

sockVars == <<sock, dismissed, attempts, timer>>
audioVars == <<pump, pumps, audioContext, context, mediaStream, microphones>>
vars == <<mode, state, call, wsClient, sockVars, audioVars, hangUps, hasty, lost>>

Over == {"idle", "ended", "error"}
InFlight(c) == call[c] \in {"stream", "nodes", "url"}

\* What a call may still hold.
Holds(c) ==
  \/ sock[c] \in {"opening", "open"}
  \/ c \in timer \cup pumps \cup microphones
  \/ context[c] \in {"running", "closing"}
AtRest == hangUps = 0 /\ \A c \in Calls : ~InFlight(c) /\ ~Holds(c)

TypeOK ==
  /\ mode \in Modes
  /\ state \in Over \cup {"connecting", "live"}
  /\ call \in [Calls -> {"new", "stream", "nodes", "url", "done"}]
  /\ wsClient \in Calls \cup {None}
  /\ sock \in [Calls -> {"none", "opening", "open", "closing", "failing"}]
  /\ dismissed \subseteq Calls
  /\ attempts \in [Calls -> 0..MaxAttempts]
  /\ timer \subseteq Calls
  /\ pump \in Calls \cup {None}
  /\ pumps \subseteq Calls
  /\ audioContext \in Calls \cup {None}
  /\ context \in [Calls -> {"none", "running", "closing", "closed"}]
  /\ mediaStream \in Calls \cup {None}
  /\ microphones \subseteq Calls
  /\ hangUps \in 0..MaxHangUps
  /\ hasty \in BOOLEAN
  /\ lost \in BOOLEAN

Init ==
  /\ mode \in Modes
  /\ state = "idle"
  /\ call = [c \in Calls |-> "new"]
  /\ wsClient = None
  /\ sock = [c \in Calls |-> "none"]
  /\ dismissed = {}
  /\ attempts = [c \in Calls |-> 0]
  /\ timer = {}
  /\ pump = None
  /\ pumps = {}
  /\ audioContext = None
  /\ context = [c \in Calls |-> "none"]
  /\ mediaStream = None
  /\ microphones = {}
  /\ hangUps = 0
  /\ hasty = FALSE
  /\ lost = FALSE

-----------------------------------------------------------------------------
(* cleanupAudio()                                                          *)

\* The part after the await: whatever the fields hold now is let go of.
LetGo ==
  /\ audioContext' = None
  /\ microphones' = microphones \ {mediaStream}
  /\ mediaStream' = None

\* Mutant: the part before the await forgets the timers and the nodes.
CleanupAudioContextOnly ==
  /\ UNCHANGED <<pump, pumps>>
  /\ IF audioContext # None
     THEN /\ context' = [context EXCEPT ![audioContext] =
                           IF @ = "running" THEN "closing" ELSE @]
          /\ UNCHANGED <<audioContext, mediaStream, microphones>>
     ELSE LetGo /\ UNCHANGED context

\* The part before it.  A context that is closing refuses a second close(),
\* and that cleanup stops there.
CleanupAudio ==
  /\ pumps' = pumps \ {pump}
  /\ pump' = None
  /\ IF audioContext # None
     THEN /\ context' = [context EXCEPT ![audioContext] =
                           IF @ = "running" THEN "closing" ELSE @]
          /\ UNCHANGED <<audioContext, mediaStream, microphones>>
     ELSE LetGo /\ UNCHANGED context

ContextClosed(c) ==
  /\ context[c] = "closing"
  /\ context' = [context EXCEPT ![c] = "closed"]
  /\ LetGo
  /\ UNCHANGED <<mode, state, call, wsClient, sockVars, pump, pumps, hangUps, hasty, lost>>

-----------------------------------------------------------------------------
(* connect()                                                               *)

Unsupported ==
  /\ mode = "unsupported" /\ state \in Over
  /\ state' = "error"
  /\ UNCHANGED <<mode, call, wsClient, sockVars, audioVars, hangUps, hasty, lost>>

\* The client is made and its pump started; the URL is asked for.
SetUp(c) ==
  /\ wsClient' = c
  /\ pump' = c
  /\ pumps' = pumps \cup {c}
  /\ call' = [call EXCEPT ![c] = "url"]

Connect(c) ==
  /\ call[c] = "new" /\ mode # "unsupported"
  /\ state \in Over
  /\ state' = "connecting"
  /\ hasty' = (hasty \/ ~AtRest)
  /\ IF mode = "microphone"
     THEN call' = [call EXCEPT ![c] = "stream"] /\ UNCHANGED <<wsClient, pump, pumps>>
     ELSE SetUp(c)
  /\ UNCHANGED <<mode, sockVars, audioContext, context, mediaStream, microphones, hangUps, lost>>

StreamGranted(c) ==
  /\ call[c] = "stream"
  /\ call' = [call EXCEPT ![c] = "nodes"]
  /\ microphones' = microphones \cup {c}
  /\ context' = [context EXCEPT ![c] = "running"]
  /\ UNCHANGED <<mode, state, wsClient, sockVars, pump, pumps, audioContext, mediaStream,
                 hangUps, hasty, lost>>

NodesReady(c) ==
  /\ call[c] = "nodes"
  /\ audioContext' = c
  /\ mediaStream' = c
  /\ SetUp(c)
  /\ UNCHANGED <<mode, state, sockVars, context, microphones, hangUps, hasty, lost>>

\* The catch, for a microphone that is refused, nodes that cannot be made or
\* a URL that cannot be had.
ConnectFails(c) ==
  /\ InFlight(c)
  /\ state' = "error"
  /\ call' = [call EXCEPT ![c] = "done"]
  /\ lost' = (lost \/ call[c] = "nodes")
  /\ CleanupAudio
  /\ UNCHANGED <<mode, wsClient, sockVars, hangUps, hasty>>

UrlReady(c) ==
  /\ call[c] = "url"
  /\ call' = [call EXCEPT ![c] = "done"]
  /\ sock' = [sock EXCEPT ![c] = "opening"]
  /\ dismissed' = dismissed \ {c}
  /\ attempts' = [attempts EXCEPT ![c] = 0]
  /\ UNCHANGED <<mode, state, wsClient, timer, audioVars, hangUps, hasty, lost>>

-----------------------------------------------------------------------------
(* disconnect() and destroy()                                              *)

Disconnect ==
  /\ hangUps < MaxHangUps
  /\ hangUps' = hangUps + 1
  /\ hasty' = (hasty \/ \E c \in Calls : InFlight(c))
  /\ UNCHANGED <<mode, state, call, wsClient, sockVars, audioVars, lost>>

\* Mutant: the reconnect timer is not cleared.
DismissTimerKept ==
  /\ wsClient' = None
  /\ IF wsClient = None
     THEN UNCHANGED <<dismissed, timer, sock>>
     ELSE /\ dismissed' = dismissed \cup {wsClient}
          /\ timer' = timer
          /\ sock' = [sock EXCEPT ![wsClient] = IF @ = "opening" THEN "failing"
                                                ELSE IF @ = "open" THEN "closing" ELSE @]

\* Mutant: the client is dropped, not disconnected.
DismissDropped ==
  /\ wsClient' = None
  /\ UNCHANGED <<dismissed, timer, sock>>

\* this.wsClient?.disconnect(); this.wsClient = null
Dismiss ==
  /\ wsClient' = None
  /\ IF wsClient = None
     THEN UNCHANGED <<dismissed, timer, sock>>
     ELSE /\ dismissed' = dismissed \cup {wsClient}
          /\ timer' = timer \ {wsClient}
          /\ sock' = [sock EXCEPT ![wsClient] = IF @ = "opening" THEN "failing"
                                                ELSE IF @ = "open" THEN "closing" ELSE @]

\* The timer of a disconnect().
HangUp ==
  /\ hangUps > 0
  /\ hangUps' = hangUps - 1
  /\ Dismiss
  /\ CleanupAudio
  /\ state' = "idle"
  /\ UNCHANGED <<mode, call, attempts, hasty, lost>>

Destroy ==
  /\ Dismiss
  /\ CleanupAudio
  /\ hasty' = (hasty \/ \E c \in Calls : InFlight(c))
  /\ UNCHANGED <<mode, state, call, attempts, hangUps, lost>>

-----------------------------------------------------------------------------
(* The events of a socket                                                  *)

SocketOpens(c) ==
  /\ sock[c] = "opening"
  /\ sock' = [sock EXCEPT ![c] = "open"]
  /\ attempts' = [attempts EXCEPT ![c] = 0]
  /\ UNCHANGED <<mode, state, call, wsClient, dismissed, timer, audioVars, hangUps, hasty, lost>>

\* session.started, session.ended, session.error, state.change and tool.call:
\* a browser delivers none on a socket that is closing.
Message(c) ==
  /\ sock[c] = "open"
  /\ state' \in {"connecting", "live", "error", "ended"}
  /\ UNCHANGED <<mode, call, wsClient, sockVars, audioVars, hangUps, hasty, lost>>

\* Mutants: an attempt is not counted; one attempt too many.
AttemptReconnectUncounted(c) ==
  /\ timer' = IF c \notin dismissed /\ attempts[c] < MaxAttempts THEN timer \cup {c} ELSE timer
  /\ UNCHANGED attempts

AttemptReconnectOnceMore(c) ==
  IF c \notin dismissed /\ attempts[c] <= MaxAttempts
  THEN /\ timer' = timer \cup {c}
       /\ attempts' = [attempts EXCEPT ![c] = @ + 1]
  ELSE UNCHANGED <<timer, attempts>>

AttemptReconnect(c) ==
  IF c \notin dismissed /\ attempts[c] < MaxAttempts
  THEN /\ timer' = timer \cup {c}
       /\ attempts' = [attempts EXCEPT ![c] = @ + 1]
  ELSE UNCHANGED <<timer, attempts>>

\* An error event, if there is one, comes just before the close event: a
\* socket that never opened has one, one that was closed on request has none.
SocketCloses(c) ==
  /\ sock[c] # "none"
  /\ \E error \in BOOLEAN :
       /\ sock[c] \in {"opening", "failing"} => error
       /\ sock[c] = "closing" => ~error
       /\ state' = IF error \/ state \notin {"idle", "ended"} THEN "ended" ELSE state
  /\ sock' = [sock EXCEPT ![c] = "none"]
  /\ AttemptReconnect(c)
  /\ UNCHANGED <<mode, call, wsClient, dismissed, audioVars, hangUps, hasty, lost>>

Reconnect(c) ==
  /\ c \in timer
  /\ timer' = timer \ {c}
  /\ sock' = [sock EXCEPT ![c] = "opening"]
  /\ UNCHANGED <<mode, state, call, wsClient, dismissed, attempts, audioVars, hangUps, hasty, lost>>

-----------------------------------------------------------------------------
Host == Unsupported \/ Disconnect \/ HangUp \/ Destroy
Audio(c) == Connect(c) \/ StreamGranted(c) \/ NodesReady(c) \/ ConnectFails(c)
              \/ UrlReady(c) \/ ContextClosed(c)
Socket(c) == SocketOpens(c) \/ Message(c) \/ SocketCloses(c) \/ Reconnect(c)

Next == Host \/ \E c \in Calls : Audio(c) \/ Socket(c)
Spec == Init /\ [][Next]_vars

\* Reconnect timers fire, and a socket does not stay between open and closed.
FairSpec ==
  /\ Spec
  /\ \A c \in Calls :
       /\ WF_vars(Reconnect(c))
       /\ WF_vars(sock[c] # "open" /\ (SocketOpens(c) \/ SocketCloses(c)))

-----------------------------------------------------------------------------
(* Properties                                                              *)

\* A client that waits to reconnect has no socket and was not disconnected,
\* whatever the host does: disconnect() of the client takes its reconnect
\* timer along, and no client opens a second socket beside one it has.
OneConnectionPerClient ==
  \A c \in timer : sock[c] = "none" /\ c \notin dismissed /\ call[c] = "done"

\* A host that hangs up after connect() is through, and connects when all is
\* let go of, is left with nothing: once it has hung up no socket is open or
\* opens again, no timer runs, no audio context is open and the microphone is
\* off.  Only a stream whose audio nodes could not be made is never stopped.
ReleasedAfterHangUp ==
  (/\ ~hasty /\ ~lost
   /\ wsClient = None /\ hangUps = 0
   /\ \A c \in Calls : ~InFlight(c) /\ context[c] # "closing")
    => AtRest

\* After disconnect() the snapshot stays idle until the next connect(): no
\* message and no late close of a socket of a session that was hung up gets
\* through, but for the error of a socket that was still opening.
IdleUntilConnect ==
  [][state = "idle" /\ ~hasty /\ (\A c \in Calls : sock[c] # "failing")
       => state' \in {"idle", "connecting"} \/ mode = "unsupported"]_vars

\* When the server no longer takes connections, every client gives up in the
\* end, also those nobody refers to any more.
GivesUp ==
  <>[](\A c \in Calls : sock[c] # "open")
    => <>[](timer = {} /\ \A c \in Calls : sock[c] = "none")
=============================================================================
