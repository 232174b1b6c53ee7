------------------------ MODULE BrowserVoiceService -------------------------
(***************************************************************************)
(* The browser voice service, for one browser socket: the session.start    *)
(* messages that set up a media bridge and a voice session, and the calls  *)
(* of endSession() by a message, the close or an error of the socket, and  *)
(* shutdown().  The service keeps one entry per socket, written and        *)
(* deleted between awaits by handlers that do not know of each other.      *)
(*                                                                         *)
(* Of a voice session the model keeps the phase of its connection, which   *)
(* moves as VoiceLink says: an end() does not stop a connection that is    *)
(* still being made.                                                       *)
(***************************************************************************)
EXTENDS Integers, FiniteSets

CONSTANTS
  Starts,   \* session.start messages, and the sessions they set up
  Ends,     \* calls of endSession()
  Failing   \* the operations of a custom bridge or session that may reject

Operations == {"bridge.init", "bridge.start", "bridge.stop", "session.end"}

NoSession == "no session"

ASSUME ServiceAssumption ==
  /\ NoSession \notin Starts
  /\ IsFiniteSet(Ends)
  /\ Failing \subseteq Operations

VARIABLES
  socket,   \* readyState: "open" or "closed"
  entry,    \* activeSessions.get(socket)
  starter,  \* where the handler of each session.start is
  link,     \* phase of the connection of each session, "none" before it exists
  bridge,   \* state of each media bridge
  ender,    \* where each endSession() is
  ends,     \* the session each endSession() found
  told,     \* the last of session.started, session.ended and a failed start
  reported, \* history: how often onSessionEnded was called for a session
  cutIn,    \* history: a message or a call met a handler it should have waited for
  failed    \* history: the operations that rejected

vars == <<socket, entry, starter, link, bridge, ender, ends, told, reported,
          cutIn, failed>>
enderVars == <<ender, ends, reported>>

StarterPhase == {"new", "creating", "initing", "starting", "bridging", "stopping",
                 "started", "failed", "refused"}
EnderPhase == {"new", "stopping", "ending", "done"}
StartsAtWork == {s \in Starts : starter[s] \in
                   {"creating", "initing", "starting", "bridging", "stopping"}}
EndsAtWork == {e \in Ends : ender[e] \in {"stopping", "ending"}}
Quiet == StartsAtWork = {} /\ EndsAtWork = {}

TypeOK ==
  /\ socket \in {"open", "closed"}
  /\ entry \in Starts \cup {NoSession}
  /\ starter \in [Starts -> StarterPhase]
  /\ link \in [Starts -> {"none", "created", "connecting", "up", "down", "failed"}]
  /\ bridge \in [Starts -> {"none", "idle", "streaming", "stopped"}]
  /\ ender \in [Ends -> EnderPhase]
  /\ ends \in [Ends -> Starts \cup {NoSession}]
  /\ told \in {"nothing", "started", "ended", "error"}
  /\ reported \in [Starts -> 0..Cardinality(Ends)]
  /\ cutIn \in BOOLEAN
  /\ failed \subseteq Failing

Init ==
  /\ socket = "open"
  /\ entry = NoSession
  /\ starter = [s \in Starts |-> "new"]
  /\ link = [s \in Starts |-> "none"]
  /\ bridge = [s \in Starts |-> "none"]
  /\ ender = [e \in Ends |-> "new"]
  /\ ends = [e \in Ends |-> NoSession]
  /\ told = "nothing"
  /\ reported = [s \in Starts |-> 0]
  /\ cutIn = FALSE
  /\ failed = {}

\* A message reaches the client while its socket is open.
Tell(what) == told' = IF socket = "open" THEN what ELSE told

StarterMoves(s, from, to) ==
  /\ starter[s] = from
  /\ starter' = [starter EXCEPT ![s] = to]

LinkMoves(s, from, to) ==
  /\ link[s] = from
  /\ link' = [link EXCEPT ![s] = to]

Bridge(s, to) == bridge' = [bridge EXCEPT ![s] = to]

\* Whether a session.start waits for every handler, and an endSession() for
\* every start, is up to the host.
CutsIn(atWork) == cutIn' = (cutIn \/ atWork # {})

Rejects(op) == op \in Failing /\ failed' = failed \cup {op}

-----------------------------------------------------------------------------
\* startSession()

Refuse(s) ==
  /\ socket = "open"
  /\ CutsIn(StartsAtWork \cup EndsAtWork)
  /\ entry # NoSession
  /\ StarterMoves(s, "new", "refused")
  /\ UNCHANGED <<socket, entry, link, bridge, enderVars, told, failed>>

\* Mutant: the entry of the socket is not looked for.
StartSessionAnyway(s) ==
  /\ socket = "open"
  /\ CutsIn(StartsAtWork \cup EndsAtWork)
  /\ StarterMoves(s, "new", "creating")
  /\ Bridge(s, "idle")
  /\ UNCHANGED <<socket, entry, link, enderVars, told, failed>>

\* The bridge is made, and createSession() awaited.
StartSession(s) ==
  /\ socket = "open"
  /\ CutsIn(StartsAtWork \cup EndsAtWork)
  /\ entry = NoSession
  /\ StarterMoves(s, "new", "creating")
  /\ Bridge(s, "idle")
  /\ UNCHANGED <<socket, entry, link, enderVars, told, failed>>

\* createSession() resolves; init() of the bridge is awaited.
Created(s) ==
  /\ StarterMoves(s, "creating", "initing")
  /\ link' = [link EXCEPT ![s] = "created"]
  /\ UNCHANGED <<socket, entry, bridge, enderVars, told, cutIn, failed>>

\* The entry is made and session.start() awaited.
Inited(s) ==
  /\ StarterMoves(s, "initing", "starting")
  /\ entry' = s
  /\ LinkMoves(s, "created", "connecting")
  /\ UNCHANGED <<socket, bridge, enderVars, told, cutIn, failed>>

\* session.start() resolves; start() of the bridge is awaited.
SessionStarted(s) ==
  /\ StarterMoves(s, "starting", "bridging")
  /\ LinkMoves(s, "connecting", "up")
  /\ Bridge(s, "streaming")
  /\ UNCHANGED <<socket, entry, enderVars, told, cutIn, failed>>

BridgeStarted(s) ==
  /\ StarterMoves(s, "bridging", "started")
  /\ Tell("started")
  /\ UNCHANGED <<socket, entry, link, bridge, enderVars, cutIn, failed>>

\* An await of the try block rejects: stop() of the bridge is awaited.
StartFails(s) ==
  /\ \/ StarterMoves(s, "creating", "stopping") /\ UNCHANGED <<link, failed>>
     \/ Rejects("bridge.init") /\ StarterMoves(s, "initing", "stopping") /\ UNCHANGED link
     \/ /\ StarterMoves(s, "starting", "stopping")
        /\ LinkMoves(s, "connecting", "failed")
        /\ UNCHANGED failed
     \/ Rejects("bridge.start") /\ StarterMoves(s, "bridging", "stopping") /\ UNCHANGED link
  /\ Bridge(s, "stopped")
  /\ UNCHANGED <<socket, entry, enderVars, told, cutIn>>

\* Mutant: the entry of a session that failed is left.
GiveUpKeeping(s) ==
  /\ StarterMoves(s, "stopping", "failed")
  /\ Tell("error")
  /\ UNCHANGED <<socket, entry, link, bridge, enderVars, cutIn, failed>>

\* The end of the catch block: the entry of the socket is deleted, whosever
\* it is; if stop() rejects, it is not.
GiveUp(s) ==
  /\ StarterMoves(s, "stopping", "failed")
  /\ \/ entry' = NoSession /\ UNCHANGED failed
     \/ Rejects("bridge.stop") /\ UNCHANGED entry
  /\ Tell("error")
  /\ UNCHANGED <<socket, link, bridge, enderVars, cutIn>>

-----------------------------------------------------------------------------
\* endSession()

\* The session is read from the map and stop() of its bridge awaited.
EndSession(e) ==
  /\ ender[e] = "new"
  /\ IF entry = NoSession
     THEN ender' = [ender EXCEPT ![e] = "done"] /\ UNCHANGED <<ends, bridge>>
     ELSE /\ ender' = [ender EXCEPT ![e] = "stopping"]
          /\ ends' = [ends EXCEPT ![e] = entry]
          /\ Bridge(entry, "stopped")
  /\ UNCHANGED <<entry, starter, link, told, reported, failed>>

\* A session.end message or an error of the socket, or shutdown().
EndRequested(e) ==
  /\ CutsIn(StartsAtWork)
  /\ EndSession(e)
  /\ UNCHANGED socket

\* Mutant: the service does not listen to the close of the socket.
CloseIgnored(e) ==
  /\ socket = "open"
  /\ CutsIn(StartsAtWork)
  /\ ender[e] = "new"
  /\ socket' = "closed"
  /\ ender' = [ender EXCEPT ![e] = "done"]
  /\ UNCHANGED <<entry, starter, link, bridge, ends, told, reported, failed>>

Close(e) ==
  /\ socket = "open"
  /\ CutsIn(StartsAtWork)
  /\ socket' = "closed"
  /\ EndSession(e)

EnderMoves(e, from, to) ==
  /\ ender[e] = from
  /\ ender' = [ender EXCEPT ![e] = to]

\* Mutant: disconnect() does not close the connection.
AfterEndOpen(phase) == phase

\* end() of a voice session closes a connection that is up.
AfterEnd(phase) == IF phase = "up" THEN "down" ELSE phase

\* The bridge has stopped: session.end() is awaited.
BridgeStopped(e) ==
  /\ EnderMoves(e, "stopping", "ending")
  /\ link' = [link EXCEPT ![ends[e]] = AfterEnd(@)]
  /\ UNCHANGED <<socket, entry, starter, bridge, ends, told, reported, cutIn, failed>>

\* Mutant: the hook is called although the session was not ended.
BridgeNotStoppedReported(e) ==
  /\ Rejects("bridge.stop")
  /\ EnderMoves(e, "stopping", "done")
  /\ entry' = NoSession
  /\ reported' = [reported EXCEPT ![ends[e]] = @ + 1]
  /\ UNCHANGED <<socket, starter, link, bridge, ends, told, cutIn>>

\* stop() rejects: session.end() is not called, the entry is deleted.
BridgeNotStopped(e) ==
  /\ Rejects("bridge.stop")
  /\ EnderMoves(e, "stopping", "done")
  /\ entry' = NoSession
  /\ UNCHANGED <<socket, starter, link, bridge, ends, told, reported, cutIn>>

\* Mutant: the hook is called in the try block and after it.
SessionEndedTwice(e) ==
  /\ EnderMoves(e, "ending", "done")
  /\ entry' = NoSession
  /\ reported' = [reported EXCEPT ![ends[e]] = @ + 2]
  /\ Tell("ended")
  /\ UNCHANGED <<socket, starter, link, bridge, ends, cutIn, failed>>

SessionEnded(e) ==
  /\ EnderMoves(e, "ending", "done")
  /\ entry' = NoSession
  /\ reported' = [reported EXCEPT ![ends[e]] = @ + 1]
  /\ Tell("ended")
  /\ UNCHANGED <<socket, starter, link, bridge, ends, cutIn, failed>>

SessionNotEnded(e) ==
  /\ Rejects("session.end")
  /\ EnderMoves(e, "ending", "done")
  /\ entry' = NoSession
  /\ UNCHANGED <<socket, starter, link, bridge, ends, told, reported, cutIn>>

-----------------------------------------------------------------------------

\* The provider drops the connection: nobody tells the service.
Dropped(s) ==
  /\ LinkMoves(s, "up", "down")
  /\ UNCHANGED <<socket, entry, starter, bridge, enderVars, told, cutIn, failed>>

\* What goes on by itself once a message or an event was handled.
StartStep(s) ==
  \/ Created(s) \/ Inited(s) \/ SessionStarted(s) \/ BridgeStarted(s)
  \/ StartFails(s) \/ GiveUp(s)

EndStep(e) ==
  \/ BridgeStopped(e) \/ BridgeNotStopped(e) \/ SessionEnded(e) \/ SessionNotEnded(e)

Next ==
  \/ \E s \in Starts : Refuse(s) \/ StartSession(s) \/ StartStep(s) \/ Dropped(s)
  \/ \E e \in Ends : EndRequested(e) \/ Close(e) \/ EndStep(e)

Spec == Init /\ [][Next]_vars

\* The promises the handlers await settle.
FairSpec ==
  /\ Spec
  /\ \A s \in Starts : WF_vars(StartStep(s))
  /\ \A e \in Ends : WF_vars(EndStep(e))

-----------------------------------------------------------------------------

Released(s) == bridge[s] # "streaming" /\ link[s] \notin {"connecting", "up"}

\* The host let every start finish, and its bridge and sessions did not fail.
Orderly == ~cutIn /\ failed = {}

\* With an orderly host nothing is left on a closed socket: no bridge that
\* streams, no session that is connected and no entry, however many calls of
\* endSession() overlap on whichever of the sessions the socket had.
AllReleased ==
  Orderly /\ socket = "closed" /\ Quiet
    => entry = NoSession /\ \A s \in Starts : Released(s)

\* With an orderly host what the client was told last is what the service has:
\* after session.started there is a session on the socket, after session.ended
\* or a failed start there is none.
ClientAgrees ==
  Orderly /\ socket = "open" /\ Quiet => (told = "started" <=> entry # NoSession)

\* A session the host learns of as ended has been released, whatever
\* operation of a bridge or a session failed, unless the end cut into a start.
ReportedReleased ==
  ~cutIn /\ Quiet =>
    \A s \in Starts : reported[s] > 0 => Released(s) /\ bridge[s] = "stopped"

\* No race of starts and ends leaves an entry of a session whose bridge was
\* stopped: it would refuse every later start on the socket.
NoStaleEntry ==
  "bridge.stop" \notin failed /\ Quiet /\ entry # NoSession
    => bridge[entry] = "streaming"

\* A socket has one connected session at a time while nobody cuts into a start
\* and no bridge or session fails: two starts that overlap both find no entry
\* and both connect.
OneSessionPerSocket ==
  Orderly => \A s, t \in Starts : link[s] = "up" /\ link[t] = "up" => s = t

\* With an orderly host a closed socket ends up released for good.
ClosedIsReleased ==
  (socket = "closed") ~>
    [](Orderly => entry = NoSession /\ \A s \in Starts : Released(s))

\* Claimed: the bridge of a session that was ended is stopped.
BridgeStopsAtEnd ==
  Quiet => \A s \in Starts : reported[s] > 0 => bridge[s] = "stopped"
=============================================================================
