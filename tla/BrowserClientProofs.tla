------------------------- MODULE BrowserClientProofs -------------------------
(***************************************************************************)
(* Proofs about BrowserVoiceClient, for any number of calls, attempts and  *)
(* hang-ups.                                                               *)
(***************************************************************************)
EXTENDS BrowserVoiceClient, TLAPS

\* What TypeOK says of everything but the two histories.
Types ==
  /\ state \in Over \cup {"connecting", "live"}
  /\ call \in [Calls -> {"new", "stream", "nodes", "url", "done"}]
  /\ wsClient \in Calls \cup {None}
  /\ sock \in [Calls -> {"none", "opening", "open", "closing", "failing"}]
  /\ dismissed \subseteq Calls
  /\ attempts \in [Calls -> 0..MaxAttempts]
  /\ timer \subseteq Calls
  /\ pump \in Calls \cup {None}
  /\ pumps \subseteq Calls
  /\ audioContext \in Calls \cup {None}
  /\ context \in [Calls -> {"none", "running", "closing", "closed"}]
  /\ mediaStream \in Calls \cup {None}
  /\ microphones \subseteq Calls
  /\ hangUps \in 0..MaxHangUps

\* Only a call that is through has a socket, and it is closed by dismissal.
SocketAfterCall ==
  \A c \in Calls :
    /\ sock[c] # "none" => call[c] = "done"
    /\ sock[c] \in {"closing", "failing"} => c \in dismissed

\* With a host that waits, every resource is where the next hang-up finds it.
Connections == \A c \in Calls : sock[c] \in {"opening", "open"} \/ c \in timer => wsClient = c
Pumps == (pump = None \/ pump = wsClient) /\ pumps = {pump} \ {None}
Streams == microphones = ({mediaStream} \ {None}) \cup {c \in Calls : call[c] = "nodes"}
Contexts ==
  /\ audioContext = mediaStream
  /\ audioContext # None => context[audioContext] \in {"running", "closing"}
  /\ \A c \in Calls : call[c] = "nodes" => context[c] = "running"
  /\ \A c \in Calls : context[c] = "closing" => audioContext = c
  /\ \A c \in Calls : context[c] = "running" =>
       call[c] = "nodes" \/ (audioContext = c /\ wsClient = c)
InTurn ==
  \A c \in Calls : InFlight(c) =>
    /\ hangUps = 0
    /\ \A d \in Calls : d # c => ~InFlight(d) /\ ~Holds(d)
    /\ call[c] \in {"stream", "nodes"} => audioContext = None /\ pump = None
    /\ call[c] = "url" => wsClient = c
Fresh ==
  \A c \in Calls : call[c] \in {"new", "stream"} => 
    context[c] = "none" /\ c # wsClient /\ c # audioContext

\* Neither an idle snapshot nor a stream that was lost leaves a call at work.
Quiet == \A c \in Calls : ~InFlight(c) /\ sock[c] \notin {"opening", "open"} /\ c \notin timer
IdleQuiet == hasty \/ state # "idle" \/ Quiet
Stranded == hasty \/ ~lost \/ (Quiet /\ mediaStream = None /\ microphones # {})

Orderly == Connections /\ Pumps /\ Streams /\ Contexts /\ InTurn /\ Fresh

\* The inductive invariant: what holds for any host, and what holds until the
\* host is hasty or a stream is lost.  Every action keeps it.
IInv == TypeOK /\ SocketAfterCall /\ OneConnectionPerClient /\ (hasty \/ lost \/ Orderly)
          /\ IdleQuiet /\ Stranded

-----------------------------------------------------------------------------
LEMMA Initially == Init => IInv
<1> SUFFICES ASSUME Init PROVE IInv
  OBVIOUS
<1> USE ClientAssumption DEF ClientAssumption, Init
<1>1. TypeOK
  <2>1. mode \in Modes /\ hasty \in BOOLEAN /\ lost \in BOOLEAN
    BY Zenon
  <2>2. Types
    BY SMT DEF Types, Over
  <2>3. QED
    BY <2>1, <2>2 DEF Types, TypeOK
<1>2. SocketAfterCall /\ OneConnectionPerClient
  BY SMT DEF SocketAfterCall, OneConnectionPerClient
<1>3. Streams
  BY {c \in Calls : call[c] = "nodes"} = {}, SMT DEF Streams
<1>4. Connections /\ Pumps /\ Contexts /\ InTurn /\ Fresh
  BY SMT DEF Connections, Pumps, Contexts, InTurn, Fresh, InFlight
<1>5. IdleQuiet /\ Stranded
  BY SMT DEF IdleQuiet, Stranded, Quiet, InFlight
<1>6. QED
  BY <1>1, <1>2, <1>3, <1>4, <1>5 DEF IInv, Orderly

LEMMA UnsupportedKeeps == ASSUME IInv, Unsupported PROVE IInv'
<1> USE ClientAssumption DEF ClientAssumption, sockVars, audioVars
<1>1. Types /\ SocketAfterCall /\ OneConnectionPerClient
  BY DEF IInv, TypeOK, Types
<1>3. TypeOK'
  <2>1. Types'
    BY <1>1, SMT DEF Types, Over, Unsupported
  <2>2. mode' \in Modes /\ hasty' \in BOOLEAN /\ lost' \in BOOLEAN
    BY Zenon DEF IInv, TypeOK, Unsupported
  <2>3. QED
    BY <2>1, <2>2 DEF Types, TypeOK
<1>4. SocketAfterCall' /\ OneConnectionPerClient'
  BY <1>1, SMT DEF Types, SocketAfterCall, OneConnectionPerClient, InFlight, Unsupported
<1>5. ASSUME ~hasty', ~lost' PROVE Orderly'
  <2>1. ~hasty /\ ~lost
    BY <1>5, Zenon DEF Unsupported
  <2>2. Orderly
    BY <2>1 DEF IInv
  <2>3. Connections'
    BY <1>1, <2>1, <2>2, SMT DEF Types, SocketAfterCall, OneConnectionPerClient, Orderly, Connections,
      Pumps, Streams, Contexts, InTurn, Fresh, InFlight, Holds, AtRest, Unsupported
  <2>4. Pumps'
    BY <1>1, <2>1, <2>2, SMT DEF Types, SocketAfterCall, OneConnectionPerClient, Orderly, Connections,
      Pumps, Streams, Contexts, InTurn, Fresh, InFlight, Holds, AtRest, Unsupported
  <2>5. Streams'
    BY <1>1, <2>1, <2>2, SMT DEF Types, SocketAfterCall, OneConnectionPerClient, Orderly, Connections,
      Pumps, Streams, Contexts, InTurn, Fresh, InFlight, Holds, AtRest, Unsupported
  <2>6. Contexts'
    BY <1>1, <2>1, <2>2, SMT DEF Types, SocketAfterCall, OneConnectionPerClient, Orderly, Connections,
      Pumps, Streams, Contexts, InTurn, Fresh, InFlight, Holds, AtRest, Unsupported
  <2>7. InTurn'
    BY <1>1, <2>1, <2>2, SMT DEF Types, SocketAfterCall, OneConnectionPerClient, Orderly, Connections,
      Pumps, Streams, Contexts, InTurn, Fresh, InFlight, Holds, AtRest, Unsupported
  <2>8. Fresh'
    BY <1>1, <2>1, <2>2, SMT DEF Types, SocketAfterCall, OneConnectionPerClient, Orderly, Connections,
      Pumps, Streams, Contexts, InTurn, Fresh, InFlight, Holds, AtRest, Unsupported
  <2>9. QED
    BY <2>3, <2>4, <2>5, <2>6, <2>7, <2>8 DEF Orderly
<1>6. ASSUME ~hasty', state' = "idle" PROVE Quiet'
  <2>1. ~hasty
    BY <1>6, Zenon DEF Unsupported
  <2>2. (state = "idle" => Quiet) /\ (lost => Quiet) /\ (~lost => Orderly)
    BY <2>1, Zenon DEF IInv, IdleQuiet, Stranded
  <2>3. QED
    BY <1>1, <1>6, <2>1, <2>2, SMT DEF Types, SocketAfterCall, OneConnectionPerClient, Quiet,
      Orderly, Connections, InTurn, InFlight, Unsupported
<1>7. ASSUME ~hasty', lost' PROVE Quiet' /\ mediaStream' = None /\ microphones' # {}
  <2>1. ~hasty
    BY <1>7, Zenon DEF Unsupported
  <2>2. lost
    BY <1>7, Zenon DEF Unsupported
  <2>3. (lost => Quiet /\ mediaStream = None /\ microphones # {}) /\ (~lost => Orderly)
    BY <2>1, Zenon DEF IInv, Stranded
  <2>4. QED
    BY <1>1, <2>1, <2>2, <2>3, SMT DEF Types, SocketAfterCall, OneConnectionPerClient, Quiet, Orderly,
      Connections, Streams, Contexts, InTurn, InFlight, Holds, AtRest, Unsupported
<1>8. QED
  BY <1>3, <1>4, <1>5, <1>6, <1>7 DEF IInv, IdleQuiet, Stranded

LEMMA ContextClosedKeeps == ASSUME IInv, NEW a \in Calls, ContextClosed(a) PROVE IInv'
<1> USE ClientAssumption DEF ClientAssumption, sockVars, audioVars
<1>1. Types /\ SocketAfterCall /\ OneConnectionPerClient
  BY DEF IInv, TypeOK, Types
<1>3. TypeOK'
  <2>1. Types'
    BY <1>1, SMT DEF Types, Over, ContextClosed, LetGo
  <2>2. mode' \in Modes /\ hasty' \in BOOLEAN /\ lost' \in BOOLEAN
    BY Zenon DEF IInv, TypeOK, ContextClosed, LetGo
  <2>3. QED
    BY <2>1, <2>2 DEF Types, TypeOK
<1>4. SocketAfterCall' /\ OneConnectionPerClient'
  BY <1>1, SMT DEF Types, SocketAfterCall, OneConnectionPerClient, InFlight, ContextClosed, LetGo
<1>5. ASSUME ~hasty', ~lost' PROVE Orderly'
  <2>1. ~hasty /\ ~lost
    BY <1>5, Zenon DEF ContextClosed, LetGo
  <2>2. Orderly
    BY <2>1 DEF IInv
  <2>3. Connections'
    BY <1>1, <2>1, <2>2, SMT DEF Types, SocketAfterCall, OneConnectionPerClient, Orderly, Connections,
      Pumps, Streams, Contexts, InTurn, Fresh, InFlight, Holds, AtRest, ContextClosed, LetGo
  <2>4. Pumps'
    BY <1>1, <2>1, <2>2, SMT DEF Types, SocketAfterCall, OneConnectionPerClient, Orderly, Connections,
      Pumps, Streams, Contexts, InTurn, Fresh, InFlight, Holds, AtRest, ContextClosed, LetGo
  <2>5. Streams'
    BY <1>1, <2>1, <2>2, SMT DEF Types, SocketAfterCall, OneConnectionPerClient, Orderly, Connections,
      Pumps, Streams, Contexts, InTurn, Fresh, InFlight, Holds, AtRest, ContextClosed, LetGo
  <2>6. Contexts'
    BY <1>1, <2>1, <2>2, SMT DEF Types, SocketAfterCall, OneConnectionPerClient, Orderly, Connections,
      Pumps, Streams, Contexts, InTurn, Fresh, InFlight, Holds, AtRest, ContextClosed, LetGo
  <2>7. InTurn'
    BY <1>1, <2>1, <2>2, SMT DEF Types, SocketAfterCall, OneConnectionPerClient, Orderly, Connections,
      Pumps, Streams, Contexts, InTurn, Fresh, InFlight, Holds, AtRest, ContextClosed, LetGo
  <2>8. Fresh'
    BY <1>1, <2>1, <2>2, SMT DEF Types, SocketAfterCall, OneConnectionPerClient, Orderly, Connections,
      Pumps, Streams, Contexts, InTurn, Fresh, InFlight, Holds, AtRest, ContextClosed, LetGo
  <2>9. QED
    BY <2>3, <2>4, <2>5, <2>6, <2>7, <2>8 DEF Orderly
<1>6. ASSUME ~hasty', state' = "idle" PROVE Quiet'
  <2>1. ~hasty
    BY <1>6, Zenon DEF ContextClosed, LetGo
  <2>2. (state = "idle" => Quiet) /\ (lost => Quiet) /\ (~lost => Orderly)
    BY <2>1, Zenon DEF IInv, IdleQuiet, Stranded
  <2>3. QED
    BY <1>1, <1>6, <2>1, <2>2, SMT DEF Types, SocketAfterCall, OneConnectionPerClient, Quiet,
      Orderly, Connections, InTurn, InFlight, ContextClosed, LetGo
<1>7. ASSUME ~hasty', lost' PROVE Quiet' /\ mediaStream' = None /\ microphones' # {}
  <2>1. ~hasty
    BY <1>7, Zenon DEF ContextClosed, LetGo
  <2>2. lost
    BY <1>7, Zenon DEF ContextClosed, LetGo
  <2>3. (lost => Quiet /\ mediaStream = None /\ microphones # {}) /\ (~lost => Orderly)
    BY <2>1, Zenon DEF IInv, Stranded
  <2>4. QED
    BY <1>1, <2>1, <2>2, <2>3, SMT DEF Types, SocketAfterCall, OneConnectionPerClient, Quiet, Orderly,
      Connections, Streams, Contexts, InTurn, InFlight, Holds, AtRest, ContextClosed, LetGo
<1>8. QED
  BY <1>3, <1>4, <1>5, <1>6, <1>7 DEF IInv, IdleQuiet, Stranded

LEMMA ConnectKeeps == ASSUME IInv, NEW a \in Calls, Connect(a) PROVE IInv'
<1> USE ClientAssumption DEF ClientAssumption, sockVars, audioVars
<1>1. Types /\ SocketAfterCall /\ OneConnectionPerClient
  BY DEF IInv, TypeOK, Types
<1>3. TypeOK'
  <2>1. Types'
    BY <1>1, SMT DEF Types, Over, Connect, SetUp
  <2>2. mode' \in Modes /\ hasty' \in BOOLEAN /\ lost' \in BOOLEAN
    BY Zenon DEF IInv, TypeOK, Connect, SetUp
  <2>3. QED
    BY <2>1, <2>2 DEF Types, TypeOK
<1>4. SocketAfterCall' /\ OneConnectionPerClient'
  BY <1>1, SMT DEF Types, SocketAfterCall, OneConnectionPerClient, InFlight, Connect, SetUp
<1>5. ASSUME ~hasty', ~lost' PROVE Orderly'
  <2>1. ~hasty /\ ~lost /\ AtRest
    BY <1>5, Zenon DEF Connect, SetUp
  <2>2. Orderly
    BY <2>1 DEF IInv
  <2>3. Connections'
    BY <1>1, <2>1, <2>2, SMT DEF Types, SocketAfterCall, OneConnectionPerClient, Orderly, Connections,
      Pumps, Streams, Contexts, InTurn, Fresh, InFlight, Holds, AtRest, Connect, SetUp
  <2>4. Pumps'
    BY <1>1, <2>1, <2>2, SMT DEF Types, SocketAfterCall, OneConnectionPerClient, Orderly, Connections,
      Pumps, Streams, Contexts, InTurn, Fresh, InFlight, Holds, AtRest, Connect, SetUp
  <2>5. Streams'
    BY <1>1, <2>1, <2>2, SMT DEF Types, SocketAfterCall, OneConnectionPerClient, Orderly, Connections,
      Pumps, Streams, Contexts, InTurn, Fresh, InFlight, Holds, AtRest, Connect, SetUp
  <2>6. Contexts'
    BY <1>1, <2>1, <2>2, SMT DEF Types, SocketAfterCall, OneConnectionPerClient, Orderly, Connections,
      Pumps, Streams, Contexts, InTurn, Fresh, InFlight, Holds, AtRest, Connect, SetUp
  <2>7. InTurn'
    BY <1>1, <2>1, <2>2, SMT DEF Types, SocketAfterCall, OneConnectionPerClient, Orderly, Connections,
      Pumps, Streams, Contexts, InTurn, Fresh, InFlight, Holds, AtRest, Connect, SetUp
  <2>8. Fresh'
    BY <1>1, <2>1, <2>2, SMT DEF Types, SocketAfterCall, OneConnectionPerClient, Orderly, Connections,
      Pumps, Streams, Contexts, InTurn, Fresh, InFlight, Holds, AtRest, Connect, SetUp
  <2>9. QED
    BY <2>3, <2>4, <2>5, <2>6, <2>7, <2>8 DEF Orderly
<1>6. ASSUME ~hasty', state' = "idle" PROVE Quiet'
  <2>1. ~hasty /\ AtRest
    BY <1>6, Zenon DEF Connect, SetUp
  <2>2. (state = "idle" => Quiet) /\ (lost => Quiet) /\ (~lost => Orderly)
    BY <2>1, Zenon DEF IInv, IdleQuiet, Stranded
  <2>3. QED
    BY <1>1, <1>6, <2>1, <2>2, SMT DEF Types, SocketAfterCall, OneConnectionPerClient, Quiet,
      Orderly, Connections, InTurn, InFlight, Connect, SetUp
<1>7. ASSUME ~hasty', lost' PROVE Quiet' /\ mediaStream' = None /\ microphones' # {}
  <2>1. ~hasty /\ AtRest
    BY <1>7, Zenon DEF Connect, SetUp
  <2>2. lost
    BY <1>7, Zenon DEF Connect, SetUp
  <2>3. (lost => Quiet /\ mediaStream = None /\ microphones # {}) /\ (~lost => Orderly)
    BY <2>1, Zenon DEF IInv, Stranded
  <2>4. QED
    BY <1>1, <2>1, <2>2, <2>3, SMT DEF Types, SocketAfterCall, OneConnectionPerClient, Quiet, Orderly,
      Connections, Streams, Contexts, InTurn, InFlight, Holds, AtRest, Connect, SetUp
<1>8. QED
  BY <1>3, <1>4, <1>5, <1>6, <1>7 DEF IInv, IdleQuiet, Stranded

LEMMA StreamGrantedKeeps == ASSUME IInv, NEW a \in Calls, StreamGranted(a) PROVE IInv'
<1> USE ClientAssumption DEF ClientAssumption, sockVars, audioVars
<1>1. Types /\ SocketAfterCall /\ OneConnectionPerClient
  BY DEF IInv, TypeOK, Types
<1>3. TypeOK'
  <2>1. Types'
    BY <1>1, SMT DEF Types, Over, StreamGranted
  <2>2. mode' \in Modes /\ hasty' \in BOOLEAN /\ lost' \in BOOLEAN
    BY Zenon DEF IInv, TypeOK, StreamGranted
  <2>3. QED
    BY <2>1, <2>2 DEF Types, TypeOK
<1>4. SocketAfterCall' /\ OneConnectionPerClient'
  BY <1>1, SMT DEF Types, SocketAfterCall, OneConnectionPerClient, InFlight, StreamGranted
<1>5. ASSUME ~hasty', ~lost' PROVE Orderly'
  <2>1. ~hasty /\ ~lost
    BY <1>5, Zenon DEF StreamGranted
  <2>2. Orderly
    BY <2>1 DEF IInv
  <2>3. Connections'
    BY <1>1, <2>1, <2>2, SMT DEF Types, SocketAfterCall, OneConnectionPerClient, Orderly, Connections,
      Pumps, Streams, Contexts, InTurn, Fresh, InFlight, Holds, AtRest, StreamGranted
  <2>4. Pumps'
    BY <1>1, <2>1, <2>2, SMT DEF Types, SocketAfterCall, OneConnectionPerClient, Orderly, Connections,
      Pumps, Streams, Contexts, InTurn, Fresh, InFlight, Holds, AtRest, StreamGranted
  <2>5. Streams'
    BY <1>1, <2>1, <2>2, SMT DEF Types, SocketAfterCall, OneConnectionPerClient, Orderly, Connections,
      Pumps, Streams, Contexts, InTurn, Fresh, InFlight, Holds, AtRest, StreamGranted
  <2>6. Contexts'
    BY <1>1, <2>1, <2>2, SMT DEF Types, SocketAfterCall, OneConnectionPerClient, Orderly, Connections,
      Pumps, Streams, Contexts, InTurn, Fresh, InFlight, Holds, AtRest, StreamGranted
  <2>7. InTurn'
    BY <1>1, <2>1, <2>2, SMT DEF Types, SocketAfterCall, OneConnectionPerClient, Orderly, Connections,
      Pumps, Streams, Contexts, InTurn, Fresh, InFlight, Holds, AtRest, StreamGranted
  <2>8. Fresh'
    BY <1>1, <2>1, <2>2, SMT DEF Types, SocketAfterCall, OneConnectionPerClient, Orderly, Connections,
      Pumps, Streams, Contexts, InTurn, Fresh, InFlight, Holds, AtRest, StreamGranted
  <2>9. QED
    BY <2>3, <2>4, <2>5, <2>6, <2>7, <2>8 DEF Orderly
<1>6. ASSUME ~hasty', state' = "idle" PROVE Quiet'
  <2>1. ~hasty
    BY <1>6, Zenon DEF StreamGranted
  <2>2. (state = "idle" => Quiet) /\ (lost => Quiet) /\ (~lost => Orderly)
    BY <2>1, Zenon DEF IInv, IdleQuiet, Stranded
  <2>3. QED
    BY <1>1, <1>6, <2>1, <2>2, SMT DEF Types, SocketAfterCall, OneConnectionPerClient, Quiet,
      Orderly, Connections, InTurn, InFlight, StreamGranted
<1>7. ASSUME ~hasty', lost' PROVE Quiet' /\ mediaStream' = None /\ microphones' # {}
  <2>1. ~hasty
    BY <1>7, Zenon DEF StreamGranted
  <2>2. lost
    BY <1>7, Zenon DEF StreamGranted
  <2>3. (lost => Quiet /\ mediaStream = None /\ microphones # {}) /\ (~lost => Orderly)
    BY <2>1, Zenon DEF IInv, Stranded
  <2>4. QED
    BY <1>1, <2>1, <2>2, <2>3, SMT DEF Types, SocketAfterCall, OneConnectionPerClient, Quiet, Orderly,
      Connections, Streams, Contexts, InTurn, InFlight, Holds, AtRest, StreamGranted
<1>8. QED
  BY <1>3, <1>4, <1>5, <1>6, <1>7 DEF IInv, IdleQuiet, Stranded

LEMMA NodesReadyKeeps == ASSUME IInv, NEW a \in Calls, NodesReady(a) PROVE IInv'
<1> USE ClientAssumption DEF ClientAssumption, sockVars, audioVars
<1>1. Types /\ SocketAfterCall /\ OneConnectionPerClient
  BY DEF IInv, TypeOK, Types
<1>3. TypeOK'
  <2>1. Types'
    BY <1>1, SMT DEF Types, Over, NodesReady, SetUp
  <2>2. mode' \in Modes /\ hasty' \in BOOLEAN /\ lost' \in BOOLEAN
    BY Zenon DEF IInv, TypeOK, NodesReady, SetUp
  <2>3. QED
    BY <2>1, <2>2 DEF Types, TypeOK
<1>4. SocketAfterCall' /\ OneConnectionPerClient'
  BY <1>1, SMT DEF Types, SocketAfterCall, OneConnectionPerClient, InFlight, NodesReady, SetUp
<1>5. ASSUME ~hasty', ~lost' PROVE Orderly'
  <2>1. ~hasty /\ ~lost
    BY <1>5, Zenon DEF NodesReady, SetUp
  <2>2. Orderly
    BY <2>1 DEF IInv
  <2>3. Connections'
    BY <1>1, <2>1, <2>2, SMT DEF Types, SocketAfterCall, OneConnectionPerClient, Orderly, Connections,
      Pumps, Streams, Contexts, InTurn, Fresh, InFlight, Holds, AtRest, NodesReady, SetUp
  <2>4. Pumps'
    BY <1>1, <2>1, <2>2, SMT DEF Types, SocketAfterCall, OneConnectionPerClient, Orderly, Connections,
      Pumps, Streams, Contexts, InTurn, Fresh, InFlight, Holds, AtRest, NodesReady, SetUp
  <2>5. Streams'
    BY <1>1, <2>1, <2>2, SMT DEF Types, SocketAfterCall, OneConnectionPerClient, Orderly, Connections,
      Pumps, Streams, Contexts, InTurn, Fresh, InFlight, Holds, AtRest, NodesReady, SetUp
  <2>6. Contexts'
    BY <1>1, <2>1, <2>2, SMT DEF Types, SocketAfterCall, OneConnectionPerClient, Orderly, Connections,
      Pumps, Streams, Contexts, InTurn, Fresh, InFlight, Holds, AtRest, NodesReady, SetUp
  <2>7. InTurn'
    BY <1>1, <2>1, <2>2, SMT DEF Types, SocketAfterCall, OneConnectionPerClient, Orderly, Connections,
      Pumps, Streams, Contexts, InTurn, Fresh, InFlight, Holds, AtRest, NodesReady, SetUp
  <2>8. Fresh'
    BY <1>1, <2>1, <2>2, SMT DEF Types, SocketAfterCall, OneConnectionPerClient, Orderly, Connections,
      Pumps, Streams, Contexts, InTurn, Fresh, InFlight, Holds, AtRest, NodesReady, SetUp
  <2>9. QED
    BY <2>3, <2>4, <2>5, <2>6, <2>7, <2>8 DEF Orderly
<1>6. ASSUME ~hasty', state' = "idle" PROVE Quiet'
  <2>1. ~hasty
    BY <1>6, Zenon DEF NodesReady, SetUp
  <2>2. (state = "idle" => Quiet) /\ (lost => Quiet) /\ (~lost => Orderly)
    BY <2>1, Zenon DEF IInv, IdleQuiet, Stranded
  <2>3. QED
    BY <1>1, <1>6, <2>1, <2>2, SMT DEF Types, SocketAfterCall, OneConnectionPerClient, Quiet,
      Orderly, Connections, InTurn, InFlight, NodesReady, SetUp
<1>7. ASSUME ~hasty', lost' PROVE Quiet' /\ mediaStream' = None /\ microphones' # {}
  <2>1. ~hasty
    BY <1>7, Zenon DEF NodesReady, SetUp
  <2>2. lost
    BY <1>7, Zenon DEF NodesReady, SetUp
  <2>3. (lost => Quiet /\ mediaStream = None /\ microphones # {}) /\ (~lost => Orderly)
    BY <2>1, Zenon DEF IInv, Stranded
  <2>4. QED
    BY <1>1, <2>1, <2>2, <2>3, SMT DEF Types, SocketAfterCall, OneConnectionPerClient, Quiet, Orderly,
      Connections, Streams, Contexts, InTurn, InFlight, Holds, AtRest, NodesReady, SetUp
<1>8. QED
  BY <1>3, <1>4, <1>5, <1>6, <1>7 DEF IInv, IdleQuiet, Stranded

LEMMA ConnectFailsKeeps == ASSUME IInv, NEW a \in Calls, ConnectFails(a) PROVE IInv'
<1> USE ClientAssumption DEF ClientAssumption, sockVars, audioVars
<1>1. Types /\ SocketAfterCall /\ OneConnectionPerClient
  BY DEF IInv, TypeOK, Types
<1>2. /\ UNCHANGED <<wsClient, sock, dismissed, timer, hangUps>>
      /\ InFlight(a)
      /\ call' = [call EXCEPT ![a] = "done"]
      /\ CleanupAudio
  BY Zenon DEF ConnectFails, CleanupAudio, LetGo, InFlight
<1>3. TypeOK'
  <2>1. Types'
    BY <1>1, SMT DEF Types, Over, ConnectFails, CleanupAudio, LetGo
  <2>2. mode' \in Modes /\ hasty' \in BOOLEAN /\ lost' \in BOOLEAN
    BY Zenon DEF IInv, TypeOK, ConnectFails, CleanupAudio, LetGo
  <2>3. QED
    BY <2>1, <2>2 DEF Types, TypeOK
<1>4. SocketAfterCall' /\ OneConnectionPerClient'
  BY <1>1, <1>2, SMT DEF Types, SocketAfterCall, OneConnectionPerClient, InFlight
<1>5. ASSUME ~hasty', ~lost' PROVE Orderly'
  <2>1. ~hasty /\ ~lost /\ call[a] # "nodes"
    BY <1>5, Zenon DEF ConnectFails, CleanupAudio, LetGo
  <2>2. Orderly
    BY <2>1 DEF IInv
  <2>3. Connections'
    BY <1>1, <1>2, <2>1, <2>2, SMT DEF Types, SocketAfterCall, OneConnectionPerClient, Orderly, Connections,
      Pumps, Streams, Contexts, InTurn, Fresh, InFlight, Holds, AtRest, CleanupAudio, LetGo
  <2>4. Pumps'
    BY <1>1, <1>2, <2>1, <2>2, SMT DEF Types, SocketAfterCall, OneConnectionPerClient, Orderly, Connections,
      Pumps, Streams, Contexts, InTurn, Fresh, InFlight, Holds, AtRest, CleanupAudio, LetGo
  <2>5. Streams'
    BY <1>1, <1>2, <2>1, <2>2, SMT DEF Types, SocketAfterCall, OneConnectionPerClient, Orderly, Connections,
      Pumps, Streams, Contexts, InTurn, Fresh, InFlight, Holds, AtRest, CleanupAudio, LetGo
  <2>6. Contexts'
    BY <1>1, <1>2, <2>1, <2>2, SMT DEF Types, SocketAfterCall, OneConnectionPerClient, Orderly, Connections,
      Pumps, Streams, Contexts, InTurn, Fresh, InFlight, Holds, AtRest, CleanupAudio, LetGo
  <2>7. InTurn'
    BY <1>1, <1>2, <2>1, <2>2, SMT DEF Types, SocketAfterCall, OneConnectionPerClient, Orderly, Connections,
      Pumps, Streams, Contexts, InTurn, Fresh, InFlight, Holds, AtRest, CleanupAudio, LetGo
  <2>8. Fresh'
    BY <1>1, <1>2, <2>1, <2>2, SMT DEF Types, SocketAfterCall, OneConnectionPerClient, Orderly, Connections,
      Pumps, Streams, Contexts, InTurn, Fresh, InFlight, Holds, AtRest, CleanupAudio, LetGo
  <2>9. QED
    BY <2>3, <2>4, <2>5, <2>6, <2>7, <2>8 DEF Orderly
<1>6. ASSUME ~hasty', state' = "idle" PROVE Quiet'
  <2>1. ~hasty
    BY <1>6, Zenon DEF ConnectFails, CleanupAudio, LetGo
  <2>2. (state = "idle" => Quiet) /\ (lost => Quiet) /\ (~lost => Orderly)
    BY <2>1, Zenon DEF IInv, IdleQuiet, Stranded
  <2>3. QED
    BY <1>1, <1>6, <2>1, <2>2, SMT DEF Types, SocketAfterCall, OneConnectionPerClient, Quiet,
      Orderly, Connections, InTurn, InFlight, ConnectFails, CleanupAudio, LetGo
<1>7. ASSUME ~hasty', lost' PROVE Quiet' /\ mediaStream' = None /\ microphones' # {}
  <2>1. ~hasty
    BY <1>7, Zenon DEF ConnectFails, CleanupAudio, LetGo
  <2>2. lost \/ call[a] = "nodes"
    BY <1>7, Zenon DEF ConnectFails, CleanupAudio, LetGo
  <2>3. (lost => Quiet /\ mediaStream = None /\ microphones # {}) /\ (~lost => Orderly)
    BY <2>1, Zenon DEF IInv, Stranded
  <2>4. QED
    BY <1>1, <1>2, <2>1, <2>2, <2>3, SMT DEF Types, SocketAfterCall, OneConnectionPerClient, Quiet, Orderly,
      Connections, Streams, Contexts, InTurn, InFlight, Holds, AtRest, CleanupAudio, LetGo
<1>8. QED
  BY <1>3, <1>4, <1>5, <1>6, <1>7 DEF IInv, IdleQuiet, Stranded

LEMMA UrlReadyKeeps == ASSUME IInv, NEW a \in Calls, UrlReady(a) PROVE IInv'
<1> USE ClientAssumption DEF ClientAssumption, sockVars, audioVars
<1>1. Types /\ SocketAfterCall /\ OneConnectionPerClient
  BY DEF IInv, TypeOK, Types
<1>3. TypeOK'
  <2>1. Types'
    BY <1>1, SMT DEF Types, Over, UrlReady
  <2>2. mode' \in Modes /\ hasty' \in BOOLEAN /\ lost' \in BOOLEAN
    BY Zenon DEF IInv, TypeOK, UrlReady
  <2>3. QED
    BY <2>1, <2>2 DEF Types, TypeOK
<1>4. SocketAfterCall' /\ OneConnectionPerClient'
  BY <1>1, SMT DEF Types, SocketAfterCall, OneConnectionPerClient, InFlight, UrlReady
<1>5. ASSUME ~hasty', ~lost' PROVE Orderly'
  <2>1. ~hasty /\ ~lost
    BY <1>5, Zenon DEF UrlReady
  <2>2. Orderly
    BY <2>1 DEF IInv
  <2>3. Connections'
    BY <1>1, <2>1, <2>2, SMT DEF Types, SocketAfterCall, OneConnectionPerClient, Orderly, Connections,
      Pumps, Streams, Contexts, InTurn, Fresh, InFlight, Holds, AtRest, UrlReady
  <2>4. Pumps'
    BY <1>1, <2>1, <2>2, SMT DEF Types, SocketAfterCall, OneConnectionPerClient, Orderly, Connections,
      Pumps, Streams, Contexts, InTurn, Fresh, InFlight, Holds, AtRest, UrlReady
  <2>5. Streams'
    BY <1>1, <2>1, <2>2, SMT DEF Types, SocketAfterCall, OneConnectionPerClient, Orderly, Connections,
      Pumps, Streams, Contexts, InTurn, Fresh, InFlight, Holds, AtRest, UrlReady
  <2>6. Contexts'
    BY <1>1, <2>1, <2>2, SMT DEF Types, SocketAfterCall, OneConnectionPerClient, Orderly, Connections,
      Pumps, Streams, Contexts, InTurn, Fresh, InFlight, Holds, AtRest, UrlReady
  <2>7. InTurn'
    BY <1>1, <2>1, <2>2, SMT DEF Types, SocketAfterCall, OneConnectionPerClient, Orderly, Connections,
      Pumps, Streams, Contexts, InTurn, Fresh, InFlight, Holds, AtRest, UrlReady
  <2>8. Fresh'
    BY <1>1, <2>1, <2>2, SMT DEF Types, SocketAfterCall, OneConnectionPerClient, Orderly, Connections,
      Pumps, Streams, Contexts, InTurn, Fresh, InFlight, Holds, AtRest, UrlReady
  <2>9. QED
    BY <2>3, <2>4, <2>5, <2>6, <2>7, <2>8 DEF Orderly
<1>6. ASSUME ~hasty', state' = "idle" PROVE Quiet'
  <2>1. ~hasty
    BY <1>6, Zenon DEF UrlReady
  <2>2. (state = "idle" => Quiet) /\ (lost => Quiet) /\ (~lost => Orderly)
    BY <2>1, Zenon DEF IInv, IdleQuiet, Stranded
  <2>3. QED
    BY <1>1, <1>6, <2>1, <2>2, SMT DEF Types, SocketAfterCall, OneConnectionPerClient, Quiet,
      Orderly, Connections, InTurn, InFlight, UrlReady
<1>7. ASSUME ~hasty', lost' PROVE Quiet' /\ mediaStream' = None /\ microphones' # {}
  <2>1. ~hasty
    BY <1>7, Zenon DEF UrlReady
  <2>2. lost
    BY <1>7, Zenon DEF UrlReady
  <2>3. (lost => Quiet /\ mediaStream = None /\ microphones # {}) /\ (~lost => Orderly)
    BY <2>1, Zenon DEF IInv, Stranded
  <2>4. QED
    BY <1>1, <2>1, <2>2, <2>3, SMT DEF Types, SocketAfterCall, OneConnectionPerClient, Quiet, Orderly,
      Connections, Streams, Contexts, InTurn, InFlight, Holds, AtRest, UrlReady
<1>8. QED
  BY <1>3, <1>4, <1>5, <1>6, <1>7 DEF IInv, IdleQuiet, Stranded

LEMMA DisconnectKeeps == ASSUME IInv, Disconnect PROVE IInv'
<1> USE ClientAssumption DEF ClientAssumption, sockVars, audioVars
<1>1. Types /\ SocketAfterCall /\ OneConnectionPerClient
  BY DEF IInv, TypeOK, Types
<1>3. TypeOK'
  <2>1. Types'
    BY <1>1, SMT DEF Types, Over, Disconnect
  <2>2. mode' \in Modes /\ hasty' \in BOOLEAN /\ lost' \in BOOLEAN
    BY Zenon DEF IInv, TypeOK, Disconnect
  <2>3. QED
    BY <2>1, <2>2 DEF Types, TypeOK
<1>4. SocketAfterCall' /\ OneConnectionPerClient'
  BY <1>1, SMT DEF Types, SocketAfterCall, OneConnectionPerClient, InFlight, Disconnect
<1>5. ASSUME ~hasty', ~lost' PROVE Orderly'
  <2>1. ~hasty /\ ~lost /\ \A c \in Calls : ~InFlight(c)
    BY <1>5, Zenon DEF Disconnect
  <2>2. Orderly
    BY <2>1 DEF IInv
  <2>3. Connections'
    BY <1>1, <2>1, <2>2, SMT DEF Types, SocketAfterCall, OneConnectionPerClient, Orderly, Connections,
      Pumps, Streams, Contexts, InTurn, Fresh, InFlight, Holds, AtRest, Disconnect
  <2>4. Pumps'
    BY <1>1, <2>1, <2>2, SMT DEF Types, SocketAfterCall, OneConnectionPerClient, Orderly, Connections,
      Pumps, Streams, Contexts, InTurn, Fresh, InFlight, Holds, AtRest, Disconnect
  <2>5. Streams'
    BY <1>1, <2>1, <2>2, SMT DEF Types, SocketAfterCall, OneConnectionPerClient, Orderly, Connections,
      Pumps, Streams, Contexts, InTurn, Fresh, InFlight, Holds, AtRest, Disconnect
  <2>6. Contexts'
    BY <1>1, <2>1, <2>2, SMT DEF Types, SocketAfterCall, OneConnectionPerClient, Orderly, Connections,
      Pumps, Streams, Contexts, InTurn, Fresh, InFlight, Holds, AtRest, Disconnect
  <2>7. InTurn'
    BY <1>1, <2>1, <2>2, SMT DEF Types, SocketAfterCall, OneConnectionPerClient, Orderly, Connections,
      Pumps, Streams, Contexts, InTurn, Fresh, InFlight, Holds, AtRest, Disconnect
  <2>8. Fresh'
    BY <1>1, <2>1, <2>2, SMT DEF Types, SocketAfterCall, OneConnectionPerClient, Orderly, Connections,
      Pumps, Streams, Contexts, InTurn, Fresh, InFlight, Holds, AtRest, Disconnect
  <2>9. QED
    BY <2>3, <2>4, <2>5, <2>6, <2>7, <2>8 DEF Orderly
<1>6. ASSUME ~hasty', state' = "idle" PROVE Quiet'
  <2>1. ~hasty /\ \A c \in Calls : ~InFlight(c)
    BY <1>6, Zenon DEF Disconnect
  <2>2. (state = "idle" => Quiet) /\ (lost => Quiet) /\ (~lost => Orderly)
    BY <2>1, Zenon DEF IInv, IdleQuiet, Stranded
  <2>3. QED
    BY <1>1, <1>6, <2>1, <2>2, SMT DEF Types, SocketAfterCall, OneConnectionPerClient, Quiet,
      Orderly, Connections, InTurn, InFlight, Disconnect
<1>7. ASSUME ~hasty', lost' PROVE Quiet' /\ mediaStream' = None /\ microphones' # {}
  <2>1. ~hasty /\ \A c \in Calls : ~InFlight(c)
    BY <1>7, Zenon DEF Disconnect
  <2>2. lost
    BY <1>7, Zenon DEF Disconnect
  <2>3. (lost => Quiet /\ mediaStream = None /\ microphones # {}) /\ (~lost => Orderly)
    BY <2>1, Zenon DEF IInv, Stranded
  <2>4. QED
    BY <1>1, <2>1, <2>2, <2>3, SMT DEF Types, SocketAfterCall, OneConnectionPerClient, Quiet, Orderly,
      Connections, Streams, Contexts, InTurn, InFlight, Holds, AtRest, Disconnect
<1>8. QED
  BY <1>3, <1>4, <1>5, <1>6, <1>7 DEF IInv, IdleQuiet, Stranded

LEMMA HangUpKeeps == ASSUME IInv, HangUp PROVE IInv'
<1> USE ClientAssumption DEF ClientAssumption, sockVars, audioVars
<1>1. Types /\ SocketAfterCall /\ OneConnectionPerClient
  BY DEF IInv, TypeOK, Types
<1>3. TypeOK'
  <2>1. Types'
    BY <1>1, SMT DEF Types, Over, HangUp, Dismiss, CleanupAudio, LetGo
  <2>2. mode' \in Modes /\ hasty' \in BOOLEAN /\ lost' \in BOOLEAN
    BY Zenon DEF IInv, TypeOK, HangUp, Dismiss, CleanupAudio, LetGo
  <2>3. QED
    BY <2>1, <2>2 DEF Types, TypeOK
<1>4. SocketAfterCall' /\ OneConnectionPerClient'
  BY <1>1, SMT DEF Types, SocketAfterCall, OneConnectionPerClient, InFlight, HangUp, Dismiss, CleanupAudio, LetGo
<1>5. ASSUME ~hasty', ~lost' PROVE Orderly'
  <2>1. ~hasty /\ ~lost
    BY <1>5, Zenon DEF HangUp, Dismiss, CleanupAudio, LetGo
  <2>2. Orderly
    BY <2>1 DEF IInv
  <2>3. Connections'
    BY <1>1, <2>1, <2>2, SMT DEF Types, SocketAfterCall, OneConnectionPerClient, Orderly, Connections,
      Pumps, Streams, Contexts, InTurn, Fresh, InFlight, Holds, AtRest, HangUp, Dismiss, CleanupAudio, LetGo
  <2>4. Pumps'
    BY <1>1, <2>1, <2>2, SMT DEF Types, SocketAfterCall, OneConnectionPerClient, Orderly, Connections,
      Pumps, Streams, Contexts, InTurn, Fresh, InFlight, Holds, AtRest, HangUp, Dismiss, CleanupAudio, LetGo
  <2>5. Streams'
    BY <1>1, <2>1, <2>2, SMT DEF Types, SocketAfterCall, OneConnectionPerClient, Orderly, Connections,
      Pumps, Streams, Contexts, InTurn, Fresh, InFlight, Holds, AtRest, HangUp, Dismiss, CleanupAudio, LetGo
  <2>6. Contexts'
    BY <1>1, <2>1, <2>2, SMT DEF Types, SocketAfterCall, OneConnectionPerClient, Orderly, Connections,
      Pumps, Streams, Contexts, InTurn, Fresh, InFlight, Holds, AtRest, HangUp, Dismiss, CleanupAudio, LetGo
  <2>7. InTurn'
    BY <1>1, <2>1, <2>2, SMT DEF Types, SocketAfterCall, OneConnectionPerClient, Orderly, Connections,
      Pumps, Streams, Contexts, InTurn, Fresh, InFlight, Holds, AtRest, HangUp, Dismiss, CleanupAudio, LetGo
  <2>8. Fresh'
    BY <1>1, <2>1, <2>2, SMT DEF Types, SocketAfterCall, OneConnectionPerClient, Orderly, Connections,
      Pumps, Streams, Contexts, InTurn, Fresh, InFlight, Holds, AtRest, HangUp, Dismiss, CleanupAudio, LetGo
  <2>9. QED
    BY <2>3, <2>4, <2>5, <2>6, <2>7, <2>8 DEF Orderly
<1>6. ASSUME ~hasty', state' = "idle" PROVE Quiet'
  <2>1. ~hasty
    BY <1>6, Zenon DEF HangUp, Dismiss, CleanupAudio, LetGo
  <2>2. (state = "idle" => Quiet) /\ (lost => Quiet) /\ (~lost => Orderly)
    BY <2>1, Zenon DEF IInv, IdleQuiet, Stranded
  <2>3. QED
    BY <1>1, <1>6, <2>1, <2>2, SMT DEF Types, SocketAfterCall, OneConnectionPerClient, Quiet,
      Orderly, Connections, InTurn, InFlight, HangUp, Dismiss, CleanupAudio, LetGo
<1>7. ASSUME ~hasty', lost' PROVE Quiet' /\ mediaStream' = None /\ microphones' # {}
  <2>1. ~hasty
    BY <1>7, Zenon DEF HangUp, Dismiss, CleanupAudio, LetGo
  <2>2. lost
    BY <1>7, Zenon DEF HangUp, Dismiss, CleanupAudio, LetGo
  <2>3. (lost => Quiet /\ mediaStream = None /\ microphones # {}) /\ (~lost => Orderly)
    BY <2>1, Zenon DEF IInv, Stranded
  <2>4. QED
    BY <1>1, <2>1, <2>2, <2>3, SMT DEF Types, SocketAfterCall, OneConnectionPerClient, Quiet, Orderly,
      Connections, Streams, Contexts, InTurn, InFlight, Holds, AtRest, HangUp, Dismiss, CleanupAudio, LetGo
<1>8. QED
  BY <1>3, <1>4, <1>5, <1>6, <1>7 DEF IInv, IdleQuiet, Stranded

LEMMA DestroyKeeps == ASSUME IInv, Destroy PROVE IInv'
<1> USE ClientAssumption DEF ClientAssumption, sockVars, audioVars
<1>1. Types /\ SocketAfterCall /\ OneConnectionPerClient
  BY DEF IInv, TypeOK, Types
<1>3. TypeOK'
  <2>1. Types'
    BY <1>1, SMT DEF Types, Over, Destroy, Dismiss, CleanupAudio, LetGo
  <2>2. mode' \in Modes /\ hasty' \in BOOLEAN /\ lost' \in BOOLEAN
    BY Zenon DEF IInv, TypeOK, Destroy, Dismiss, CleanupAudio, LetGo
  <2>3. QED
    BY <2>1, <2>2 DEF Types, TypeOK
<1>4. SocketAfterCall' /\ OneConnectionPerClient'
  BY <1>1, SMT DEF Types, SocketAfterCall, OneConnectionPerClient, InFlight, Destroy, Dismiss, CleanupAudio, LetGo
<1>5. ASSUME ~hasty', ~lost' PROVE Orderly'
  <2>1. ~hasty /\ ~lost /\ \A c \in Calls : ~InFlight(c)
    BY <1>5, Zenon DEF Destroy, Dismiss, CleanupAudio, LetGo
  <2>2. Orderly
    BY <2>1 DEF IInv
  <2>3. Connections'
    BY <1>1, <2>1, <2>2, SMT DEF Types, SocketAfterCall, OneConnectionPerClient, Orderly, Connections,
      Pumps, Streams, Contexts, InTurn, Fresh, InFlight, Holds, AtRest, Destroy, Dismiss, CleanupAudio, LetGo
  <2>4. Pumps'
    BY <1>1, <2>1, <2>2, SMT DEF Types, SocketAfterCall, OneConnectionPerClient, Orderly, Connections,
      Pumps, Streams, Contexts, InTurn, Fresh, InFlight, Holds, AtRest, Destroy, Dismiss, CleanupAudio, LetGo
  <2>5. Streams'
    BY <1>1, <2>1, <2>2, SMT DEF Types, SocketAfterCall, OneConnectionPerClient, Orderly, Connections,
      Pumps, Streams, Contexts, InTurn, Fresh, InFlight, Holds, AtRest, Destroy, Dismiss, CleanupAudio, LetGo
  <2>6. Contexts'
    BY <1>1, <2>1, <2>2, SMT DEF Types, SocketAfterCall, OneConnectionPerClient, Orderly, Connections,
      Pumps, Streams, Contexts, InTurn, Fresh, InFlight, Holds, AtRest, Destroy, Dismiss, CleanupAudio, LetGo
  <2>7. InTurn'
    BY <1>1, <2>1, <2>2, SMT DEF Types, SocketAfterCall, OneConnectionPerClient, Orderly, Connections,
      Pumps, Streams, Contexts, InTurn, Fresh, InFlight, Holds, AtRest, Destroy, Dismiss, CleanupAudio, LetGo
  <2>8. Fresh'
    BY <1>1, <2>1, <2>2, SMT DEF Types, SocketAfterCall, OneConnectionPerClient, Orderly, Connections,
      Pumps, Streams, Contexts, InTurn, Fresh, InFlight, Holds, AtRest, Destroy, Dismiss, CleanupAudio, LetGo
  <2>9. QED
    BY <2>3, <2>4, <2>5, <2>6, <2>7, <2>8 DEF Orderly
<1>6. ASSUME ~hasty', state' = "idle" PROVE Quiet'
  <2>1. ~hasty /\ \A c \in Calls : ~InFlight(c)
    BY <1>6, Zenon DEF Destroy, Dismiss, CleanupAudio, LetGo
  <2>2. (state = "idle" => Quiet) /\ (lost => Quiet) /\ (~lost => Orderly)
    BY <2>1, Zenon DEF IInv, IdleQuiet, Stranded
  <2>3. QED
    BY <1>1, <1>6, <2>1, <2>2, SMT DEF Types, SocketAfterCall, OneConnectionPerClient, Quiet,
      Orderly, Connections, InTurn, InFlight, Destroy, Dismiss, CleanupAudio, LetGo
<1>7. ASSUME ~hasty', lost' PROVE Quiet' /\ mediaStream' = None /\ microphones' # {}
  <2>1. ~hasty /\ \A c \in Calls : ~InFlight(c)
    BY <1>7, Zenon DEF Destroy, Dismiss, CleanupAudio, LetGo
  <2>2. lost
    BY <1>7, Zenon DEF Destroy, Dismiss, CleanupAudio, LetGo
  <2>3. (lost => Quiet /\ mediaStream = None /\ microphones # {}) /\ (~lost => Orderly)
    BY <2>1, Zenon DEF IInv, Stranded
  <2>4. QED
    BY <1>1, <2>1, <2>2, <2>3, SMT DEF Types, SocketAfterCall, OneConnectionPerClient, Quiet, Orderly,
      Connections, Streams, Contexts, InTurn, InFlight, Holds, AtRest, Destroy, Dismiss, CleanupAudio, LetGo
<1>8. QED
  BY <1>3, <1>4, <1>5, <1>6, <1>7 DEF IInv, IdleQuiet, Stranded

LEMMA SocketOpensKeeps == ASSUME IInv, NEW a \in Calls, SocketOpens(a) PROVE IInv'
<1> USE ClientAssumption DEF ClientAssumption, sockVars, audioVars
<1>1. Types /\ SocketAfterCall /\ OneConnectionPerClient
  BY DEF IInv, TypeOK, Types
<1>3. TypeOK'
  <2>1. Types'
    BY <1>1, SMT DEF Types, Over, SocketOpens
  <2>2. mode' \in Modes /\ hasty' \in BOOLEAN /\ lost' \in BOOLEAN
    BY Zenon DEF IInv, TypeOK, SocketOpens
  <2>3. QED
    BY <2>1, <2>2 DEF Types, TypeOK
<1>4. SocketAfterCall' /\ OneConnectionPerClient'
  BY <1>1, SMT DEF Types, SocketAfterCall, OneConnectionPerClient, InFlight, SocketOpens
<1>5. ASSUME ~hasty', ~lost' PROVE Orderly'
  <2>1. ~hasty /\ ~lost
    BY <1>5, Zenon DEF SocketOpens
  <2>2. Orderly
    BY <2>1 DEF IInv
  <2>3. Connections'
    BY <1>1, <2>1, <2>2, SMT DEF Types, SocketAfterCall, OneConnectionPerClient, Orderly, Connections,
      Pumps, Streams, Contexts, InTurn, Fresh, InFlight, Holds, AtRest, SocketOpens
  <2>4. Pumps'
    BY <1>1, <2>1, <2>2, SMT DEF Types, SocketAfterCall, OneConnectionPerClient, Orderly, Connections,
      Pumps, Streams, Contexts, InTurn, Fresh, InFlight, Holds, AtRest, SocketOpens
  <2>5. Streams'
    BY <1>1, <2>1, <2>2, SMT DEF Types, SocketAfterCall, OneConnectionPerClient, Orderly, Connections,
      Pumps, Streams, Contexts, InTurn, Fresh, InFlight, Holds, AtRest, SocketOpens
  <2>6. Contexts'
    BY <1>1, <2>1, <2>2, SMT DEF Types, SocketAfterCall, OneConnectionPerClient, Orderly, Connections,
      Pumps, Streams, Contexts, InTurn, Fresh, InFlight, Holds, AtRest, SocketOpens
  <2>7. InTurn'
    BY <1>1, <2>1, <2>2, SMT DEF Types, SocketAfterCall, OneConnectionPerClient, Orderly, Connections,
      Pumps, Streams, Contexts, InTurn, Fresh, InFlight, Holds, AtRest, SocketOpens
  <2>8. Fresh'
    BY <1>1, <2>1, <2>2, SMT DEF Types, SocketAfterCall, OneConnectionPerClient, Orderly, Connections,
      Pumps, Streams, Contexts, InTurn, Fresh, InFlight, Holds, AtRest, SocketOpens
  <2>9. QED
    BY <2>3, <2>4, <2>5, <2>6, <2>7, <2>8 DEF Orderly
<1>6. ASSUME ~hasty', state' = "idle" PROVE Quiet'
  <2>1. ~hasty
    BY <1>6, Zenon DEF SocketOpens
  <2>2. (state = "idle" => Quiet) /\ (lost => Quiet) /\ (~lost => Orderly)
    BY <2>1, Zenon DEF IInv, IdleQuiet, Stranded
  <2>3. QED
    BY <1>1, <1>6, <2>1, <2>2, SMT DEF Types, SocketAfterCall, OneConnectionPerClient, Quiet,
      Orderly, Connections, InTurn, InFlight, SocketOpens
<1>7. ASSUME ~hasty', lost' PROVE Quiet' /\ mediaStream' = None /\ microphones' # {}
  <2>1. ~hasty
    BY <1>7, Zenon DEF SocketOpens
  <2>2. lost
    BY <1>7, Zenon DEF SocketOpens
  <2>3. (lost => Quiet /\ mediaStream = None /\ microphones # {}) /\ (~lost => Orderly)
    BY <2>1, Zenon DEF IInv, Stranded
  <2>4. QED
    BY <1>1, <2>1, <2>2, <2>3, SMT DEF Types, SocketAfterCall, OneConnectionPerClient, Quiet, Orderly,
      Connections, Streams, Contexts, InTurn, InFlight, Holds, AtRest, SocketOpens
<1>8. QED
  BY <1>3, <1>4, <1>5, <1>6, <1>7 DEF IInv, IdleQuiet, Stranded

LEMMA MessageKeeps == ASSUME IInv, NEW a \in Calls, Message(a) PROVE IInv'
<1> USE ClientAssumption DEF ClientAssumption, sockVars, audioVars
<1>1. Types /\ SocketAfterCall /\ OneConnectionPerClient
  BY DEF IInv, TypeOK, Types
<1>3. TypeOK'
  <2>1. Types'
    BY <1>1, SMT DEF Types, Over, Message
  <2>2. mode' \in Modes /\ hasty' \in BOOLEAN /\ lost' \in BOOLEAN
    BY Zenon DEF IInv, TypeOK, Message
  <2>3. QED
    BY <2>1, <2>2 DEF Types, TypeOK
<1>4. SocketAfterCall' /\ OneConnectionPerClient'
  BY <1>1, SMT DEF Types, SocketAfterCall, OneConnectionPerClient, InFlight, Message
<1>5. ASSUME ~hasty', ~lost' PROVE Orderly'
  <2>1. ~hasty /\ ~lost
    BY <1>5, Zenon DEF Message
  <2>2. Orderly
    BY <2>1 DEF IInv
  <2>3. Connections'
    BY <1>1, <2>1, <2>2, SMT DEF Types, SocketAfterCall, OneConnectionPerClient, Orderly, Connections,
      Pumps, Streams, Contexts, InTurn, Fresh, InFlight, Holds, AtRest, Message
  <2>4. Pumps'
    BY <1>1, <2>1, <2>2, SMT DEF Types, SocketAfterCall, OneConnectionPerClient, Orderly, Connections,
      Pumps, Streams, Contexts, InTurn, Fresh, InFlight, Holds, AtRest, Message
  <2>5. Streams'
    BY <1>1, <2>1, <2>2, SMT DEF Types, SocketAfterCall, OneConnectionPerClient, Orderly, Connections,
      Pumps, Streams, Contexts, InTurn, Fresh, InFlight, Holds, AtRest, Message
  <2>6. Contexts'
    BY <1>1, <2>1, <2>2, SMT DEF Types, SocketAfterCall, OneConnectionPerClient, Orderly, Connections,
      Pumps, Streams, Contexts, InTurn, Fresh, InFlight, Holds, AtRest, Message
  <2>7. InTurn'
    BY <1>1, <2>1, <2>2, SMT DEF Types, SocketAfterCall, OneConnectionPerClient, Orderly, Connections,
      Pumps, Streams, Contexts, InTurn, Fresh, InFlight, Holds, AtRest, Message
  <2>8. Fresh'
    BY <1>1, <2>1, <2>2, SMT DEF Types, SocketAfterCall, OneConnectionPerClient, Orderly, Connections,
      Pumps, Streams, Contexts, InTurn, Fresh, InFlight, Holds, AtRest, Message
  <2>9. QED
    BY <2>3, <2>4, <2>5, <2>6, <2>7, <2>8 DEF Orderly
<1>6. ASSUME ~hasty', state' = "idle" PROVE Quiet'
  <2>1. ~hasty
    BY <1>6, Zenon DEF Message
  <2>2. (state = "idle" => Quiet) /\ (lost => Quiet) /\ (~lost => Orderly)
    BY <2>1, Zenon DEF IInv, IdleQuiet, Stranded
  <2>3. QED
    BY <1>1, <1>6, <2>1, <2>2, SMT DEF Types, SocketAfterCall, OneConnectionPerClient, Quiet,
      Orderly, Connections, InTurn, InFlight, Message
<1>7. ASSUME ~hasty', lost' PROVE Quiet' /\ mediaStream' = None /\ microphones' # {}
  <2>1. ~hasty
    BY <1>7, Zenon DEF Message
  <2>2. lost
    BY <1>7, Zenon DEF Message
  <2>3. (lost => Quiet /\ mediaStream = None /\ microphones # {}) /\ (~lost => Orderly)
    BY <2>1, Zenon DEF IInv, Stranded
  <2>4. QED
    BY <1>1, <2>1, <2>2, <2>3, SMT DEF Types, SocketAfterCall, OneConnectionPerClient, Quiet, Orderly,
      Connections, Streams, Contexts, InTurn, InFlight, Holds, AtRest, Message
<1>8. QED
  BY <1>3, <1>4, <1>5, <1>6, <1>7 DEF IInv, IdleQuiet, Stranded

LEMMA SocketClosesKeeps == ASSUME IInv, NEW a \in Calls, SocketCloses(a) PROVE IInv'
<1> USE ClientAssumption DEF ClientAssumption, sockVars, audioVars
<1>1. Types /\ SocketAfterCall /\ OneConnectionPerClient
  BY DEF IInv, TypeOK, Types
<1>2. /\ UNCHANGED <<call, wsClient, dismissed, audioVars, hangUps>>
      /\ sock[a] # "none"
      /\ sock' = [sock EXCEPT ![a] = "none"]
      /\ timer' = timer \/ (timer' = timer \cup {a} /\ a \notin dismissed)
  BY Zenon DEF SocketCloses, AttemptReconnect, InFlight
<1>3. TypeOK'
  <2>1. Types'
    BY <1>1, SMT DEF Types, Over, SocketCloses, AttemptReconnect
  <2>2. mode' \in Modes /\ hasty' \in BOOLEAN /\ lost' \in BOOLEAN
    BY Zenon DEF IInv, TypeOK, SocketCloses, AttemptReconnect
  <2>3. QED
    BY <2>1, <2>2 DEF Types, TypeOK
<1>4. SocketAfterCall' /\ OneConnectionPerClient'
  BY <1>1, <1>2, SMT DEF Types, SocketAfterCall, OneConnectionPerClient, InFlight
<1>5. ASSUME ~hasty', ~lost' PROVE Orderly'
  <2>1. ~hasty /\ ~lost
    BY <1>5, Zenon DEF SocketCloses, AttemptReconnect
  <2>2. Orderly
    BY <2>1 DEF IInv
  <2>3. Connections'
    BY <1>1, <1>2, <2>1, <2>2, SMT DEF Types, SocketAfterCall, OneConnectionPerClient, Orderly, Connections,
      Pumps, Streams, Contexts, InTurn, Fresh, InFlight, Holds, AtRest
  <2>4. Pumps'
    BY <1>1, <1>2, <2>1, <2>2, SMT DEF Types, SocketAfterCall, OneConnectionPerClient, Orderly, Connections,
      Pumps, Streams, Contexts, InTurn, Fresh, InFlight, Holds, AtRest
  <2>5. Streams'
    BY <1>1, <1>2, <2>1, <2>2, SMT DEF Types, SocketAfterCall, OneConnectionPerClient, Orderly, Connections,
      Pumps, Streams, Contexts, InTurn, Fresh, InFlight, Holds, AtRest
  <2>6. Contexts'
    BY <1>1, <1>2, <2>1, <2>2, SMT DEF Types, SocketAfterCall, OneConnectionPerClient, Orderly, Connections,
      Pumps, Streams, Contexts, InTurn, Fresh, InFlight, Holds, AtRest
  <2>7. InTurn'
    BY <1>1, <1>2, <2>1, <2>2, SMT DEF Types, SocketAfterCall, OneConnectionPerClient, Orderly, Connections,
      Pumps, Streams, Contexts, InTurn, Fresh, InFlight, Holds, AtRest
  <2>8. Fresh'
    BY <1>1, <1>2, <2>1, <2>2, SMT DEF Types, SocketAfterCall, OneConnectionPerClient, Orderly, Connections,
      Pumps, Streams, Contexts, InTurn, Fresh, InFlight, Holds, AtRest
  <2>9. QED
    BY <2>3, <2>4, <2>5, <2>6, <2>7, <2>8 DEF Orderly
<1>6. ASSUME ~hasty', state' = "idle" PROVE Quiet'
  <2>1. ~hasty
    BY <1>6, Zenon DEF SocketCloses, AttemptReconnect
  <2>2. (state = "idle" => Quiet) /\ (lost => Quiet) /\ (~lost => Orderly)
    BY <2>1, Zenon DEF IInv, IdleQuiet, Stranded
  <2>3. QED
    BY <1>1, <1>6, <2>1, <2>2, SMT DEF Types, SocketAfterCall, OneConnectionPerClient, Quiet,
      Orderly, Connections, InTurn, InFlight, SocketCloses, AttemptReconnect
<1>7. ASSUME ~hasty', lost' PROVE Quiet' /\ mediaStream' = None /\ microphones' # {}
  <2>1. ~hasty
    BY <1>7, Zenon DEF SocketCloses, AttemptReconnect
  <2>2. lost
    BY <1>7, Zenon DEF SocketCloses, AttemptReconnect
  <2>3. (lost => Quiet /\ mediaStream = None /\ microphones # {}) /\ (~lost => Orderly)
    BY <2>1, Zenon DEF IInv, Stranded
  <2>4. QED
    BY <1>1, <1>2, <2>1, <2>2, <2>3, SMT DEF Types, SocketAfterCall, OneConnectionPerClient, Quiet, Orderly,
      Connections, Streams, Contexts, InTurn, InFlight, Holds, AtRest
<1>8. QED
  BY <1>3, <1>4, <1>5, <1>6, <1>7 DEF IInv, IdleQuiet, Stranded

LEMMA ReconnectKeeps == ASSUME IInv, NEW a \in Calls, Reconnect(a) PROVE IInv'
<1> USE ClientAssumption DEF ClientAssumption, sockVars, audioVars
<1>1. Types /\ SocketAfterCall /\ OneConnectionPerClient
  BY DEF IInv, TypeOK, Types
<1>3. TypeOK'
  <2>1. Types'
    BY <1>1, SMT DEF Types, Over, Reconnect
  <2>2. mode' \in Modes /\ hasty' \in BOOLEAN /\ lost' \in BOOLEAN
    BY Zenon DEF IInv, TypeOK, Reconnect
  <2>3. QED
    BY <2>1, <2>2 DEF Types, TypeOK
<1>4. SocketAfterCall' /\ OneConnectionPerClient'
  BY <1>1, SMT DEF Types, SocketAfterCall, OneConnectionPerClient, InFlight, Reconnect
<1>5. ASSUME ~hasty', ~lost' PROVE Orderly'
  <2>1. ~hasty /\ ~lost
    BY <1>5, Zenon DEF Reconnect
  <2>2. Orderly
    BY <2>1 DEF IInv
  <2>3. Connections'
    BY <1>1, <2>1, <2>2, SMT DEF Types, SocketAfterCall, OneConnectionPerClient, Orderly, Connections,
      Pumps, Streams, Contexts, InTurn, Fresh, InFlight, Holds, AtRest, Reconnect
  <2>4. Pumps'
    BY <1>1, <2>1, <2>2, SMT DEF Types, SocketAfterCall, OneConnectionPerClient, Orderly, Connections,
      Pumps, Streams, Contexts, InTurn, Fresh, InFlight, Holds, AtRest, Reconnect
  <2>5. Streams'
    BY <1>1, <2>1, <2>2, SMT DEF Types, SocketAfterCall, OneConnectionPerClient, Orderly, Connections,
      Pumps, Streams, Contexts, InTurn, Fresh, InFlight, Holds, AtRest, Reconnect
  <2>6. Contexts'
    BY <1>1, <2>1, <2>2, SMT DEF Types, SocketAfterCall, OneConnectionPerClient, Orderly, Connections,
      Pumps, Streams, Contexts, InTurn, Fresh, InFlight, Holds, AtRest, Reconnect
  <2>7. InTurn'
    BY <1>1, <2>1, <2>2, SMT DEF Types, SocketAfterCall, OneConnectionPerClient, Orderly, Connections,
      Pumps, Streams, Contexts, InTurn, Fresh, InFlight, Holds, AtRest, Reconnect
  <2>8. Fresh'
    BY <1>1, <2>1, <2>2, SMT DEF Types, SocketAfterCall, OneConnectionPerClient, Orderly, Connections,
      Pumps, Streams, Contexts, InTurn, Fresh, InFlight, Holds, AtRest, Reconnect
  <2>9. QED
    BY <2>3, <2>4, <2>5, <2>6, <2>7, <2>8 DEF Orderly
<1>6. ASSUME ~hasty', state' = "idle" PROVE Quiet'
  <2>1. ~hasty
    BY <1>6, Zenon DEF Reconnect
  <2>2. (state = "idle" => Quiet) /\ (lost => Quiet) /\ (~lost => Orderly)
    BY <2>1, Zenon DEF IInv, IdleQuiet, Stranded
  <2>3. QED
    BY <1>1, <1>6, <2>1, <2>2, SMT DEF Types, SocketAfterCall, OneConnectionPerClient, Quiet,
      Orderly, Connections, InTurn, InFlight, Reconnect
<1>7. ASSUME ~hasty', lost' PROVE Quiet' /\ mediaStream' = None /\ microphones' # {}
  <2>1. ~hasty
    BY <1>7, Zenon DEF Reconnect
  <2>2. lost
    BY <1>7, Zenon DEF Reconnect
  <2>3. (lost => Quiet /\ mediaStream = None /\ microphones # {}) /\ (~lost => Orderly)
    BY <2>1, Zenon DEF IInv, Stranded
  <2>4. QED
    BY <1>1, <2>1, <2>2, <2>3, SMT DEF Types, SocketAfterCall, OneConnectionPerClient, Quiet, Orderly,
      Connections, Streams, Contexts, InTurn, InFlight, Holds, AtRest, Reconnect
<1>8. QED
  BY <1>3, <1>4, <1>5, <1>6, <1>7 DEF IInv, IdleQuiet, Stranded

-----------------------------------------------------------------------------
LEMMA StutterKeeps == ASSUME IInv, UNCHANGED vars PROVE IInv'
BY DEF vars, sockVars, audioVars, IInv, TypeOK, SocketAfterCall, OneConnectionPerClient, Orderly,
  Connections, Pumps, Streams, Contexts, InTurn, Fresh, InFlight, Holds, IdleQuiet, Stranded, Quiet

LEMMA StepKeeps == IInv /\ [Next]_vars => IInv'
<1> SUFFICES ASSUME IInv, [Next]_vars PROVE IInv'
  OBVIOUS
<1>1. CASE Host
  BY <1>1, UnsupportedKeeps, DisconnectKeeps, HangUpKeeps, DestroyKeeps DEF Host
<1>2. ASSUME NEW c \in Calls, Audio(c) PROVE IInv'
  BY <1>2, ConnectKeeps, StreamGrantedKeeps, NodesReadyKeeps, ConnectFailsKeeps, UrlReadyKeeps,
    ContextClosedKeeps DEF Audio
<1>3. ASSUME NEW c \in Calls, Socket(c) PROVE IInv'
  BY <1>3, SocketOpensKeeps, MessageKeeps, SocketClosesKeeps, ReconnectKeeps DEF Socket
<1>4. CASE UNCHANGED vars
  BY <1>4, StutterKeeps
<1>5. QED
  BY <1>1, <1>2, <1>3, <1>4 DEF Next

LEMMA Invariant == Spec => []IInv
<1>1. Init => IInv
  BY Initially
<1>2. IInv /\ [Next]_vars => IInv'
  BY StepKeeps
<1>3. QED
  BY <1>1, <1>2, PTL DEF Spec

\* Every variable keeps its type.
THEOREM ClientTypes == Spec => []TypeOK
<1>1. IInv => TypeOK
  BY DEF IInv
<1>2. QED
  BY <1>1, Invariant, PTL

\* No client waits to reconnect while it has a socket or after it was
\* disconnected, however the host's calls and the socket's events interleave.
THEOREM OneConnectionAlways == Spec => []OneConnectionPerClient
<1>1. IInv => OneConnectionPerClient
  BY DEF IInv
<1>2. QED
  BY <1>1, Invariant, PTL

\* A host that waits for what it started is left with nothing after a hang-up.
THEOREM ReleasedAlways == Spec => []ReleasedAfterHangUp
<1>1. IInv => ReleasedAfterHangUp
  <2> SUFFICES ASSUME IInv, ~hasty, ~lost, wsClient = None, hangUps = 0,
                      \A c \in Calls : ~InFlight(c) /\ context[c] # "closing"
               PROVE  AtRest
    BY DEF ReleasedAfterHangUp
  <2>1. Types /\ Orderly
    BY DEF IInv, TypeOK, Types
  <2>2. QED
    BY <2>1, ClientAssumption, SMT DEF ClientAssumption, Types, Orderly, Connections, Pumps, Streams, Contexts,
      AtRest, Holds, InFlight
<1>2. QED
  BY <1>1, Invariant, PTL

\* The snapshot of a session that was hung up stays idle until the next connect().
THEOREM IdleAlways == Spec => IdleUntilConnect
<1>1. ASSUME IInv, [Next]_vars, state = "idle", ~hasty, \A c \in Calls : sock[c] # "failing"
      PROVE  state' \in {"idle", "connecting"} \/ mode = "unsupported"
  <2>1. Types /\ SocketAfterCall /\ Quiet
    BY <1>1, Zenon DEF IInv, TypeOK, Types, IdleQuiet
  <2>2. CASE Host
    BY <1>1, <2>2, Zenon DEF Host, Unsupported, Disconnect, HangUp, Destroy
  <2>3. ASSUME NEW c \in Calls, Audio(c) PROVE state' \in {"idle", "connecting"}
    BY <1>1, <2>1, <2>3, Zenon DEF Quiet, InFlight, Audio, Connect, StreamGranted, NodesReady,
      ConnectFails, UrlReady, ContextClosed
  <2>4. ASSUME NEW c \in Calls, Socket(c) PROVE state' \in {"idle", "connecting"}
    <3>1. sock[c] \in {"none", "closing"} /\ c \notin timer
      BY <1>1, <2>1, SMT DEF Types, Quiet
    <3>2. CASE SocketCloses(c)
      <4>1. sock[c] = "closing"
        BY <3>1, <3>2 DEF SocketCloses
      <4>2. QED
        BY <1>1, <3>2, <4>1, Zenon DEF SocketCloses
    <3>3. QED
      BY <2>4, <3>1, <3>2, SMT DEF Socket, SocketOpens, Message, Reconnect
  <2>5. CASE UNCHANGED vars
    BY <1>1, <2>5 DEF vars
  <2>6. QED
    BY <1>1, <2>2, <2>3, <2>4, <2>5 DEF Next
<1>2. IInv /\ [Next]_vars => 
        [state = "idle" /\ ~hasty /\ (\A c \in Calls : sock[c] # "failing")
           => state' \in {"idle", "connecting"} \/ mode = "unsupported"]_vars
  BY <1>1
<1>3. QED
  BY <1>2, Invariant, PTL DEF Spec, IdleUntilConnect
=============================================================================
