------------------------- MODULE BrowserVoiceProofs -------------------------
(***************************************************************************)
(* While the host lets every start finish before it goes on, and its       *)
(* bridge and sessions do not fail, a closed socket leaves nothing behind, *)
(* one session is connected at a time and the client knows what there is,  *)
(* for any number of starts and any overlap of endSession() calls; and     *)
(* whatever fails, a session reported as ended is released.                *)
(***************************************************************************)
EXTENDS BrowserVoiceService, TLAPS, FiniteSetTheorems

\* The types of what the argument needs.
Types ==
  /\ socket \in {"open", "closed"}
  /\ entry \in Starts \cup {NoSession}
  /\ starter \in [Starts -> StarterPhase]
  /\ link \in [Starts -> {"none", "created", "connecting", "up", "down", "failed"}]
  /\ bridge \in [Starts -> {"none", "idle", "streaming", "stopped"}]
  /\ ender \in [Ends -> EnderPhase]
  /\ ends \in [Ends -> Starts \cup {NoSession}]

\* At most one start is at work, and not while an end is.
OneAtWork ==
  /\ \A s, t \in StartsAtWork : s = t
  /\ \A s \in StartsAtWork, e \in Ends : e \notin EndsAtWork

\* Who holds what: a session that was started is in the entry or released, any
\* other one is released unless it is being started.
HeldBy(s) ==
  /\ starter[s] \in {"creating", "initing"} => entry = NoSession
  /\ starter[s] \in {"starting", "bridging"} => entry = s
  /\ starter[s] = "stopping" => entry \in {s, NoSession}
  /\ starter[s] = "started" => entry = s \/ Released(s)
  /\ starter[s] \in {"new", "refused", "creating", "initing", "stopping", "failed"}
       => Released(s)
  /\ link[s] = "connecting" => starter[s] = "starting"

Held ==
  /\ \A s \in Starts : HeldBy(s)
  /\ entry # NoSession => starter[entry] \in {"starting", "bridging", "stopping", "started"}

\* An end works on a session that was started and whose bridge is stopped; the
\* entry is of that session or gone.
Ending ==
  \A e \in EndsAtWork :
    /\ ends[e] \in Starts
    /\ starter[ends[e]] = "started"
    /\ bridge[ends[e]] = "stopped"
    /\ entry \in {ends[e], NoSession}
    /\ ender[e] = "ending" => Released(ends[e])

\* On a closed socket nothing starts, and the entry is in the hands of an end.
Closing ==
  socket = "closed" => /\ StartsAtWork = {}
                       /\ entry = NoSession \/ EndsAtWork # {}

IInv == Types /\ OneAtWork /\ Held /\ Ending /\ Closing

LEMMA InitIInv ==
  ASSUME Init PROVE IInv
<1>1. Types
  BY DEF Init, Types, StarterPhase, EnderPhase
<1>2. StartsAtWork = {} /\ EndsAtWork = {}
  BY DEF Init, StartsAtWork, EndsAtWork
<1> QED
  BY <1>1, <1>2 DEF Init, IInv, OneAtWork, Held, HeldBy, Ending, Closing, Released

\* A step of a start, which has the socket for itself.
LEMMA StartStepIInv ==
  ASSUME IInv, Orderly', ServiceAssumption, NEW s \in Starts,
         Refuse(s) \/ StartSession(s) \/ StartStep(s)
  PROVE  IInv'
<1> USE DEF IInv
<1>1. UNCHANGED <<socket, ender, ends>>
  BY DEF Refuse, StartSession, StartStep, Created, Inited, SessionStarted,
     BridgeStarted, StartFails, GiveUp, enderVars
<1>2. Types'
  BY DEF Types, Refuse, StartSession, StartStep, Created, Inited, SessionStarted,
     BridgeStarted, StartFails, GiveUp, enderVars, StarterMoves, LinkMoves, Bridge,
     StarterPhase
<1>3. EndsAtWork = {} /\ EndsAtWork' = {}
  BY <1>1 DEF OneAtWork, Refuse, StartSession, StartStep, Created, Inited,
     SessionStarted, BridgeStarted, StartFails, GiveUp, StarterMoves, StartsAtWork,
     EndsAtWork, Orderly, CutsIn, Rejects, Quiet
<1>4. StartsAtWork \subseteq {s}
  BY DEF OneAtWork, Refuse, StartSession, StartStep, Created, Inited,
     SessionStarted, BridgeStarted, StartFails, GiveUp, StarterMoves, StartsAtWork,
     Orderly, CutsIn, Rejects, Quiet
<1>5. \A t \in Starts \ {s} : starter'[t] = starter[t] /\ link'[t] = link[t]
                                /\ bridge'[t] = bridge[t]
  BY DEF Types, Refuse, StartSession, StartStep, Created, Inited, SessionStarted,
     BridgeStarted, StartFails, GiveUp, StarterMoves, LinkMoves, Bridge
<1>6. StartsAtWork' \subseteq {s}
  BY <1>4, <1>5 DEF StartsAtWork
<1>7. socket = "open"
  BY DEF Closing, Refuse, StartSession, StartStep, Created, Inited, SessionStarted,
     BridgeStarted, StartFails, GiveUp, StarterMoves, StartsAtWork, Types
<1>8. Held'
  <2>1. ASSUME NEW t \in Starts, t # s
        PROVE  HeldBy(t)'
    <3>1. starter[t] \in {"new", "refused", "started", "failed"}
      BY <2>1, <1>4 DEF StartsAtWork, Types, StarterPhase
    <3>2. entry = t => entry' = t
      BY <2>1 DEF StartStep, Refuse, StartSession, Created, Inited, SessionStarted,
         BridgeStarted, StartFails, GiveUp, Held, HeldBy, StarterMoves, Orderly, CutsIn, Rejects,
         ServiceAssumption
    <3> QED
      BY <2>1, <3>1, <3>2, <1>5 DEF Held, HeldBy, Released
  <2>2. HeldBy(s)'
    <3>1. CASE Refuse(s)
      BY <3>1 DEF Refuse, StarterMoves, Held, HeldBy, Released, Types, enderVars
    <3>2. CASE StartSession(s)
      BY <3>2 DEF StartSession, StarterMoves, Bridge, Held, HeldBy, Released, Types
    <3>3. CASE Created(s)
      BY <3>3 DEF Created, StarterMoves, Held, HeldBy, Released, Types
    <3>4. CASE Inited(s)
      BY <3>4 DEF Inited, StarterMoves, LinkMoves, Held, HeldBy, Types
    <3>5. CASE SessionStarted(s)
      BY <3>5 DEF SessionStarted, StarterMoves, LinkMoves, Held, HeldBy, Types
    <3>6. CASE BridgeStarted(s)
      BY <3>6 DEF BridgeStarted, StarterMoves, Held, HeldBy, Types
    <3>7. CASE StartFails(s)
      BY <3>7 DEF StartFails, StarterMoves, LinkMoves, Bridge, Held, HeldBy, Released, Types,
         Orderly, CutsIn, Rejects
    <3>8. CASE GiveUp(s)
      BY <3>8 DEF GiveUp, StarterMoves, Held, HeldBy, Released, Types
    <3> QED
      BY <3>1, <3>2, <3>3, <3>4, <3>5, <3>6, <3>7, <3>8 DEF StartStep
  <2>3. entry' # NoSession =>
          starter'[entry'] \in {"starting", "bridging", "stopping", "started"}
    BY DEF Types, Held, HeldBy, Refuse, StartSession, StartStep, Created, Inited,
       SessionStarted, BridgeStarted, StartFails, GiveUp, StarterMoves, Orderly, CutsIn, Rejects,
       ServiceAssumption
  <2> QED
    BY <2>1, <2>2, <2>3 DEF Held
<1> QED
  BY <1>1, <1>2, <1>3, <1>6, <1>7, <1>8 DEF OneAtWork, Ending, Closing

\* endSession() up to its first await, by a message, an event or shutdown().
LEMMA EndSessionIInv ==
  ASSUME IInv, Orderly', ServiceAssumption, NEW e \in Ends,
         EndRequested(e) \/ Close(e)
  PROVE  IInv'
<1> USE DEF IInv
<1>1. EndSession(e) /\ StartsAtWork = {} /\ socket' \in {"open", "closed"}
  BY DEF EndRequested, Close, Orderly, CutsIn, Rejects, Types
<1>2. UNCHANGED <<entry, starter, link>>
  BY <1>1 DEF EndSession
<1>3. StartsAtWork' = {}
  BY <1>1, <1>2 DEF StartsAtWork
<1>4. CASE entry = NoSession
  <2>1. ender' = [ender EXCEPT ![e] = "done"] /\ ends' = ends /\ bridge' = bridge
    BY <1>1, <1>4 DEF EndSession
  <2>2. EndsAtWork' \subseteq EndsAtWork /\ \A f \in EndsAtWork' : ender'[f] = ender[f]
    BY <2>1 DEF EndsAtWork, Types
  <2>3. Types'
    BY <1>1, <1>2, <2>1 DEF Types, EnderPhase
  <2> QED
    BY <1>2, <1>3, <1>4, <2>1, <2>2, <2>3 DEF OneAtWork, Held, HeldBy, Ending, Closing, Released
<1>5. CASE entry # NoSession
  <2>1. /\ ender' = [ender EXCEPT ![e] = "stopping"]
        /\ ends' = [ends EXCEPT ![e] = entry]
        /\ bridge' = [bridge EXCEPT ![entry] = "stopped"]
        /\ entry \in Starts
    BY <1>1, <1>5 DEF EndSession, Bridge, Types
  <2>2. Types'
    BY <1>1, <1>2, <2>1 DEF Types, EnderPhase
  <2>3. starter[entry] = "started"
    BY <1>1, <1>5, <2>1 DEF StartsAtWork, Types, StarterPhase, Held, HeldBy
  <2>4. e \in EndsAtWork'
    BY <2>1 DEF EndsAtWork, Types
  <2>5. Held'
    BY <1>2, <2>1 DEF Held, HeldBy, Released, Types
  <2>6. Ending'
    <3> SUFFICES ASSUME NEW f \in EndsAtWork'
                 PROVE  /\ ends'[f] \in Starts
                        /\ starter'[ends'[f]] = "started"
                        /\ bridge'[ends'[f]] = "stopped"
                        /\ entry' \in {ends'[f], NoSession}
                        /\ ender'[f] = "ending" => Released(ends[f])'
      BY DEF Ending
    <3>1. CASE f = e
      BY <1>2, <2>1, <2>3, <3>1 DEF EndsAtWork, Types
    <3>2. CASE f # e
      <4>1. f \in EndsAtWork /\ ender'[f] = ender[f] /\ ends'[f] = ends[f]
        BY <2>1, <3>2 DEF EndsAtWork, Types
      <4> QED
        BY <1>2, <2>1, <4>1 DEF Ending, Types, Released
    <3> QED
      BY <3>1, <3>2
  <2> QED
    BY <1>2, <1>3, <2>2, <2>4, <2>5, <2>6 DEF OneAtWork, Closing
<1> QED
  BY <1>4, <1>5

\* endSession() after its awaits; nothing it does rejects.
LEMMA EndStepIInv ==
  ASSUME IInv, Orderly', ServiceAssumption, NEW e \in Ends, EndStep(e)
  PROVE  IInv'
<1> USE DEF IInv
<1>1. BridgeStopped(e) \/ SessionEnded(e)
  BY DEF EndStep, BridgeNotStopped, SessionNotEnded, Orderly, CutsIn, Rejects
<1>2. e \in EndsAtWork /\ UNCHANGED <<socket, starter, bridge, ends>>
  BY <1>1 DEF BridgeStopped, SessionEnded, EnderMoves, EndsAtWork
<1>3. StartsAtWork = {} /\ StartsAtWork' = {}
  BY <1>2 DEF OneAtWork, StartsAtWork
<1>4. /\ ends[e] \in Starts
      /\ starter[ends[e]] = "started"
      /\ bridge[ends[e]] = "stopped"
      /\ entry \in {ends[e], NoSession}
  BY <1>2 DEF Ending
<1>5. CASE BridgeStopped(e)
  <2>1. /\ ender' = [ender EXCEPT ![e] = "ending"]
        /\ link' = [link EXCEPT ![ends[e]] = AfterEnd(link[ends[e]])]
        /\ entry' = entry
    BY <1>5 DEF BridgeStopped, EnderMoves
  <2>2. link'[ends[e]] \notin {"connecting", "up"}
    BY <1>4, <2>1 DEF Held, HeldBy, Types, AfterEnd
  <2>3. \A s \in Starts : s # ends[e] => link'[s] = link[s]
    BY <2>1 DEF Types
  <2>4. \A f \in Ends : f # e => ender'[f] = ender[f]
    BY <2>1 DEF Types
  <2>5. EndsAtWork' = EndsAtWork
    BY <1>2, <2>1, <2>4 DEF EndsAtWork, Types
  <2>6. Types'
    BY <1>2, <1>4, <2>1 DEF Types, EnderPhase, AfterEnd
  <2>7. Released(ends[e])'
    BY <1>2, <1>4, <2>2 DEF Released
  <2>8. Held'
    BY <1>2, <1>4, <2>1, <2>2, <2>3, <2>7 DEF Held, HeldBy, Released
  <2>9. Ending'
    BY <1>2, <2>1, <2>3, <2>4, <2>5, <2>7 DEF Ending, Released
  <2> QED
    BY <1>2, <1>3, <2>1, <2>5, <2>6, <2>8, <2>9 DEF OneAtWork, Closing
<1>6. CASE SessionEnded(e)
  <2>1. /\ ender' = [ender EXCEPT ![e] = "done"]
        /\ link' = link
        /\ entry' = NoSession
        /\ ender[e] = "ending"
    BY <1>6 DEF SessionEnded, EnderMoves
  <2>2. EndsAtWork' \subseteq EndsAtWork /\ \A f \in EndsAtWork' : ender'[f] = ender[f]
    BY <2>1 DEF EndsAtWork, Types
  <2>3. Types'
    BY <1>2, <2>1 DEF Types, EnderPhase
  <2>4. Released(ends[e])
    BY <1>2, <2>1 DEF Ending
  <2>5. Held'
    BY <1>2, <1>3, <1>4, <2>1, <2>4 DEF Held, HeldBy, Released, StartsAtWork
  <2>6. Ending'
    BY <1>2, <2>1, <2>2 DEF Ending, Released
  <2> QED
    BY <1>2, <1>3, <2>1, <2>3, <2>5, <2>6 DEF OneAtWork, Closing
<1> QED
  BY <1>1, <1>5, <1>6

\* The loss of a connection releases more, and touches nothing else.
LEMMA DroppedIInv ==
  ASSUME IInv, NEW s \in Starts, Dropped(s)
  PROVE  IInv'
<1> USE DEF IInv
<1>1. /\ UNCHANGED <<socket, entry, starter, bridge, ender, ends>>
      /\ link' = [link EXCEPT ![s] = "down"]
  BY DEF Dropped, LinkMoves, enderVars
<1>2. Types'
  BY <1>1 DEF Types
<1>3. \A t \in Starts : (Released(t) => Released(t)') /\ link'[t] \in {link[t], "down"}
  BY <1>1 DEF Types, Released
<1>4. StartsAtWork' = StartsAtWork /\ EndsAtWork' = EndsAtWork
  BY <1>1 DEF StartsAtWork, EndsAtWork
<1>5. Held'
  BY <1>1, <1>3 DEF Held, HeldBy
<1>6. Ending'
  BY <1>1, <1>3, <1>4 DEF Ending
<1> QED
  BY <1>1, <1>2, <1>4, <1>5, <1>6 DEF OneAtWork, Closing

-----------------------------------------------------------------------------
\* What the client was told last, while its socket is open.
Told ==
  socket = "open" =>
    (told = "started" <=> entry # NoSession /\ starter[entry] = "started")

\* An entry is of a bridge that streams, of a start that goes on, or in the
\* hands of an end: whichever end finishes deletes it.
Fresh ==
  entry # NoSession =>
    \/ bridge[entry] = "streaming"
    \/ starter[entry] \in {"starting", "stopping"}
    \/ EndsAtWork # {}

\* What holds of any host, of one whose bridges stop, and of an orderly one.
Inv ==
  /\ Types
  /\ cutIn \in BOOLEAN
  /\ "bridge.stop" \notin failed => Fresh
  /\ Orderly => IInv /\ Told

LEMMA TypesStep ==
  ASSUME Types, ServiceAssumption, [Next]_vars
  PROVE  Types'
<1> USE DEF Types
<1>1. CASE UNCHANGED vars
  BY <1>1 DEF vars
<1>2. ASSUME NEW s \in Starts, Refuse(s) \/ StartSession(s) \/ StartStep(s) \/ Dropped(s)
      PROVE  Types'
  BY <1>2 DEF Refuse, StartSession, StartStep, Created, Inited, SessionStarted,
     BridgeStarted, StartFails, GiveUp, Dropped, enderVars, StarterMoves, LinkMoves,
     Bridge, StarterPhase
<1>3. ASSUME NEW e \in Ends, EndRequested(e) \/ Close(e)
      PROVE  Types'
  <2>1. EndSession(e) /\ socket' \in {"open", "closed"}
    BY <1>3 DEF EndRequested, Close
  <2> QED
    BY <2>1 DEF EndSession, Bridge, EnderPhase
<1>4. ASSUME NEW e \in Ends, EndStep(e)
      PROVE  Types'
  BY <1>4 DEF EndStep, BridgeStopped, BridgeNotStopped, SessionEnded, SessionNotEnded,
     EnderMoves, AfterEnd, EnderPhase
<1> QED
  BY <1>1, <1>2, <1>3, <1>4 DEF Next

LEMMA FreshStep ==
  ASSUME Types, ServiceAssumption, [Next]_vars, "bridge.stop" \notin failed', Fresh
  PROVE  Fresh'
<1> USE DEF Fresh, Types
<1>1. CASE UNCHANGED vars
  BY <1>1 DEF vars, EndsAtWork
<1>2. ASSUME NEW s \in Starts, Refuse(s) \/ StartSession(s) \/ StartStep(s) \/ Dropped(s)
      PROVE  Fresh'
  <2>1. EndsAtWork' = EndsAtWork
    BY <1>2 DEF Refuse, StartSession, StartStep, Created, Inited, SessionStarted,
       BridgeStarted, StartFails, GiveUp, Dropped, enderVars, EndsAtWork
  <2> QED
    BY <1>2, <2>1 DEF Refuse, StartSession, StartStep, Created, Inited, SessionStarted,
       BridgeStarted, StartFails, GiveUp, Dropped, Rejects, StarterMoves, LinkMoves, Bridge,
       ServiceAssumption
<1>3. ASSUME NEW e \in Ends, EndRequested(e) \/ Close(e)
      PROVE  Fresh'
  <2>1. EndSession(e)
    BY <1>3 DEF EndRequested, Close
  <2>2. CASE entry = NoSession
    BY <2>1, <2>2 DEF EndSession
  <2>3. CASE entry # NoSession
    <3>1. ender' = [ender EXCEPT ![e] = "stopping"]
      BY <2>1, <2>3 DEF EndSession
    <3>2. e \in EndsAtWork'
      BY <3>1 DEF EndsAtWork
    <3> QED
      BY <3>2
  <2> QED
    BY <2>2, <2>3
<1>4. ASSUME NEW e \in Ends, EndStep(e)
      PROVE  Fresh'
  <2>1. CASE BridgeStopped(e)
    <3>1. e \in EndsAtWork'
      BY <2>1 DEF BridgeStopped, EnderMoves, EndsAtWork
    <3> QED
      BY <3>1
  <2> QED
    BY <1>4, <2>1 DEF EndStep, BridgeNotStopped, SessionEnded, SessionNotEnded
<1> QED
  BY <1>1, <1>2, <1>3, <1>4 DEF Next

LEMMA ToldStep ==
  ASSUME IInv, Told, Orderly', ServiceAssumption, [Next]_vars
  PROVE  Told'
<1> USE DEF Told, IInv
<1>1. CASE UNCHANGED vars
  BY <1>1 DEF vars
<1>2. ASSUME NEW s \in Starts, Dropped(s)
      PROVE  Told'
  BY <1>2 DEF Dropped
<1>3. ASSUME NEW s \in Starts, Refuse(s) \/ StartSession(s) \/ StartStep(s)
      PROVE  Told'
  <2>1. CASE Refuse(s) \/ StartSession(s)
    BY <2>1 DEF Refuse, StartSession, StarterMoves, Types, Held, ServiceAssumption
  <2>2. CASE StartStep(s)
    <3>1. s \in StartsAtWork
      BY <2>2 DEF StartStep, Created, Inited, SessionStarted, BridgeStarted, StartFails,
         GiveUp, StarterMoves, StartsAtWork
    <3>2. starter[s] # "started" /\ entry \in {s, NoSession} /\ told # "started"
          /\ socket = "open"
      BY <3>1 DEF StartsAtWork, Held, HeldBy, Closing, Types
    <3> QED
      BY <2>2, <3>2 DEF StartStep, Created, Inited, SessionStarted, BridgeStarted,
         StartFails, GiveUp, StarterMoves, Tell, Orderly, Rejects, Types, Held, HeldBy,
         ServiceAssumption
  <2> QED
    BY <1>3, <2>1, <2>2
<1>4. ASSUME NEW e \in Ends, EndRequested(e) \/ Close(e)
      PROVE  Told'
  BY <1>4 DEF EndRequested, Close, EndSession
<1>5. ASSUME NEW e \in Ends, EndStep(e)
      PROVE  Told'
  <2>1. BridgeStopped(e) \/ SessionEnded(e)
    BY <1>5 DEF EndStep, BridgeNotStopped, SessionNotEnded, Orderly, Rejects
  <2> QED
    BY <2>1 DEF BridgeStopped, SessionEnded, Tell
<1> QED
  BY <1>1, <1>2, <1>3, <1>4, <1>5 DEF Next

LEMMA InitInv ==
  ASSUME Init, ServiceAssumption PROVE Inv
BY InitIInv DEF Init, Inv, IInv, Fresh, Told, ServiceAssumption

\* cutIn and failed only grow.
LEMMA StaysDisorderly ==
  ASSUME cutIn \in BOOLEAN, [Next]_vars
  PROVE  /\ Orderly' => Orderly
         /\ failed \subseteq failed'
         /\ cutIn' \in BOOLEAN
         /\ cutIn => cutIn'
<1>1. failed \subseteq failed'
  <2>1. ASSUME NEW s \in Starts, Refuse(s) \/ StartSession(s) \/ StartStep(s) \/ Dropped(s)
        PROVE  failed \subseteq failed'
    BY <2>1 DEF Refuse, StartSession, StartStep, Created, Inited, SessionStarted,
       BridgeStarted, StartFails, GiveUp, Dropped, Rejects
  <2>2. ASSUME NEW e \in Ends, EndRequested(e) \/ Close(e) \/ EndStep(e)
        PROVE  failed \subseteq failed'
    BY <2>2 DEF EndRequested, Close, EndSession, EndStep, BridgeStopped, BridgeNotStopped,
       SessionEnded, SessionNotEnded, Rejects
  <2> QED
    BY <2>1, <2>2 DEF Next, vars
<1>2. cutIn' = cutIn \/ cutIn' = TRUE
  <2>1. ASSUME NEW s \in Starts, Refuse(s) \/ StartSession(s) \/ StartStep(s) \/ Dropped(s)
        PROVE  cutIn' = cutIn \/ cutIn' = TRUE
    BY <2>1 DEF Refuse, StartSession, StartStep, Created, Inited, SessionStarted,
       BridgeStarted, StartFails, GiveUp, Dropped, CutsIn
  <2>2. ASSUME NEW e \in Ends, EndRequested(e) \/ Close(e) \/ EndStep(e)
        PROVE  cutIn' = cutIn \/ cutIn' = TRUE
    BY <2>2 DEF EndRequested, Close, EndStep, BridgeStopped, BridgeNotStopped,
       SessionEnded, SessionNotEnded, CutsIn
  <2> QED
    BY <2>1, <2>2 DEF Next, vars
<1> QED
  BY <1>1, <1>2 DEF Orderly

LEMMA NextInv ==
  ASSUME ServiceAssumption, Inv, [Next]_vars
  PROVE  Inv'
<1>1. Types'
  BY TypesStep DEF Inv
<1>2. "bridge.stop" \notin failed' => Fresh'
  BY FreshStep, StaysDisorderly DEF Inv
<1>3. Orderly' => Told'
  BY ToldStep, StaysDisorderly DEF Inv
<1>4. Orderly' => IInv'
  <2> SUFFICES ASSUME Orderly' PROVE IInv'
    OBVIOUS
  <2>1. IInv
    BY StaysDisorderly DEF Inv
  <2>2. CASE UNCHANGED vars
    BY <2>1, <2>2 DEF vars, IInv, Types, OneAtWork, Held, HeldBy, Ending, Closing,
       Released, StartsAtWork, EndsAtWork
  <2> QED
    BY <2>1, <2>2, StartStepIInv, EndSessionIInv, EndStepIInv, DroppedIInv DEF Next
<1> QED
  BY <1>1, <1>2, <1>3, <1>4, StaysDisorderly DEF Inv

LEMMA AlwaysInv == Spec => []Inv
<1>1. Init => Inv
  BY InitInv, ServiceAssumption
<1>2. Inv /\ [Next]_vars => Inv'
  BY NextInv, ServiceAssumption
<1> QED
  BY <1>1, <1>2, PTL DEF Spec

\* With a host that lets every start finish, and a bridge and sessions that do
\* not fail, a closed socket leaves no entry, no stream and no connection once
\* the service is quiet, for any number of sessions the socket had and any
\* number of endSession() calls that overlap.
THEOREM ReleasedAlways == Spec => []AllReleased
<1>1. Inv => AllReleased
  <2> SUFFICES ASSUME Inv, Orderly, socket = "closed", Quiet
               PROVE  entry = NoSession /\ \A s \in Starts : Released(s)
    BY DEF AllReleased
  <2>1. IInv
    BY DEF Inv
  <2>2. entry = NoSession
    BY <2>1 DEF IInv, Closing, Quiet
  <2>3. \A s \in Starts : Released(s)
    BY <2>1, <2>2, ServiceAssumption DEF IInv, Held, HeldBy, Types, StarterPhase, Quiet,
       StartsAtWork, ServiceAssumption
  <2> QED
    BY <2>2, <2>3
<1> QED
  BY <1>1, AlwaysInv, PTL

\* With such a host a socket never has two connected sessions, whatever the
\* number of starts: the session that is up is the one of the entry.
THEOREM OneSessionAlways == Spec => []OneSessionPerSocket
<1>1. Inv => OneSessionPerSocket
  <2> SUFFICES ASSUME Inv, Orderly, NEW s \in Starts, link[s] = "up"
               PROVE  entry = s
    BY DEF OneSessionPerSocket
  <2>1. IInv
    BY DEF Inv
  <2>2. ~Released(s)
    BY DEF Released
  <2> QED
    BY <2>1, <2>2 DEF IInv, Held, HeldBy, Types, StarterPhase
<1> QED
  BY <1>1, AlwaysInv, PTL

\* With such a host the client of an open socket was told last what there is.
THEOREM ClientAlwaysAgrees == Spec => []ClientAgrees
<1>1. Inv => ClientAgrees
  <2> SUFFICES ASSUME Inv, Orderly, socket = "open", Quiet
               PROVE  told = "started" <=> entry # NoSession
    BY DEF ClientAgrees
  <2>1. IInv /\ Told
    BY DEF Inv
  <2>2. entry # NoSession => starter[entry] = "started"
    BY <2>1 DEF IInv, Held, Types, Quiet, StartsAtWork
  <2> QED
    BY <2>1, <2>2 DEF Told
<1> QED
  BY <1>1, AlwaysInv, PTL

\* Whatever the host does and whatever else fails, as long as bridges stop no
\* entry of a bridge that was stopped stays behind.
THEOREM NeverStaleEntry == Spec => []NoStaleEntry
<1>1. Inv => NoStaleEntry
  <2> SUFFICES ASSUME Inv, "bridge.stop" \notin failed, Quiet, entry # NoSession
               PROVE  bridge[entry] = "streaming"
    BY DEF NoStaleEntry
  <2>1. Fresh /\ entry \in Starts
    BY DEF Inv, Types
  <2> QED
    BY <2>1 DEF Fresh, Quiet, StartsAtWork
<1> QED
  BY <1>1, AlwaysInv, PTL

-----------------------------------------------------------------------------
\* What an end reports, although bridges and sessions may fail.

Over(s) == starter[s] \in {"started", "failed"}

\* A connection is made by the handler of its start, and the entry by a start
\* that has gone on.
Begun ==
  /\ \A s \in Starts : link[s] = "connecting" => starter[s] = "starting"
  /\ entry # NoSession =>
       starter[entry] \in {"starting", "bridging", "stopping"} \/ Over(entry)

\* An end works on a session whose start is over and whose bridge is stopped.
EndsOver ==
  \A e \in EndsAtWork :
    /\ ends[e] \in Starts
    /\ Over(ends[e])
    /\ bridge[ends[e]] = "stopped"
    /\ ender[e] = "ending" => Released(ends[e])

ReportedOver ==
  \A s \in Starts :
    reported[s] > 0 => Over(s) /\ Released(s) /\ bridge[s] = "stopped"

\* Of any host, and of one that ends no session while it starts.
Base == Types /\ reported \in [Starts -> Nat] /\ Begun
EndsMeetOver == EndsOver /\ ReportedOver

RInv ==
  /\ Base
  /\ cutIn \in BOOLEAN
  /\ ~cutIn => EndsMeetOver

\* A start that is over stays over and released, and its bridge stopped,
\* whatever another start does and whoever drops its connection.
LEMMA OverStays ==
  ASSUME Types, NEW s \in Starts,
         Refuse(s) \/ StartSession(s) \/ StartStep(s) \/ Dropped(s),
         NEW t \in Starts, Over(t)
  PROVE  /\ Over(t)'
         /\ bridge[t] = "stopped" => bridge'[t] = "stopped"
         /\ Released(t) => Released(t)'
<1>1. CASE s # t
  BY <1>1 DEF Types, Refuse, StartSession, StartStep, Created, Inited, SessionStarted,
     BridgeStarted, StartFails, GiveUp, Dropped, StarterMoves, LinkMoves, Bridge, Over,
     Released
<1>2. CASE s = t
  <2>1. Dropped(s)
    BY <1>2 DEF Refuse, StartSession, StartStep, Created, Inited, SessionStarted,
       BridgeStarted, StartFails, GiveUp, StarterMoves, Over
  <2> QED
    BY <2>1 DEF Dropped, LinkMoves, Types, Over, Released
<1> QED
  BY <1>1, <1>2

LEMMA StartBase ==
  ASSUME Base, ServiceAssumption, NEW s \in Starts,
         Refuse(s) \/ StartSession(s) \/ StartStep(s) \/ Dropped(s)
  PROVE  /\ reported' \in [Starts -> Nat]
         /\ Begun'
         /\ EndsMeetOver => EndsMeetOver'
<1> USE DEF Base
<1>1. UNCHANGED <<ender, ends, reported>>
  BY DEF Refuse, StartSession, StartStep, Created, Inited, SessionStarted,
     BridgeStarted, StartFails, GiveUp, Dropped, enderVars
<1>2. Begun'
  <2>1. \A t \in Starts : link'[t] = "connecting" => starter'[t] = "starting"
    BY DEF Begun, Types, Refuse, StartSession, StartStep, Created, Inited, SessionStarted,
       BridgeStarted, StartFails, GiveUp, Dropped, StarterMoves, LinkMoves
  <2>2. entry' # NoSession =>
          starter'[entry'] \in {"starting", "bridging", "stopping", "started", "failed"}
    BY DEF Begun, Over, Types, Refuse, StartSession, StartStep, Created, Inited,
       SessionStarted, BridgeStarted, StartFails, GiveUp, Dropped, StarterMoves,
       ServiceAssumption
  <2> QED
    BY <2>1, <2>2 DEF Begun, Over
<1>3. ASSUME EndsMeetOver PROVE EndsMeetOver'
  <2>1. EndsOver /\ ReportedOver
    BY <1>3 DEF EndsMeetOver
  <2>2. EndsAtWork' = EndsAtWork
    BY <1>1 DEF EndsAtWork
  <2>3. EndsOver'
    BY <1>1, <2>1, <2>2, OverStays DEF EndsOver
  <2>4. ReportedOver'
    BY <1>1, <2>1, OverStays DEF ReportedOver
  <2> QED
    BY <2>3, <2>4 DEF EndsMeetOver
<1> QED
  BY <1>1, <1>2, <1>3

LEMMA EndSessionBase ==
  ASSUME Base, ServiceAssumption, NEW e \in Ends, EndRequested(e) \/ Close(e)
  PROVE  /\ reported' \in [Starts -> Nat]
         /\ Begun'
         /\ EndsMeetOver /\ (entry # NoSession => Over(entry)) => EndsMeetOver'
<1> USE DEF Base
<1>1. EndSession(e)
  BY DEF EndRequested, Close
<1>2. UNCHANGED <<entry, starter, link, reported>>
  BY <1>1 DEF EndSession
<1>3. Begun'
  BY <1>2 DEF Begun, Over
<1>4. ASSUME EndsMeetOver, entry # NoSession => Over(entry) PROVE EndsMeetOver'
  <2>1. EndsOver /\ ReportedOver
    BY <1>4 DEF EndsMeetOver
  <2>2. \A t \in Starts : /\ bridge[t] = "stopped" => bridge'[t] = "stopped"
                          /\ Released(t) => Released(t)'
    BY <1>1, <1>2 DEF EndSession, Bridge, Types, Released
  <2>3. ReportedOver'
    BY <1>2, <2>1, <2>2 DEF ReportedOver, Over
  <2>4. ASSUME NEW f \in EndsAtWork'
        PROVE  /\ ends'[f] \in Starts
               /\ Over(ends[f])'
               /\ bridge'[ends'[f]] = "stopped"
               /\ ender'[f] = "ending" => Released(ends[f])'
    <3>1. CASE f = e
      <4>1. /\ entry \in Starts
            /\ ender'[e] = "stopping"
            /\ ends'[e] = entry
            /\ bridge'[entry] = "stopped"
        BY <1>1, <2>4, <3>1 DEF EndSession, EndsAtWork, Bridge, Types
      <4>2. Over(entry)
        BY <1>4, <4>1, ServiceAssumption DEF ServiceAssumption
      <4> QED
        BY <1>2, <3>1, <4>1, <4>2 DEF Over
    <3>2. CASE f # e
      <4>1. f \in EndsAtWork /\ ender'[f] = ender[f] /\ ends'[f] = ends[f]
        BY <1>1, <2>4, <3>2 DEF EndSession, EndsAtWork, Types
      <4> QED
        BY <1>2, <2>1, <2>2, <4>1 DEF EndsOver, Over
    <3> QED
      BY <3>1, <3>2
  <2> QED
    BY <2>3, <2>4 DEF EndsOver, EndsMeetOver
<1> QED
  BY <1>2, <1>3, <1>4

LEMMA EndStepBase ==
  ASSUME Base, ServiceAssumption, NEW e \in Ends, EndStep(e)
  PROVE  /\ reported' \in [Starts -> Nat]
         /\ Begun'
         /\ EndsMeetOver => EndsMeetOver'
<1> USE DEF Base
<1>1. /\ UNCHANGED <<starter, bridge, ends, cutIn>>
      /\ entry' \in {entry, NoSession}
      /\ e \in EndsAtWork
  BY DEF EndStep, BridgeStopped, BridgeNotStopped, SessionEnded, SessionNotEnded,
     EnderMoves, EndsAtWork
<1>2. \A t \in Starts : /\ link'[t] = "connecting" => link[t] = "connecting"
                        /\ Released(t) => Released(t)'
  BY <1>1 DEF EndStep, BridgeStopped, BridgeNotStopped, SessionEnded, SessionNotEnded,
     AfterEnd, Types, Released
<1>3. Begun'
  BY <1>1, <1>2 DEF Begun, Over
<1>4. reported' \in [Starts -> Nat]
  BY DEF EndStep, BridgeStopped, BridgeNotStopped, SessionEnded, SessionNotEnded
<1>5. ASSUME EndsMeetOver PROVE EndsMeetOver'
  <2>1. EndsOver /\ ReportedOver
    BY <1>5 DEF EndsMeetOver
  <2>2. ends[e] \in Starts /\ Over(ends[e]) /\ bridge[ends[e]] = "stopped"
    BY <1>1, <2>1 DEF EndsOver
  <2>3. ASSUME NEW f \in EndsAtWork'
        PROVE  /\ ends'[f] \in Starts
               /\ Over(ends[f])'
               /\ bridge'[ends'[f]] = "stopped"
               /\ ender'[f] = "ending" => Released(ends[f])'
    <3>1. CASE f = e
      <4>1. BridgeStopped(e)
        BY <2>3, <3>1 DEF EndStep, BridgeNotStopped, SessionEnded, SessionNotEnded,
           EnderMoves, EndsAtWork, Types
      <4>2. link[ends[e]] # "connecting"
        BY <2>2 DEF Begun, Over
      <4>3. Released(ends[e])'
        BY <1>1, <2>2, <4>1, <4>2 DEF BridgeStopped, AfterEnd, Released, Types
      <4> QED
        BY <1>1, <2>2, <3>1, <4>3 DEF Over
    <3>2. CASE f # e
      <4>1. f \in EndsAtWork /\ ender'[f] = ender[f]
        BY <2>3, <3>2 DEF EndStep, BridgeStopped, BridgeNotStopped, SessionEnded,
           SessionNotEnded, EnderMoves, EndsAtWork, Types
      <4> QED
        BY <1>1, <1>2, <2>1, <4>1 DEF EndsOver, Over
    <3> QED
      BY <3>1, <3>2
  <2>4. ASSUME NEW s \in Starts, reported'[s] > 0
        PROVE  (Over(s) /\ Released(s))' /\ bridge'[s] = "stopped"
    <3>1. CASE reported[s] > 0
      BY <1>1, <1>2, <2>1, <3>1 DEF ReportedOver, Over
    <3>2. CASE ~(reported[s] > 0)
      <4>1. SessionEnded(e) /\ s = ends[e]
        BY <2>4, <3>2 DEF EndStep, BridgeStopped, BridgeNotStopped, SessionEnded,
           SessionNotEnded
      <4>2. Released(s)
        BY <1>1, <2>1, <4>1 DEF SessionEnded, EnderMoves, EndsOver
      <4> QED
        BY <1>1, <1>2, <2>2, <4>1, <4>2 DEF Over
    <3> QED
      BY <3>1, <3>2
  <2> QED
    BY <2>3, <2>4 DEF EndsOver, ReportedOver, EndsMeetOver
<1> QED
  BY <1>3, <1>4, <1>5

LEMMA NextBase ==
  ASSUME ServiceAssumption, Base, [Next]_vars
  PROVE  /\ Base'
         /\ EndsMeetOver => EndsMeetOver' \/ \E e \in Ends :
              /\ EndRequested(e) \/ Close(e)
              /\ entry # NoSession /\ ~Over(entry)
<1>1. Types'
  BY TypesStep DEF Base
<1>2. CASE UNCHANGED vars
  BY <1>2 DEF vars, Base, Types, Begun, Over, EndsMeetOver, EndsOver, ReportedOver, Released,
     EndsAtWork
<1>3. CASE \E s \in Starts :
             Refuse(s) \/ StartSession(s) \/ StartStep(s) \/ Dropped(s)
  BY <1>1, <1>3, StartBase DEF Base
<1>4. CASE \E e \in Ends : EndRequested(e) \/ Close(e)
  BY <1>1, <1>4, EndSessionBase DEF Base
<1>5. CASE \E e \in Ends : EndStep(e)
  BY <1>1, <1>5, EndStepBase DEF Base
<1> QED
  BY <1>2, <1>3, <1>4, <1>5 DEF Next

LEMMA NextRInv ==
  ASSUME ServiceAssumption, RInv, [Next]_vars
  PROVE  RInv'
<1>1. cutIn' \in BOOLEAN /\ (~cutIn' => ~cutIn)
  BY StaysDisorderly DEF RInv, Base
<1>2. ASSUME ~cutIn', NEW e \in Ends, EndRequested(e) \/ Close(e), entry # NoSession
      PROVE  Over(entry)
  <2>1. StartsAtWork = {}
    BY <1>2 DEF EndRequested, Close, CutsIn
  <2> QED
    BY <1>2, <2>1 DEF RInv, Base, Types, Begun, StartsAtWork
<1> QED
  BY <1>1, <1>2, NextBase DEF RInv

LEMMA InitRInv ==
  ASSUME Init PROVE Base /\ EndsMeetOver /\ cutIn \in BOOLEAN
<1>1. Types /\ EndsAtWork = {}
  BY DEF Init, Types, StarterPhase, EnderPhase, EndsAtWork
<1>2. reported \in [Starts -> Nat] /\ cutIn \in BOOLEAN
  BY DEF Init
<1>3. Begun
  BY DEF Init, Begun
<1>4. EndsOver /\ ReportedOver
  BY <1>1 DEF Init, EndsOver, ReportedOver
<1> QED
  BY <1>1, <1>2, <1>3, <1>4 DEF Base, EndsMeetOver

\* Whichever operation of a bridge or a session fails, a session the host was
\* told has ended is released, if no end cut into a start and no start into an
\* end; any number of ends may overlap.
THEOREM ReportedAlways == Spec => []ReportedReleased
<1>1. Init => RInv
  BY InitRInv DEF RInv
<1>2. RInv /\ [Next]_vars => RInv'
  BY NextRInv, ServiceAssumption
<1>3. RInv => ReportedReleased
  BY DEF RInv, EndsMeetOver, ReportedOver, ReportedReleased
<1> QED
  BY <1>1, <1>2, <1>3, PTL DEF Spec

\* Every end finds a session whose start is over, or none.
EndAfterStart ==
  \A e \in Ends : ender[e] = "new" /\ ender'[e] = "stopping" => Over(entry)

\* The bridge of a session that was reported as ended is stopped for good, if
\* no end finds a session that is still starting: that is the one discipline
\* the claim needs.  Starts may overlap each other and the ends, and any
\* operation may fail.
THEOREM EndStopsBridge == Spec /\ [][EndAfterStart]_vars => []BridgeStopsAtEnd
<1>1. Init => Base /\ EndsMeetOver
  BY InitRInv
<1>2. Base /\ EndsMeetOver /\ [Next]_vars /\ [EndAfterStart]_vars => (Base /\ EndsMeetOver)'
  <2> SUFFICES ASSUME Base, EndsMeetOver, [Next]_vars, [EndAfterStart]_vars
               PROVE  Base' /\ EndsMeetOver'
    OBVIOUS
  <2>1. ASSUME NEW e \in Ends, EndRequested(e) \/ Close(e), entry # NoSession
        PROVE  Over(entry)
    <3>1. ender[e] = "new" /\ ender' = [ender EXCEPT ![e] = "stopping"]
      BY <2>1 DEF EndRequested, Close, EndSession
    <3>2. ender'[e] = "stopping" /\ ender' # ender
      BY <3>1 DEF Base, Types
    <3> QED
      BY <3>1, <3>2 DEF EndAfterStart, vars
  <2> QED
    BY <2>1, NextBase, ServiceAssumption
<1>3. Base /\ EndsMeetOver => BridgeStopsAtEnd
  BY DEF EndsMeetOver, ReportedOver, BridgeStopsAtEnd
<1> QED
  BY <1>1, <1>2, <1>3, PTL DEF Spec

-----------------------------------------------------------------------------
\* The connection of each session.

\* What a session that is not made yet has of a connection is what one that
\* was made has before start(): none.
Phase(s) == IF link[s] = "none" THEN "created" ELSE link[s]

Link(s) == INSTANCE VoiceLink WITH phase <- Phase(s)

\* A session is made once, by the handler that waits for it.
MadeOnce == \A s \in Starts : starter[s] \in {"new", "creating"} => link[s] = "none"

LInv == Types /\ MadeOnce

LEMMA NextLInv ==
  ASSUME ServiceAssumption, LInv, [Next]_vars
  PROVE  LInv' /\ \A s \in Starts : [Link(s)!Next]_(Phase(s))
<1> USE DEF LInv
<1>1. Types'
  BY TypesStep
<1>2. CASE UNCHANGED vars
  BY <1>1, <1>2 DEF vars, MadeOnce, Phase
<1>3. ASSUME NEW s \in Starts, Refuse(s) \/ StartSession(s) \/ StartStep(s) \/ Dropped(s)
      PROVE  MadeOnce' /\ \A t \in Starts : [Link(t)!Next]_(Phase(t))
  <2>1. \A t \in Starts \ {s} : starter'[t] = starter[t] /\ link'[t] = link[t]
    BY <1>3 DEF Types, Refuse, StartSession, StartStep, Created, Inited, SessionStarted,
       BridgeStarted, StartFails, GiveUp, Dropped, StarterMoves, LinkMoves
  <2>2. starter'[s] \in {"new", "creating"} => link'[s] = "none"
    BY <1>3 DEF Types, MadeOnce, Refuse, StartSession, StartStep, Created, Inited,
       SessionStarted, BridgeStarted, StartFails, GiveUp, Dropped, StarterMoves, LinkMoves
  <2>3. \/ link'[s] = link[s]
        \/ link[s] = "none" /\ link'[s] = "created"
        \/ link[s] = "created" /\ link'[s] = "connecting"
        \/ link[s] = "connecting" /\ link'[s] \in {"up", "failed"}
        \/ link[s] = "up" /\ link'[s] = "down"
    BY <1>3 DEF Types, MadeOnce, Refuse, StartSession, StartStep, Created, Inited,
       SessionStarted, BridgeStarted, StartFails, GiveUp, Dropped, StarterMoves, LinkMoves
  <2>4. [Link(s)!Next]_(Phase(s))
    BY <2>3 DEF Phase, Link!Next, Link!Begin, Link!Up, Link!Refuse, Link!Down
  <2> QED
    BY <2>1, <2>2, <2>4 DEF MadeOnce, Phase
<1>4. ASSUME NEW e \in Ends, EndRequested(e) \/ Close(e)
      PROVE  MadeOnce' /\ \A t \in Starts : [Link(t)!Next]_(Phase(t))
  BY <1>4 DEF EndRequested, Close, EndSession, MadeOnce, Phase
<1>5. ASSUME NEW e \in Ends, EndStep(e)
      PROVE  MadeOnce' /\ \A t \in Starts : [Link(t)!Next]_(Phase(t))
  <2>1. /\ starter' = starter
        /\ \A t \in Starts : link'[t] = link[t] \/ (link[t] = "up" /\ link'[t] = "down")
    BY <1>5 DEF EndStep, BridgeStopped, BridgeNotStopped, SessionEnded, SessionNotEnded,
       AfterEnd, Types
  <2> QED
    BY <2>1 DEF MadeOnce, Phase, Link!Next, Link!Down
<1> QED
  BY <1>1, <1>2, <1>3, <1>4, <1>5 DEF Next

\* In the service, which calls start() once per session, the connection of every
\* session implements the abstract one, as that of each start() of VoiceSession
\* does: it never comes back, whichever starts and ends overlap and whatever
\* fails.
THEOREM LinksImplementVoiceLink ==
  ASSUME NEW s \in Starts
  PROVE  Spec => Link(s)!Spec
<1>1. Init => LInv /\ Link(s)!Init
  BY DEF Init, LInv, Types, MadeOnce, StarterPhase, EnderPhase, Phase, Link!Init
<1>2. LInv /\ [Next]_vars => LInv' /\ [Link(s)!Next]_(Phase(s))
  BY NextLInv, ServiceAssumption
<1> QED
  BY <1>1, <1>2, PTL DEF Spec, Link!Spec

-----------------------------------------------------------------------------
\* The types, and the number of reports.

\* The ends of a session that are over.
EndsOf(s) == {e \in Ends : ender[e] = "done" /\ ends[e] = s}

TInv ==
  /\ Types
  /\ told \in {"nothing", "started", "ended", "error"}
  /\ cutIn \in BOOLEAN
  /\ failed \subseteq Failing
  /\ reported \in [Starts -> Nat]
  /\ \A s \in Starts : reported[s] <= Cardinality(EndsOf(s))

\* Each session is reported at most once by every end that is over.
LEMMA CountStep ==
  ASSUME TInv, ServiceAssumption, [Next]_vars
  PROVE  /\ reported' \in [Starts -> Nat]
         /\ \A s \in Starts : reported'[s] <= Cardinality(EndsOf(s)')
<1> USE DEF TInv, Types
<1>1. \A s \in Starts : /\ IsFiniteSet(EndsOf(s)) /\ IsFiniteSet(EndsOf(s)')
                        /\ Cardinality(EndsOf(s)) \in Nat
                        /\ Cardinality(EndsOf(s)') \in Nat
  BY FS_Subset, FS_CardinalityType DEF EndsOf, ServiceAssumption
<1>2. ASSUME reported' = reported, \A s \in Starts : EndsOf(s) \subseteq EndsOf(s)'
      PROVE  \A s \in Starts : reported'[s] <= Cardinality(EndsOf(s)')
  <2> SUFFICES ASSUME NEW s \in Starts PROVE reported[s] <= Cardinality(EndsOf(s)')
    BY <1>2
  <2>1. Cardinality(EndsOf(s)) <= Cardinality(EndsOf(s)')
    BY <1>1, <1>2, FS_Subset
  <2> QED
    BY <1>1, <2>1
<1>3. CASE UNCHANGED vars
  BY <1>2, <1>3 DEF vars, EndsOf
<1>4. CASE \E s \in Starts :
             Refuse(s) \/ StartSession(s) \/ StartStep(s) \/ Dropped(s)
  <2>1. UNCHANGED enderVars
    BY <1>4 DEF Refuse, StartSession, StartStep, Created, Inited, SessionStarted,
       BridgeStarted, StartFails, GiveUp, Dropped
  <2> QED
    BY <1>2, <2>1 DEF enderVars, EndsOf
<1>5. CASE \E e \in Ends : EndRequested(e) \/ Close(e)
  <2>1. PICK e \in Ends : EndSession(e)
    BY <1>5 DEF EndRequested, Close
  <2> QED
    BY <1>2, <2>1 DEF EndSession, EndsOf
<1>6. CASE \E e \in Ends : EndStep(e)
  <2>1. PICK e \in Ends : EndStep(e)
    BY <1>6
  <2>2. CASE ~SessionEnded(e)
    BY <1>2, <2>1, <2>2 DEF EndStep, BridgeStopped, BridgeNotStopped, SessionNotEnded,
       EnderMoves, EndsOf
  <2>3. CASE SessionEnded(e)
    <3>1. /\ ender[e] = "ending"
          /\ ender' = [ender EXCEPT ![e] = "done"]
          /\ ends' = ends
          /\ reported' = [reported EXCEPT ![ends[e]] = @ + 1]
      BY <2>3 DEF SessionEnded, EnderMoves
    <3>2. ASSUME NEW s \in Starts
          PROVE  reported'[s] <= Cardinality(EndsOf(s)')
      <4>1. CASE s # ends[e]
        <5>1. EndsOf(s)' = EndsOf(s) /\ reported'[s] = reported[s]
          BY <3>1, <4>1 DEF EndsOf
        <5> QED
          BY <5>1
      <4>2. CASE s = ends[e]
        <5>1. EndsOf(s)' = EndsOf(s) \cup {e} /\ e \notin EndsOf(s)
          BY <3>1, <4>2 DEF EndsOf
        <5>2. Cardinality(EndsOf(s)') = Cardinality(EndsOf(s)) + 1
          BY <1>1, <5>1, FS_AddElement
        <5>3. reported'[s] = reported[s] + 1
          BY <3>1, <4>2
        <5> QED
          BY <1>1, <5>2, <5>3
      <4> QED
        BY <4>1, <4>2
    <3>3. reported' \in [Starts -> Nat]
      BY <3>1, \A n \in Nat : n + 1 \in Nat
    <3> QED
      BY <3>2, <3>3
  <2> QED
    BY <2>2, <2>3
<1> QED
  BY <1>3, <1>4, <1>5, <1>6 DEF Next

LEMMA NextTInv ==
  ASSUME ServiceAssumption, TInv, [Next]_vars
  PROVE  TInv'
<1>1. Types' /\ cutIn' \in BOOLEAN
  BY TypesStep, StaysDisorderly DEF TInv
<1>2. /\ told' \in {"nothing", "started", "ended", "error"}
      /\ failed' \subseteq Failing
  <2> USE DEF TInv
  <2>1. CASE UNCHANGED vars
    BY <2>1 DEF vars
  <2>2. ASSUME NEW s \in Starts, Refuse(s) \/ StartSession(s) \/ StartStep(s) \/ Dropped(s)
        PROVE  /\ told' \in {"nothing", "started", "ended", "error"}
               /\ failed' \subseteq Failing
    BY <2>2 DEF Refuse, StartSession, StartStep, Created, Inited, SessionStarted,
       BridgeStarted, StartFails, GiveUp, Dropped, Tell, Rejects
  <2>3. ASSUME NEW e \in Ends, EndRequested(e) \/ Close(e) \/ EndStep(e)
        PROVE  /\ told' \in {"nothing", "started", "ended", "error"}
               /\ failed' \subseteq Failing
    BY <2>3 DEF EndRequested, Close, EndSession, EndStep, BridgeStopped, BridgeNotStopped,
       SessionEnded, SessionNotEnded, Tell, Rejects
  <2> QED
    BY <2>1, <2>2, <2>3 DEF Next
<1> QED
  BY <1>1, <1>2, CountStep DEF TInv

\* The service is well typed, and reports a session at most as often as it was
\* ended, for any number of starts and ends.
THEOREM TypeCorrect == Spec => []TypeOK
<1>1. Init => TInv
  <2> SUFFICES ASSUME Init PROVE TInv
    OBVIOUS
  <2>1. \A s \in Starts : EndsOf(s) = {}
    BY DEF Init, EndsOf
  <2>2. \A s \in Starts : reported[s] <= Cardinality(EndsOf(s))
    BY <2>1, FS_EmptySet DEF Init
  <2> QED
    BY <2>2 DEF Init, TInv, Types, StarterPhase, EnderPhase
<1>2. TInv /\ [Next]_vars => TInv'
  BY NextTInv, ServiceAssumption
<1>3. TInv => TypeOK
  <2> SUFFICES ASSUME TInv, NEW s \in Starts
               PROVE  reported[s] \in 0..Cardinality(Ends)
    BY DEF TInv, Types, TypeOK
  <2>1. /\ Cardinality(EndsOf(s)) <= Cardinality(Ends)
        /\ Cardinality(EndsOf(s)) \in Nat /\ Cardinality(Ends) \in Nat
    BY FS_Subset, FS_CardinalityType, ServiceAssumption DEF EndsOf, ServiceAssumption
  <2> QED
    BY <2>1 DEF TInv
<1> QED
  BY <1>1, <1>2, <1>3, PTL DEF Spec
=============================================================================
