----------------------- MODULE CascadedPipelineProofs -----------------------
(* Safety of the cascaded pipeline, for any turns, rounds and calls. *)
EXTENDS CascadedPipeline, TLAPS

\* A turn that waits, or was just answered, is at one of its calls.
AtACall ==
  \A t \in Turns : phase[t] \in {"waiting", "answered"} => at[t] \in 1..calls[t]

\* The calls with a resolver, and those with a timer, are the ones waited for.
WaitInv ==
  /\ timers = pending
  /\ \A t \in Turns, k \in 0..MaxIterations, i \in 1..MaxCalls :
       <<t, k, i>> \in pending <=>
         phase[t] = "waiting" /\ iteration[t] = k /\ at[t] = i

\* The calls without a result are those a turn has still to get one for.
OwedInv ==
  \A t \in Turns, k \in 0..MaxIterations, i \in 1..MaxCalls :
    <<t, k, i>> \in owed <=>
      /\ phase[t] \in {"waiting", "answered"}
      /\ iteration[t] = k
      /\ i \in at[t]..calls[t]

\* While nobody cuts in, one turn is at work.
OneAtWork == \A t, u \in AtWork : t = u

TalkInv == connected /\ ~overlapped => OneAtWork /\ OwedInv

IInv == TypeOK /\ AtACall /\ WaitInv /\ CancelReaches /\ TalkInv

-----------------------------------------------------------------------------
\* Types

LEMMA CallIsCall ==
  ASSUME NEW t \in Turns, NEW k \in 0..MaxIterations, NEW i \in 1..MaxCalls
  PROVE  <<t, k, i>> \in Calls
  BY DEF Calls

LEMMA InitType == Init => TypeOK
<1> SUFFICES ASSUME Init
             PROVE  TypeOK
  OBVIOUS
<1> USE PipelineAssumption DEF Init
<1>1. 0 \in 0..MaxIterations /\ 0 \in 0..MaxCalls
  OBVIOUS
<1>2. /\ iteration \in [Turns -> 0..MaxIterations]
      /\ calls \in [Turns -> 0..MaxCalls]
      /\ at \in [Turns -> 0..MaxCalls]
  BY <1>1
<1>3. /\ phase \in [Turns -> {"new"} \cup Working \cup Over]
      /\ controller \in [Turns -> {"none", "active", "aborted"}]
  OBVIOUS
<1> QED
  BY <1>2, <1>3 DEF TypeOK

LEMMA TypeStep ==
  ASSUME TypeOK, AtACall, [Next]_vars
  PROVE  TypeOK'
<1> USE PipelineAssumption DEF TypeOK
<1>1. CASE UNCHANGED vars
  BY <1>1 DEF vars, hostVars, roundVars, waitVars, historyVars
<1>2. CASE Connect
  BY <1>2 DEF Connect, roundVars, waitVars
<1>3. CASE Cancel
  BY <1>3 DEF Cancel, CancelInFlight, hostVars, roundVars, historyVars, Working
<1>4. CASE Disconnect
  BY <1>4 DEF Disconnect, CancelInFlight, roundVars, Working
<1>5. ASSUME NEW n \in Notes, Inject(n)
      PROVE  TypeOK'
  BY <1>5 DEF Inject, Push, roundVars, waitVars
<1>6. ASSUME NEW c \in Calls, Submit(c) \/ Timeout(c)
      PROVE  TypeOK'
  <2>1. phase' \in [Turns -> {"new"} \cup Working \cup Over]
    BY <1>6 DEF Submit, Timeout, Resolve, Working
  <2> QED
    BY <1>6, <2>1 DEF Submit, Timeout, hostVars, roundVars, historyVars
<1>7. ASSUME NEW t \in Turns, Transcribe(t) \/ Respond(t)
      PROVE  TypeOK'
  BY <1>7 DEF Transcribe, Respond, Stream, Push, Goto, Control, Working,
     roundVars, waitVars, historyVars
<1>8. ASSUME NEW t \in Turns, TurnStep(t)
      PROVE  TypeOK'
  <2>1. CASE Transcribed(t) \/ Silence(t)
    BY <2>1 DEF Transcribed, Silence, Stream, Push, Goto, Control, Working, Over,
       hostVars, roundVars, waitVars, historyVars
  <2>2. CASE TranscribeFails(t) \/ StreamFails(t)
    BY <2>2 DEF TranscribeFails, StreamFails, Failure, Goto, Control, Over,
       hostVars, roundVars, waitVars, historyVars
  <2>3. ASSUME NEW n \in 0..MaxCalls, StreamEnds(t, n)
        PROVE  TypeOK'
    BY <2>3 DEF StreamEnds, Goto, Control, Working, hostVars, waitVars, historyVars
  <2>4. CASE Finish(t)
    BY <2>4 DEF Finish, Push, Goto, Control, Over, hostVars, roundVars, waitVars,
       historyVars
  <2>5. CASE CallTools(t)
    <3>1. 1 \in 1..MaxCalls /\ iteration[t] \in 0..MaxIterations
      BY <2>5 DEF CallTools
    <3>2. {<<t, iteration[t], i>> : i \in 1..calls[t]} \subseteq Calls
      BY <3>1, CallIsCall
    <3>3. <<t, iteration[t], 1>> \in Calls
      BY <3>1, CallIsCall
    <3> QED
      BY <2>5, <3>1, <3>2, <3>3 DEF CallTools, Wait, Goto, Control, Working, hostVars
  <2>6. CASE NextCall(t)
    <3>1. at[t] + 1 \in 1..MaxCalls /\ iteration[t] \in 0..MaxIterations
      BY <2>6 DEF NextCall, MoreCalls
    <3>2. <<t, iteration[t], at[t] + 1>> \in Calls
      BY <3>1, CallIsCall
    <3> QED
      BY <2>6, <3>1, <3>2 DEF NextCall, ToolEntry, Wait, Goto, Working, hostVars
  <2>7. CASE NextRound(t)
    BY <2>7 DEF NextRound, ToolEntry, Stream, Goto, Control, Working, hostVars, waitVars
  <2>8. CASE GiveUp(t)
    BY <2>8 DEF GiveUp, ToolEntry, Goto, Over, hostVars, roundVars, waitVars
  <2> QED
    BY <1>8, <2>1, <2>2, <2>3, <2>4, <2>5, <2>6, <2>7, <2>8 DEF TurnStep
<1> QED
  BY <1>1, <1>2, <1>3, <1>4, <1>5, <1>6, <1>7, <1>8 DEF Next

\* Whatever transcribes, streams or speaks keeps its controller until it ends.
LEMMA ReachStep ==
  ASSUME TypeOK, CancelReaches, [Next]_vars
  PROVE  CancelReaches'
<1> USE DEF TypeOK, CancelReaches
<1>1. CASE UNCHANGED vars
  BY <1>1 DEF vars
<1>2. CASE Connect \/ \E n \in Notes : Inject(n)
  BY <1>2 DEF Connect, Inject
<1>3. CASE Cancel \/ Disconnect
  BY <1>3 DEF Cancel, Disconnect, CancelInFlight
<1>4. ASSUME NEW c \in Calls, Submit(c) \/ Timeout(c)
      PROVE  CancelReaches'
  BY <1>4 DEF Submit, Timeout, Resolve
<1>5. ASSUME NEW t \in Turns, Transcribe(t) \/ Respond(t) \/ Transcribed(t) \/ NextRound(t)
      PROVE  CancelReaches'
  BY <1>5 DEF Transcribe, Respond, Transcribed, NextRound, Stream, Goto, Control
<1>6. ASSUME NEW t \in Turns, NEW n \in 0..MaxCalls, StreamEnds(t, n)
      PROVE  CancelReaches'
  BY <1>6 DEF StreamEnds, Goto, Control
<1>7. ASSUME NEW t \in Turns,
             Silence(t) \/ TranscribeFails(t) \/ StreamFails(t) \/ Finish(t) \/ GiveUp(t)
      PROVE  CancelReaches'
  BY <1>7 DEF Silence, TranscribeFails, StreamFails, Finish, GiveUp, Failure, Goto, Control
<1>8. ASSUME NEW t \in Turns, CallTools(t) \/ NextCall(t)
      PROVE  CancelReaches'
  BY <1>8 DEF CallTools, NextCall, Wait, Goto, Control
<1> QED
  BY <1>1, <1>2, <1>3, <1>4, <1>5, <1>6, <1>7, <1>8 DEF Next, TurnStep

LEMMA AtACallStep ==
  ASSUME TypeOK, AtACall, [Next]_vars
  PROVE  AtACall'
<1> USE DEF TypeOK, AtACall
<1>1. CASE UNCHANGED vars
  BY <1>1 DEF vars, roundVars
<1>2. CASE Connect \/ \E n \in Notes : Inject(n)
  BY <1>2 DEF Connect, Inject, roundVars
<1>3. CASE Cancel \/ Disconnect
  BY <1>3 DEF Cancel, Disconnect, CancelInFlight, roundVars
<1>4. ASSUME NEW c \in Calls, Submit(c) \/ Timeout(c)
      PROVE  AtACall'
  BY <1>4 DEF Submit, Timeout, Resolve, roundVars
<1>5. ASSUME NEW t \in Turns, Transcribe(t) \/ Respond(t) \/ Transcribed(t) \/ NextRound(t)
      PROVE  AtACall'
  BY <1>5 DEF Transcribe, Respond, Transcribed, NextRound, Stream, Goto, roundVars
<1>6. ASSUME NEW t \in Turns, NEW n \in 0..MaxCalls, StreamEnds(t, n)
      PROVE  AtACall'
  BY <1>6 DEF StreamEnds, Goto
<1>7. ASSUME NEW t \in Turns,
             Silence(t) \/ TranscribeFails(t) \/ StreamFails(t) \/ Finish(t) \/ GiveUp(t)
      PROVE  AtACall'
  BY <1>7 DEF Silence, TranscribeFails, StreamFails, Finish, GiveUp, Failure, Goto, roundVars
<1>8. ASSUME NEW t \in Turns, CallTools(t) \/ NextCall(t)
      PROVE  AtACall'
  BY <1>8, PipelineAssumption DEF CallTools, NextCall, MoreCalls, Wait, Goto
<1> QED
  BY <1>1, <1>2, <1>3, <1>4, <1>5, <1>6, <1>7, <1>8 DEF Next, TurnStep

\* A resolver and its timer are set and dropped together, as a wait begins and
\* ends.
LEMMA WaitStep ==
  ASSUME TypeOK, AtACall, WaitInv, [Next]_vars
  PROVE  WaitInv'
<1> USE DEF TypeOK, WaitInv
<1>1. CASE UNCHANGED vars
  BY <1>1 DEF vars, roundVars, waitVars
<1>2. CASE Connect \/ \E n \in Notes : Inject(n)
  BY <1>2 DEF Connect, Inject, roundVars, waitVars
<1>3. CASE Cancel \/ Disconnect
  <2>1. CancelInFlight
    BY <1>3 DEF Cancel, Disconnect
  <2>2. timers' = {} /\ pending' = {}
    BY <2>1 DEF CancelInFlight
  <2>3. ASSUME NEW t \in Turns
        PROVE  phase'[t] # "waiting"
    <3>1. CASE phase[t] = "waiting"
      <4>1. at[t] \in 1..MaxCalls /\ iteration[t] \in 0..MaxIterations
        BY <3>1, PipelineAssumption DEF AtACall
      <4>2. Call(t) \in pending
        BY <3>1, <4>1 DEF Call
      <4> QED
        BY <2>1, <3>1, <4>2 DEF CancelInFlight
    <3>2. CASE phase[t] # "waiting"
      BY <2>1, <3>2 DEF CancelInFlight
    <3> QED
      BY <3>1, <3>2
  <2> QED
    BY <2>2, <2>3
<1>4. ASSUME NEW c \in Calls, Submit(c) \/ Timeout(c)
      PROVE  WaitInv'
  <2>1. Resolve(c) /\ timers' = pending'
    BY <1>4 DEF Submit, Timeout
  <2>2. pending' = pending \ {c} /\ UNCHANGED <<iteration, at>>
    BY <1>4 DEF Submit, Timeout, roundVars
  <2>3. ASSUME NEW t \in Turns, NEW k \in 0..MaxIterations, NEW i \in 1..MaxCalls
        PROVE  <<t, k, i>> \in pending' <=>
                 phase'[t] = "waiting" /\ iteration'[t] = k /\ at'[t] = i
    <3>1. phase'[t] = "waiting" <=> phase[t] = "waiting" /\ Call(t) # c
      BY <2>1 DEF Resolve
    <3>2. CASE <<t, k, i>> = c
      BY <2>2, <3>1, <3>2 DEF Call
    <3>3. CASE <<t, k, i>> # c
      BY <2>2, <3>1, <3>3 DEF Call
    <3> QED
      BY <3>2, <3>3
  <2> QED
    BY <2>1, <2>3
<1>5. ASSUME NEW t \in Turns, Transcribe(t) \/ Respond(t) \/ Transcribed(t) \/ NextRound(t)
      PROVE  WaitInv'
  BY <1>5 DEF Transcribe, Respond, Transcribed, NextRound, ToolEntry, Stream, Goto,
     roundVars, waitVars
<1>6. ASSUME NEW t \in Turns, NEW n \in 0..MaxCalls, StreamEnds(t, n)
      PROVE  WaitInv'
  BY <1>6 DEF StreamEnds, Goto, waitVars
<1>7. ASSUME NEW t \in Turns,
             Silence(t) \/ TranscribeFails(t) \/ StreamFails(t) \/ Finish(t) \/ GiveUp(t)
      PROVE  WaitInv'
  BY <1>7 DEF Silence, TranscribeFails, StreamFails, Finish, GiveUp, ToolEntry,
     Failure, Goto, roundVars, waitVars
<1>8. ASSUME NEW t \in Turns, NEW i, Wait(t, i), phase[t] # "waiting"
      PROVE  WaitInv'
  <2>1. timers' = pending'
    BY <1>8 DEF Wait
  <2>2. ASSUME NEW u \in Turns, NEW k \in 0..MaxIterations, NEW j \in 1..MaxCalls
        PROVE  <<u, k, j>> \in pending' <=>
                 phase'[u] = "waiting" /\ iteration'[u] = k /\ at'[u] = j
    <3>1. CASE u = t
      BY <1>8, <3>1 DEF Wait, Goto
    <3>2. CASE u # t
      BY <1>8, <3>2 DEF Wait, Goto
    <3> QED
      BY <3>1, <3>2
  <2> QED
    BY <2>1, <2>2
<1>9. ASSUME NEW t \in Turns, CallTools(t) \/ NextCall(t)
      PROVE  WaitInv'
  BY <1>8, <1>9 DEF CallTools, NextCall, ToolEntry
<1> QED
  BY <1>1, <1>2, <1>3, <1>4, <1>5, <1>6, <1>7, <1>9 DEF Next, TurnStep

-----------------------------------------------------------------------------
\* The history

LEMMA OwedNothing ==
  ASSUME TypeOK, OwedInv,
         \A t \in Turns : phase[t] \notin {"waiting", "answered"}
  PROVE  owed = {}
<1> SUFFICES ASSUME NEW c \in owed
             PROVE  FALSE
  OBVIOUS
<1>1. PICK t \in Turns, k \in 0..MaxIterations, i \in 1..MaxCalls : c = <<t, k, i>>
  BY DEF TypeOK, Calls
<1> QED
  BY <1>1 DEF OwedInv

\* A turn at work is the only one, if nobody cuts in.
LEMMA OthersIdle ==
  ASSUME OneAtWork, NEW t \in Turns, phase[t] \in Working
  PROVE  \A u \in Turns \ {t} : phase[u] \notin Working
  BY DEF OneAtWork, AtWork

\* The invariant of the history is kept when a turn moves to where it owes as
\* much as before.
LEMMA SameOwed ==
  ASSUME OneAtWork, OwedInv, UNCHANGED owed,
         \A t \in Turns :
           /\ phase'[t] \in Working => phase[t] \in Working
           /\ phase'[t] \in {"waiting", "answered"} <=>
                phase[t] \in {"waiting", "answered"}
           /\ phase[t] \in {"waiting", "answered"} =>
                UNCHANGED <<iteration[t], at[t], calls[t]>>
  PROVE  OneAtWork' /\ OwedInv'
<1>1. OneAtWork'
  BY DEF OneAtWork, AtWork
<1>2. OwedInv'
  <2> SUFFICES ASSUME NEW t \in Turns, NEW k \in 0..MaxIterations, NEW i \in 1..MaxCalls
               PROVE  <<t, k, i>> \in owed' <=>
                        /\ phase'[t] \in {"waiting", "answered"}
                        /\ iteration'[t] = k
                        /\ i \in at'[t]..calls'[t]
    BY DEF OwedInv
  <2> QED
    BY DEF OwedInv
<1> QED
  BY <1>1, <1>2

\* A turn that starts when none is at work owes nothing.
LEMMA StartOwed ==
  ASSUME TypeOK, OwedInv, AtWork = {}, NEW t \in Turns, UNCHANGED owed,
         UNCHANGED roundVars, NEW p \in Working, p \notin {"waiting", "answered"},
         Goto(t, p)
  PROVE  OneAtWork' /\ OwedInv'
<1>1. \A u \in Turns : phase[u] \notin Working
  BY DEF AtWork
<1>2. \A u \in Turns : phase'[u] \in Working => u = t
  BY <1>1 DEF Goto, TypeOK
<1>3. \A u \in Turns : phase[u] \notin {"waiting", "answered"}
                    /\ phase'[u] \notin {"waiting", "answered"}
  BY <1>1 DEF Goto, TypeOK, Working
<1>4. OneAtWork'
  BY <1>2 DEF OneAtWork, AtWork
<1>5. OwedInv'
  BY <1>3 DEF OwedInv
<1> QED
  BY <1>4, <1>5

\* The tool calls of a response are owed, and nothing else.
LEMMA CallToolsOwed ==
  ASSUME TypeOK, OneAtWork, OwedInv, NEW t \in Turns, CallTools(t)
  PROVE  OneAtWork' /\ OwedInv'
<1> USE DEF TypeOK
<1>1. /\ phase[t] = "speaking"
      /\ phase' = [phase EXCEPT ![t] = "waiting"]
      /\ at' = [at EXCEPT ![t] = 1]
      /\ owed' = owed \cup {<<t, iteration[t], i>> : i \in 1..calls[t]}
      /\ UNCHANGED <<iteration, calls>>
  BY DEF CallTools, Wait, Goto
<1>2. \A u \in Turns \ {t} : phase[u] \notin Working
  BY <1>1, OthersIdle DEF Working
<1>3. OneAtWork'
  BY <1>1, <1>2 DEF OneAtWork, AtWork
<1>4. owed = {}
  BY <1>1, <1>2, OwedNothing DEF Working
<1>5. ASSUME NEW u \in Turns, NEW k \in 0..MaxIterations, NEW i \in 1..MaxCalls
      PROVE  <<u, k, i>> \in owed' <=>
               /\ phase'[u] \in {"waiting", "answered"}
               /\ iteration'[u] = k
               /\ i \in at'[u]..calls'[u]
  <2>1. <<u, k, i>> \in owed' <=> u = t /\ k = iteration[t] /\ i \in 1..calls[t]
    BY <1>1, <1>4
  <2>2. phase'[u] \in {"waiting", "answered"} <=> u = t
    BY <1>1, <1>2 DEF Working
  <2>3. u = t => at'[u] = 1 /\ calls'[u] = calls[t] /\ iteration'[u] = iteration[t]
    BY <1>1
  <2> QED
    BY <2>1, <2>2, <2>3
<1> QED
  BY <1>3, <1>5 DEF OwedInv

\* A tool entry settles one of the calls owed, and the turn goes to the next.
LEMMA NextCallOwed ==
  ASSUME TypeOK, AtACall, OneAtWork, OwedInv, NEW t \in Turns, NextCall(t)
  PROVE  OneAtWork' /\ OwedInv'
<1> USE DEF TypeOK
<1>1. /\ phase[t] = "answered"
      /\ phase' = [phase EXCEPT ![t] = "waiting"]
      /\ at' = [at EXCEPT ![t] = at[t] + 1]
      /\ owed' = owed \ {<<t, iteration[t], at[t]>>}
      /\ UNCHANGED <<iteration, calls>>
  BY DEF NextCall, ToolEntry, Call, Wait, Goto
<1>2. OneAtWork'
  BY <1>1 DEF OneAtWork, AtWork, Working
<1>3. ASSUME NEW u \in Turns, NEW k \in 0..MaxIterations, NEW i \in 1..MaxCalls
      PROVE  <<u, k, i>> \in owed' <=>
               /\ phase'[u] \in {"waiting", "answered"}
               /\ iteration'[u] = k
               /\ i \in at'[u]..calls'[u]
  <2>1. CASE u # t
    BY <1>1, <2>1 DEF OwedInv
  <2>2. CASE u = t
    <3>1. <<t, k, i>> \in owed' <=>
            <<t, k, i>> \in owed /\ ~(k = iteration[t] /\ i = at[t])
      BY <1>1
    <3>2. <<t, k, i>> \in owed <=> iteration[t] = k /\ i \in at[t]..calls[t]
      BY <1>1 DEF OwedInv
    <3>3. i \in (at[t] + 1)..calls[t] <=> i \in at[t]..calls[t] /\ i # at[t]
      BY PipelineAssumption
    <3> QED
      BY <1>1, <2>2, <3>1, <3>2, <3>3
  <2> QED
    BY <2>1, <2>2
<1> QED
  BY <1>2, <1>3 DEF OwedInv

\* The tool entry of the last call leaves nothing owed.
LEMMA LastEntry ==
  ASSUME TypeOK, AtACall, OneAtWork, OwedInv, NEW t \in Turns,
         ToolEntry(t), ~MoreCalls(t)
  PROVE  /\ owed = {Call(t)}
         /\ owed' = {}
         /\ \A u \in Turns \ {t} : phase[u] \notin Working
<1> USE DEF TypeOK
<1>1. phase[t] = "answered" /\ at[t] = calls[t] /\ at[t] \in 1..MaxCalls
  BY PipelineAssumption DEF AtACall, ToolEntry, MoreCalls
<1>2. \A u \in Turns \ {t} : phase[u] \notin Working
  BY <1>1, OthersIdle DEF Working
<1>3. ASSUME NEW c \in owed
      PROVE  c = Call(t)
  <2>1. PICK u \in Turns, k \in 0..MaxIterations, i \in 1..MaxCalls : c = <<u, k, i>>
    BY DEF Calls
  <2>2. phase[u] \in {"waiting", "answered"} /\ iteration[u] = k /\ i \in at[u]..calls[u]
    BY <2>1 DEF OwedInv
  <2>3. u = t
    BY <1>2, <2>2 DEF Working
  <2>4. i = at[t]
    BY <1>1, <2>2, <2>3
  <2> QED
    BY <2>1, <2>2, <2>3, <2>4 DEF Call
<1>4. Call(t) \in owed
  <2>1. iteration[t] \in 0..MaxIterations /\ at[t] \in at[t]..calls[t]
    BY <1>1
  <2> QED
    BY <1>1, <2>1 DEF OwedInv, Call
<1>5. owed = {Call(t)}
  BY <1>3, <1>4
<1> QED
  BY <1>2, <1>5 DEF ToolEntry

LEMMA TalkStep ==
  ASSUME TypeOK, AtACall, TalkInv, [Next]_vars
  PROVE  TalkInv'
<1> SUFFICES ASSUME connected', ~overlapped'
             PROVE  OneAtWork' /\ OwedInv'
  BY DEF TalkInv
<1> USE DEF TypeOK
<1>1. CASE UNCHANGED vars
  <2>1. OneAtWork /\ OwedInv
    BY <1>1 DEF vars, hostVars, TalkInv
  <2> QED
    BY <1>1, <2>1, SameOwed DEF vars, roundVars, historyVars
<1>2. CASE Connect
  <2>1. AtWork = {} /\ owed' = {} /\ phase' = phase
    BY <1>2 DEF Connect
  <2>2. \A u \in Turns : phase'[u] \notin Working
    BY <2>1 DEF AtWork
  <2> QED
    BY <2>1, <2>2 DEF OneAtWork, OwedInv, AtWork, Working
<1>3. ASSUME NEW n \in Notes, Inject(n)
      PROVE  OneAtWork' /\ OwedInv'
  <2>1. connected /\ ~overlapped
    BY <1>3 DEF Inject
  <2> QED
    BY <1>3, <2>1, SameOwed DEF TalkInv, Inject, Push, roundVars
<1>4. CASE Cancel
  <2>1. OneAtWork /\ OwedInv
    BY <1>4 DEF Cancel, hostVars, TalkInv
  <2> QED
    BY <1>4, <2>1, SameOwed DEF Cancel, CancelInFlight, Working, roundVars, historyVars
<1>5. CASE Disconnect
  BY <1>5 DEF Disconnect
<1>6. ASSUME NEW c \in Calls, Submit(c) \/ Timeout(c)
      PROVE  OneAtWork' /\ OwedInv'
  <2>1. OneAtWork /\ OwedInv
    BY <1>6 DEF Submit, Timeout, hostVars, TalkInv
  <2> QED
    BY <1>6, <2>1, SameOwed DEF Submit, Timeout, Resolve, Working, roundVars, historyVars
<1>7. ASSUME NEW t \in Turns, Transcribe(t) \/ Respond(t)
      PROVE  OneAtWork' /\ OwedInv'
  <2>1. connected /\ ~overlapped /\ AtWork = {}
    BY <1>7 DEF Transcribe, Respond
  <2>2. Goto(t, "transcribing") \/ Goto(t, "streaming")
    BY <1>7 DEF Transcribe, Respond, Stream
  <2>3. UNCHANGED owed /\ UNCHANGED roundVars
    BY <1>7 DEF Transcribe, Respond, Push, historyVars
  <2> QED
    BY <2>1, <2>2, <2>3, StartOwed DEF TalkInv, Working
<1>8. ASSUME NEW t \in Turns, TurnStep(t)
      PROVE  OneAtWork' /\ OwedInv'
  <2>1. OneAtWork /\ OwedInv
    BY <1>8 DEF TalkInv, TurnStep, Transcribed, Silence, TranscribeFails, StreamEnds,
       StreamFails, Finish, CallTools, NextCall, NextRound, GiveUp, hostVars
  <2>2. CASE Transcribed(t) \/ Silence(t)
    BY <2>1, <2>2, SameOwed DEF Transcribed, Silence, Stream, Push, Goto, Working,
       roundVars, historyVars
  <2>3. CASE TranscribeFails(t) \/ StreamFails(t) \/ Finish(t)
    BY <2>1, <2>3, SameOwed DEF TranscribeFails, StreamFails, Finish, Failure, Push,
       Goto, Working, roundVars, historyVars
  <2>4. ASSUME NEW n \in 0..MaxCalls, StreamEnds(t, n)
        PROVE  OneAtWork' /\ OwedInv'
    BY <2>1, <2>4, SameOwed DEF StreamEnds, Goto, Working, historyVars
  <2>5. CASE CallTools(t)
    BY <2>1, <2>5, CallToolsOwed
  <2>6. CASE NextCall(t)
    BY <2>1, <2>6, NextCallOwed
  <2>7. CASE NextRound(t) \/ GiveUp(t)
    <3>1. owed' = {} /\ \A u \in Turns \ {t} : phase[u] \notin Working
      BY <2>1, <2>7, LastEntry DEF NextRound, GiveUp
    <3>2. Goto(t, "streaming") \/ Goto(t, "done")
      BY <2>7 DEF NextRound, GiveUp, Stream
    <3>3. /\ \A u \in Turns \ {t} : phase'[u] \notin Working
          /\ phase'[t] \notin {"waiting", "answered"}
      BY <3>1, <3>2 DEF Goto
    <3> QED
      BY <3>1, <3>3 DEF OneAtWork, OwedInv, AtWork, Working
  <2> QED
    BY <1>8, <2>2, <2>3, <2>4, <2>5, <2>6, <2>7 DEF TurnStep
<1> QED
  BY <1>1, <1>2, <1>3, <1>4, <1>5, <1>6, <1>7, <1>8 DEF Next

LEMMA Inductive == Spec => []IInv
<1>1. Init => IInv
  <2>1. Init => AtACall /\ WaitInv /\ CancelReaches /\ TalkInv
    BY DEF Init, AtACall, WaitInv, CancelReaches, TalkInv
  <2> QED
    BY <2>1, InitType DEF IInv
<1>2. IInv /\ [Next]_vars => IInv'
  BY TypeStep, ReachStep, AtACallStep, WaitStep, TalkStep DEF IInv
<1> QED
  BY <1>1, <1>2, PTL DEF Spec

-----------------------------------------------------------------------------

\* The pipeline is well typed for any turns, rounds and calls.
THEOREM TypeCorrect == Spec => []TypeOK
  BY Inductive, PTL DEF IInv

\* Cancelling reaches whatever transcribes, streams or speaks, of however many
\* turns that overlap.
THEOREM CancelReachesAlways == Spec => []CancelReaches
  BY Inductive, PTL DEF IInv

\* However turns overlap, a turn waits for the call whose resolver and timer
\* are set, and no other resolver or timer is left.
THEOREM WaitsCanAlwaysEnd == Spec => []WaitsCanEnd
<1>1. IInv => WaitsCanEnd
  <2> SUFFICES ASSUME IInv
               PROVE  WaitsCanEnd
    OBVIOUS
  <2> USE DEF IInv, TypeOK
  <2> DEFINE awaited == {Call(t) : t \in {u \in Turns : phase[u] = "waiting"}}
  <2>1. ASSUME NEW c \in pending
        PROVE  c \in awaited
    <3>1. PICK t \in Turns, k \in 0..MaxIterations, i \in 1..MaxCalls : c = <<t, k, i>>
      BY DEF Calls
    <3>2. phase[t] = "waiting" /\ c = Call(t)
      BY <3>1 DEF WaitInv, Call
    <3> QED
      BY <3>2
  <2>2. ASSUME NEW t \in Turns, phase[t] = "waiting"
        PROVE  Call(t) \in pending
    <3>1. at[t] \in 1..MaxCalls /\ iteration[t] \in 0..MaxIterations
      BY <2>2, PipelineAssumption DEF AtACall
    <3> QED
      BY <2>2, <3>1 DEF WaitInv, Call
  <2>3. pending = awaited
    BY <2>1, <2>2
  <2> QED
    BY <2>3 DEF WaitInv, WaitsCanEnd
<1> QED
  BY <1>1, Inductive, PTL

\* While nobody cuts into a turn, no request holds a tool call without its
\* result.
THEOREM RequestsComplete == Spec => []CompleteRequests
<1>1. IInv => CompleteRequests
  <2> SUFFICES ASSUME IInv, connected, ~overlapped,
                      NEW t \in Turns, phase[t] = "streaming"
               PROVE  owed = {}
    BY DEF CompleteRequests
  <2>1. \A u \in Turns : phase[u] \notin {"waiting", "answered"}
    BY OthersIdle DEF IInv, TalkInv, Working
  <2> QED
    BY <2>1, OwedNothing DEF IInv, TalkInv
<1> QED
  BY <1>1, Inductive, PTL

-----------------------------------------------------------------------------

promiseVars == <<connected /\ ~overlapped, entries, owed>>

LEMMA PromiseStep ==
  ASSUME IInv, [Next]_vars
  PROVE  [Promise!Next]_promiseVars
<1> DEFINE open == connected /\ ~overlapped
<1> USE DEF IInv, TypeOK
<1> SUFFICES ASSUME open' # FALSE
             PROVE  Promise!Next \/ UNCHANGED promiseVars
  BY DEF Promise!Next, Promise!End, promiseVars
<1>a. connected' /\ ~overlapped'
  OBVIOUS
<1>1. CASE UNCHANGED vars
  BY <1>1 DEF vars, hostVars, historyVars, promiseVars
<1>2. CASE Connect
  BY <1>2, <1>a DEF Connect, Promise!Next, Promise!Begin
<1>3. ASSUME NEW n \in Notes, Inject(n)
      PROVE  Promise!Next
  BY <1>3, <1>a DEF Inject, Push, Promise!Next, Promise!Say, Promise!Add
<1>4. CASE Cancel
  BY <1>4 DEF Cancel, hostVars, historyVars, promiseVars
<1>5. CASE Disconnect
  BY <1>5, <1>a DEF Disconnect
<1>6. ASSUME NEW c \in Calls, Submit(c) \/ Timeout(c)
      PROVE  UNCHANGED promiseVars
  BY <1>6 DEF Submit, Timeout, hostVars, historyVars, promiseVars
<1>7. ASSUME NEW t \in Turns, Transcribe(t)
      PROVE  UNCHANGED promiseVars
  BY <1>7, <1>a DEF Transcribe, historyVars, promiseVars
<1>8. ASSUME NEW t \in Turns, Respond(t)
      PROVE  Promise!Next
  <2>1. connected /\ ~overlapped /\ AtWork = {}
    BY <1>8, <1>a DEF Respond
  <2>2. owed = {}
    BY <2>1, OwedNothing DEF TalkInv, AtWork, Working
  <2> QED
    BY <1>8, <1>a, <2>1, <2>2 DEF Respond, Push, Promise!Next, Promise!Say, Promise!Add
<1>9. ASSUME NEW t \in Turns, TurnStep(t)
      PROVE  Promise!Next \/ UNCHANGED promiseVars
  <2>1. UNCHANGED hostVars /\ phase[t] \in Working
    BY <1>9 DEF TurnStep, Transcribed, Silence, TranscribeFails, StreamEnds,
       StreamFails, Finish, CallTools, NextCall, NextRound, GiveUp, ToolEntry, Working
  <2>2. open /\ OneAtWork /\ OwedInv /\ open' = open
    BY <1>a, <2>1 DEF hostVars, TalkInv
  <2>3. \A u \in Turns \ {t} : phase[u] \notin Working
    BY <2>1, <2>2, OthersIdle
  <2>4. phase[t] \notin {"waiting", "answered"} => owed = {}
    BY <2>2, <2>3, OwedNothing DEF Working
  <2>5. CASE Transcribed(t)
    BY <2>2, <2>4, <2>5 DEF Transcribed, Push, Promise!Next, Promise!Say, Promise!Add
  <2>6. CASE Silence(t) \/ TranscribeFails(t) \/ StreamFails(t)
             \/ \E n \in 0..MaxCalls : StreamEnds(t, n)
    BY <2>2, <2>6 DEF Silence, TranscribeFails, StreamFails, StreamEnds, historyVars,
       promiseVars
  <2>7. CASE Finish(t)
    BY <2>2, <2>4, <2>7 DEF Finish, Push, historyVars, promiseVars, Promise!Next,
       Promise!Say, Promise!Add
  <2>8. CASE CallTools(t)
    <3>1. owed = {} /\ calls[t] \in 0..MaxCalls /\ calls[t] > 0
      BY <2>4, <2>8 DEF CallTools
    <3>2. {<<t, iteration[t], i>> : i \in 1..calls[t]} \subseteq Calls
      BY <3>1, CallIsCall, PipelineAssumption
    <3>3. <<t, iteration[t], 1>> \in {<<t, iteration[t], i>> : i \in 1..calls[t]}
      BY <3>1
    <3>4. owed' = {<<t, iteration[t], i>> : i \in 1..calls[t]}
      BY <2>8, <3>1 DEF CallTools
    <3> QED
      BY <2>2, <2>8, <3>1, <3>2, <3>3, <3>4 DEF CallTools, Promise!Next, Promise!Ask,
         Promise!Add
  <2>9. ASSUME ToolEntry(t)
        PROVE  Promise!Answer
    <3>1. iteration[t] \in 0..MaxIterations /\ at[t] \in 1..MaxCalls
            /\ at[t] \in at[t]..calls[t]
      BY <2>9, PipelineAssumption DEF ToolEntry, AtACall
    <3>2. Call(t) \in owed
      BY <2>2, <2>9, <3>1 DEF ToolEntry, OwedInv, Call
    <3> QED
      BY <2>2, <2>9, <3>2 DEF ToolEntry, Promise!Answer, Promise!Add
  <2> QED
    BY <1>9, <2>5, <2>6, <2>7, <2>8, <2>9 DEF TurnStep, NextCall, NextRound, GiveUp,
       Promise!Next
<1> QED
  BY <1>1, <1>2, <1>3, <1>4, <1>5, <1>6, <1>7, <1>8, <1>9 DEF Next

\* While nobody cuts into a turn, the history is a conversation: every tool
\* call of it gets one result before anybody says anything else, also when the
\* call was cancelled or timed out.
THEOREM HistoryIsAConversation == Spec => ImplementsConversation
<1>1. Init => Promise!Init
  BY DEF Init, Promise!Init
<1>2. IInv /\ [Next]_vars => [Promise!Next]_promiseVars
  BY PromiseStep
<1> QED
  BY <1>1, <1>2, Inductive, PTL DEF Spec, ImplementsConversation, Promise!Spec, promiseVars
=============================================================================
