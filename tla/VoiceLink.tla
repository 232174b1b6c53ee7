----------------------------- MODULE VoiceLink ------------------------------
(***************************************************************************)
(* What a voice session promises of the connection a call of start()       *)
(* makes: it does not come back once it is down or was refused.  It may    *)
(* come up after end() was called.  The browser service calls start() once *)
(* per session.                                                            *)
(***************************************************************************)
VARIABLE phase

Init == phase = "created"

Begin == phase = "created" /\ phase' = "connecting"
Up == phase = "connecting" /\ phase' = "up"
Refuse == phase = "connecting" /\ phase' = "failed"

\* end(), a later start(), or the provider drops the connection.
Down == phase = "up" /\ phase' = "down"

Next == Begin \/ Up \/ Refuse \/ Down

Spec == Init /\ [][Next]_phase
=============================================================================
