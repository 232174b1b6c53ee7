---------------------------- MODULE Conversation ----------------------------
(***************************************************************************)
(* What a chat model expects of the messages it is sent: when an entry of  *)
(* the assistant calls tools, the next entries are the results of these    *)
(* calls, each of them once, before anybody says anything else.            *)
(***************************************************************************)
EXTENDS Naturals

CONSTANT Calls

VARIABLES
  open,     \* is there a conversation that keeps the promise
  entries,  \* how many entries it has
  owed      \* the calls that were made and have no result yet

Init == open = FALSE /\ entries = 0 /\ owed = {}

Begin == open' = TRUE /\ entries' = 1 /\ owed' = {}

Add == open /\ open' = open /\ entries' = entries + 1

\* The user, the host or the assistant says something.
Say == Add /\ owed = {} /\ owed' = {}

\* The assistant calls tools.
Ask == Add /\ owed = {} /\ owed' \in (SUBSET Calls) \ {{}}

Answer == Add /\ \E c \in owed : owed' = owed \ {c}

\* The conversation is over or given up, and what follows is not of it.
End == open' = FALSE

Next == (~open /\ Begin) \/ Say \/ Ask \/ Answer \/ End

Spec == Init /\ [][Next]_<<open, entries, owed>>
=============================================================================
