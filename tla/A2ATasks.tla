------------------------------ MODULE A2ATasks ------------------------------
(***************************************************************************)
(* The A2A surface of the mailbox: JSON-RPC clients send messages, maybe   *)
(* under the id of a task, and cancel tasks, while workers claim and       *)
(* handle them.  tasks/get and tasks/list change nothing; tasks/cancel     *)
(* looks the task up, awaits, looks at the status it read, looks the task  *)
(* up again, awaits, and acknowledges the message it found then.           *)
(*                                                                         *)
(* A task id names every message sent under it, and a message's own id     *)
(* names it too.  Every lookup takes the message updated last; messages    *)
(* the model gives one age are looked up in any order.                     *)
(***************************************************************************)
EXTENDS AgentMailboxWorker

CONSTANTS
  Tasks,   \* task ids clients send under
  NoTask,  \* a message sent without one
  Cancels  \* calls of tasks/cancel

ASSUME TasksAssumption ==
  /\ NoTask \notin Tasks
  /\ Tasks \cap Ids = {}
  /\ Inboxes # {}

VARIABLES
  task,    \* the task id each message was sent under
  cancel,  \* where each tasks/cancel is, and what it looked up
  stopped  \* history: messages that were canceled while they were queued

a2aVars == <<task, cancel, stopped>>
allVars == <<vars, a2aVars>>

NewCancel == [phase |-> "new", inbox |-> CHOOSE i \in Inboxes : TRUE,
              ref |-> NoTask, found |-> 0]

TasksTypeOK ==
  /\ TypeOK
  /\ task \in [Ids -> Tasks \cup {NoTask}]
  /\ cancel \in [Cancels -> [phase : {"new", "open", "acking", "canceled", "refused"},
                             inbox : Inboxes, ref : Tasks \cup Ids \cup {NoTask},
                             found : Ids \cup {0}]]
  /\ stopped \subseteq Ids

TasksInit ==
  /\ Init
  /\ task = [m \in Ids |-> NoTask]
  /\ cancel = [c \in Cancels |-> NewCancel]
  /\ stopped = {}

\* findMailboxMessage(): the message of an inbox that a reference names.
Named(i, ref) ==
  {m \in DOMAIN messages : messages[m].inbox = i /\ (task[m] = ref \/ m = ref)}
Found(i, ref) ==
  {m \in Named(i, ref) : \A n \in Named(i, ref) : messages[m].age <= messages[n].age}

\* message/send: the mailbox gets no idempotency key.
SendMessage(s, i, t) ==
  /\ Send(s, i, NoKey)
  /\ task' = [task EXCEPT ![Len(messages')] = t]
  /\ UNCHANGED <<workerVars, cancel, stopped>>

\* tasks/cancel reads the task; one that is terminal is not cancelable.
Look(c, i, ref) ==
  /\ cancel[c].phase = "new"
  /\ \E m \in Found(i, ref) :
       cancel' = [cancel EXCEPT ![c] =
         IF messages[m].status \in Terminal
         THEN [@ EXCEPT !.phase = "refused"]
         ELSE [@ EXCEPT !.phase = "open", !.inbox = i, !.ref = ref]]
  /\ UNCHANGED <<vars, task, stopped>>

\* ackTask() looks the task up again.
LookAgain(c) ==
  /\ cancel[c].phase = "open"
  /\ \E m \in Found(cancel[c].inbox, cancel[c].ref) :
       cancel' = [cancel EXCEPT ![c].phase = "acking", ![c].ref = NoTask, ![c].found = m]
  /\ UNCHANGED <<vars, task, stopped>>

\* Mutant: a task canceled while it is queued is put back for the workers.
AcknowledgeRequeued(c) ==
  /\ cancel[c].phase = "acking"
  /\ LET m == cancel[c].found IN
     /\ messages' = [messages EXCEPT ![m].status = IF @ = "queued" THEN @ ELSE "canceled"]
     /\ stopped' = IF messages[m].status = "queued" THEN stopped \cup {m} ELSE stopped
  /\ cancel' = [cancel EXCEPT ![c].phase = "canceled", ![c].found = 0]
  /\ UNCHANGED <<watching, view, workerVars, task>>

\* ... and acknowledges what it found, whatever its status is by now.
Acknowledge(c) ==
  /\ cancel[c].phase = "acking"
  /\ LET m == cancel[c].found IN
     /\ Ack(m, cancel[c].inbox, "canceled")
     /\ stopped' = IF messages[m].status = "queued" THEN stopped \cup {m} ELSE stopped
  /\ cancel' = [cancel EXCEPT ![c].phase = "canceled", ![c].found = 0]
  /\ UNCHANGED <<workerVars, task>>

-----------------------------------------------------------------------------
A2AClient ==
  \/ \E s \in Sources, i \in Inboxes, t \in Tasks : SendMessage(s, i, t)
  \/ \E c \in Cancels :
       \/ \E i \in Inboxes, ref \in Tasks \cup Ids : Look(c, i, ref)
       \/ LookAgain(c) \/ Acknowledge(c)

TasksNext == A2AClient \/ (Next /\ UNCHANGED a2aVars)
TasksSpec == TasksInit /\ [][TasksNext]_allVars

\* The workers' fairness; no client has to do anything.
FairTasksSpec == TasksSpec /\ Fairness

-----------------------------------------------------------------------------
(* Properties                                                              *)

\* A task that was still queued when its cancel was acknowledged is never
\* handled, whichever workers claim around the two lookups.
StoppedNeverHandled == \A m \in stopped : handled[m] = 0
=============================================================================
