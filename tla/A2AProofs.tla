----------------------------- MODULE A2AProofs -----------------------------
(***************************************************************************)
(* Proofs about the A2A clients and the workers of the mailbox together,   *)
(* for every set of tasks, cancels, workers and inboxes, with and without  *)
(* leases.                                                                 *)
(***************************************************************************)
EXTENDS A2ATasks, AgentMailboxProofs

USE TasksAssumption DEF TasksAssumption

\* The types of what the A2A surface adds.
CancelTypes ==
  /\ task \in [Ids -> Tasks \cup {NoTask}]
  /\ cancel \in [Cancels -> [phase : {"new", "open", "acking", "canceled", "refused"},
                             inbox : Inboxes, ref : Tasks \cup Ids \cup {NoTask},
                             found : Ids \cup {0}]]
  /\ stopped \subseteq Ids

\* A message canceled while it was queued was in no batch, and a settled
\* message gets into none.
StopInv ==
  /\ FreshUntouched
  /\ \A m \in stopped :
       /\ m \in DOMAIN messages
       /\ messages[m].status \in Terminal
       /\ handled[m] = 0
  /\ \A w \in Workers : \A p \in DOMAIN batch[w] :
       /\ batch[w][p] \in DOMAIN messages
       /\ messages[batch[w][p]].status # "queued"
       /\ batch[w][p] \notin stopped

TasksInv == Inv /\ CancelTypes /\ StopInv

LEMMA TasksTypes ==
  ASSUME TasksInv
  PROVE  /\ messages \in Seq(Message) /\ TypeOK /\ MailboxTypeOK
         /\ DOMAIN messages \subseteq Ids /\ Len(messages) <= MaxMessages
         /\ batch \in [Workers -> Seq(Ids)]
         /\ handled \in [Ids -> 0..MaxHandled]
         /\ \A m \in DOMAIN messages : messages[m] \in Message
<1>1. TypeOK /\ MailboxTypeOK
  BY DEF TasksInv, Inv, TypeOK
<1>2. messages \in Seq(Message) /\ Len(messages) <= MaxMessages
  BY <1>1 DEF MailboxTypeOK
<1>3. DOMAIN messages \subseteq Ids
  BY <1>2, MailboxAssumption DEF Ids, MailboxAssumption
<1>4. \A m \in DOMAIN messages : messages[m] \in Message
  BY <1>2
<1>5. batch \in [Workers -> Seq(Ids)] /\ handled \in [Ids -> 0..MaxHandled]
  BY <1>1 DEF TypeOK
<1>6. QED BY <1>1, <1>2, <1>3, <1>4, <1>5

LEMMA CancelTypesStep ==
  ASSUME TasksInv, TasksNext
  PROVE  CancelTypes'
<1> DEFINE Record == [phase : {"new", "open", "acking", "canceled", "refused"},
                      inbox : Inboxes, ref : Tasks \cup Ids \cup {NoTask},
                      found : Ids \cup {0}]
<1>0. CancelTypes /\ DOMAIN messages \subseteq Ids
  BY TasksTypes DEF TasksInv
<1>1. ASSUME NEW s \in Sources, NEW i \in Inboxes, NEW t \in Tasks, SendMessage(s, i, t)
      PROVE  CancelTypes'
  BY <1>0, <1>1 DEF SendMessage, CancelTypes
<1>2. ASSUME NEW c \in Cancels, NEW i \in Inboxes, NEW ref \in Tasks \cup Ids,
             Look(c, i, ref)
      PROVE  CancelTypes'
  <2>1. PICK x : /\ cancel' = [cancel EXCEPT ![c] = x]
                 /\ x = [cancel[c] EXCEPT !.phase = "refused"]
                    \/ x = [cancel[c] EXCEPT !.phase = "open", !.inbox = i, !.ref = ref]
    BY <1>2 DEF Look
  <2>2. x \in Record
    BY <1>0, <2>1 DEF CancelTypes
  <2>3. task' = task /\ stopped' = stopped
    BY <1>2 DEF Look
  <2>4. QED BY <1>0, <2>1, <2>2, <2>3 DEF CancelTypes
<1>3. ASSUME NEW c \in Cancels, LookAgain(c) PROVE CancelTypes'
  <2>1. PICK m \in Ids :
          cancel' = [cancel EXCEPT ![c].phase = "acking", ![c].ref = NoTask, ![c].found = m]
    BY <1>0, <1>3 DEF LookAgain, Found, Named
  <2>2. task' = task /\ stopped' = stopped
    BY <1>3 DEF LookAgain
  <2>3. cancel' = [cancel EXCEPT ![c] =
                     [cancel[c] EXCEPT !.phase = "acking", !.ref = NoTask, !.found = m]]
    BY <2>1
  <2>4. [cancel[c] EXCEPT !.phase = "acking", !.ref = NoTask, !.found = m] \in Record
    BY <1>0 DEF CancelTypes
  <2>5. QED BY <1>0, <2>2, <2>3, <2>4 DEF CancelTypes
<1>4. ASSUME NEW c \in Cancels, Acknowledge(c) PROVE CancelTypes'
  <2>1. cancel[c].found \in DOMAIN messages
    BY <1>4 DEF Acknowledge, Ack
  <2>2. stopped' \subseteq Ids
    BY <1>0, <1>4, <2>1 DEF Acknowledge, CancelTypes
  <2>3. cancel' = [cancel EXCEPT ![c].phase = "canceled", ![c].found = 0] /\ task' = task
    BY <1>4 DEF Acknowledge
  <2>4. QED BY <1>0, <2>2, <2>3 DEF CancelTypes
<1>5. CASE UNCHANGED a2aVars
  BY <1>0, <1>5 DEF a2aVars, CancelTypes
<1>6. QED BY <1>1, <1>2, <1>3, <1>4, <1>5 DEF TasksNext, A2AClient

-----------------------------------------------------------------------------
(* An acknowledged cancel is, for the workers, a message settled by nobody. *)

LEMMA AcknowledgeFacts ==
  ASSUME TasksInv, NEW c \in Cancels, Acknowledge(c)
  PROVE  \E m \in DOMAIN messages :
           /\ DOMAIN messages' = DOMAIN messages
           /\ messages'[m].status = "canceled"
           /\ messages'[m].claimedBy = messages[m].claimedBy
           /\ \A n \in DOMAIN messages \ {m} : messages'[n] = messages[n]
           /\ stopped' = IF messages[m].status = "queued" THEN stopped \cup {m}
                                                          ELSE stopped
           /\ UNCHANGED workerVars
           /\ TypeOK'
<1> DEFINE m == cancel[c].found
<1>1. /\ Ack(m, cancel[c].inbox, "canceled") /\ UNCHANGED workerVars
      /\ stopped' = IF messages[m].status = "queued" THEN stopped \cup {m} ELSE stopped
  BY DEF Acknowledge
<1> HIDE DEF m
<1>2. "canceled" \in Terminal
  BY DEF Terminal
<1>3. MailboxTypeOK' /\ DOMAIN messages' = DOMAIN messages /\ m \in DOMAIN messages
  BY <1>1, <1>2, AckType, TasksTypes
<1>4. TypeOK'
  BY <1>1, <1>3, TasksTypes DEF TypeOK, workerVars
<1>5. /\ messages'[m] = [messages[m] EXCEPT !.status = "canceled", !.age = 0]
      /\ \A n \in DOMAIN messages \ {m} : messages'[n] = messages[n]
  BY <1>1, <1>3, TasksTypes DEF Ack
<1>6. messages'[m].status = "canceled" /\ messages'[m].claimedBy = messages[m].claimedBy
  BY <1>2, <1>3, <1>5, TasksTypes, MessageFields
<1>7. QED BY <1>1, <1>3, <1>4, <1>5, <1>6

LEMMA AcknowledgeStep ==
  ASSUME TasksInv, NEW c \in Cancels, Acknowledge(c)
  PROVE  Inv' /\ StopInv'
<1>0. Inv /\ StopInv
  BY DEF TasksInv
<1>1. PICK m \in DOMAIN messages :
        /\ DOMAIN messages' = DOMAIN messages
        /\ messages'[m].status = "canceled"
        /\ \A n \in DOMAIN messages \ {m} : messages'[n] = messages[n]
        /\ stopped' = IF messages[m].status = "queued" THEN stopped \cup {m}
                                                       ELSE stopped
        /\ UNCHANGED workerVars
        /\ TypeOK'
  BY AcknowledgeFacts
<1>2. UNCHANGED <<active, batch, cursor, handling, done, handled>>
  BY <1>1 DEF workerVars
<1>3. \A w \in Workers : RunInv(w)'
  BY <1>0, <1>2 DEF Inv, RunInv
<1>4. ClaimHasKeeper'
  <2>1. \A n \in DOMAIN messages : messages'[n].status = "claimed" =>
          messages[n].status = "claimed" /\ messages'[n].claimedBy = messages[n].claimedBy
    BY <1>1
  <2>2. \A w : Pending(w)' = Pending(w)
    BY <1>2 DEF Pending
  <2>3. QED BY <1>0, <1>1, <1>2, <2>1, <2>2 DEF Inv, ClaimHasKeeper, HasKeeper
<1>5. \A n \in DOMAIN messages : messages'[n].status = "queued" =>
        messages[n].status = "queued"
  BY <1>1
<1>6. FreshUntouched'
  BY <1>0, <1>1, <1>2, <1>5 DEF StopInv, FreshUntouched
<1>7. ASSUME NEW n \in stopped'
      PROVE  n \in DOMAIN messages' /\ messages'[n].status \in Terminal /\ handled'[n] = 0
  <2>1. CASE n \in stopped
    BY <1>0, <1>1, <1>2, <2>1 DEF StopInv, Terminal
  <2>2. CASE n \notin stopped
    <3>1. n = m /\ messages[m].status = "queued"
      BY <1>1, <1>7, <2>2
    <3>2. handled[m] = 0
      BY <1>0, <3>1, TasksTypes DEF StopInv, FreshUntouched
    <3>3. QED BY <1>1, <1>2, <3>1, <3>2 DEF Terminal
  <2>3. QED BY <2>1, <2>2
<1>8. ASSUME NEW w \in Workers, NEW p \in DOMAIN batch[w]
      PROVE  /\ batch[w][p] \in DOMAIN messages'
             /\ messages'[batch[w][p]].status # "queued"
             /\ batch[w][p] \notin stopped'
  BY <1>0, <1>1, <1>5 DEF StopInv
<1>9. StopInv'
  BY <1>2, <1>6, <1>7, <1>8 DEF StopInv
<1>10. QED BY <1>1, <1>3, <1>4, <1>9 DEF Inv

-----------------------------------------------------------------------------
(* The workers and the clock. *)

\* What claims, sends and the clock leave of StopInv: settled messages stay,
\* and only a send makes a queued message.
LEMMA StopKept ==
  ASSUME TasksInv, stopped' = stopped, handled' = handled, TypeOK',
         DOMAIN messages \subseteq DOMAIN messages',
         \A m \in DOMAIN messages :
           /\ messages[m].status \in Terminal => messages'[m].status \in Terminal
           /\ messages'[m].status = "queued" => messages[m].status = "queued",
         \A w \in Workers : \A p \in DOMAIN batch'[w] :
           \/ p \in DOMAIN batch[w] /\ batch'[w][p] = batch[w][p]
           \/ /\ batch'[w][p] \in DOMAIN messages
              /\ messages[batch'[w][p]].status \notin Terminal
              /\ messages'[batch'[w][p]].status # "queued"
  PROVE  StopInv'
<1>0. StopInv
  BY DEF TasksInv
<1>1. FreshUntouched'
  BY <1>0 DEF StopInv, FreshUntouched
<1>2. \A m \in stopped' : m \in DOMAIN messages' /\ messages'[m].status \in Terminal
                          /\ handled'[m] = 0
  BY <1>0 DEF StopInv
<1>3. ASSUME NEW w \in Workers, NEW p \in DOMAIN batch'[w]
      PROVE  /\ batch'[w][p] \in DOMAIN messages'
             /\ messages'[batch'[w][p]].status # "queued"
             /\ batch'[w][p] \notin stopped'
  BY <1>0, <1>3 DEF StopInv
<1>4. QED BY <1>1, <1>2, <1>3 DEF StopInv

LEMMA StopRunOnce ==
  ASSUME TasksInv, NEW w \in Workers, RunOnce(w), stopped' = stopped, TypeOK'
  PROVE  StopInv'
<1>1. PICK b \in Seq(Ids) :
        /\ \A p \in DOMAIN b : b[p] \in Candidates(WorkerInbox[w])
        /\ Claim(w, b)
        /\ batch' = [batch EXCEPT ![w] = b]
        /\ DOMAIN messages' = DOMAIN messages
  BY TasksTypes, RunOnceFacts
<1>2. handled' = handled
  BY DEF RunOnce
<1>3. \A p \in DOMAIN b : b[p] \in DOMAIN messages
        /\ messages[b[p]].status \in {"queued", "claimed"}
  BY <1>1 DEF Candidates, Claimable
<1>4. \A m \in DOMAIN messages :
        /\ (\E p \in DOMAIN b : b[p] = m) => messages'[m] = Claimed(messages[m], w)
        /\ ~(\E p \in DOMAIN b : b[p] = m) => messages'[m] = messages[m]
  BY <1>1 DEF Claim
<1>5. ASSUME NEW p \in DOMAIN b PROVE messages'[b[p]].status = "claimed"
  <2>1. messages'[b[p]] = Claimed(messages[b[p]], w) /\ messages[b[p]] \in Message
    BY <1>3, <1>4, TasksTypes
  <2>2. QED BY <2>1, MessageFields
<1>6. ASSUME NEW m \in DOMAIN messages
      PROVE  /\ messages[m].status \in Terminal => messages'[m].status \in Terminal
             /\ messages'[m].status = "queued" => messages[m].status = "queued"
  BY <1>3, <1>4, <1>5 DEF Terminal
<1>7. ASSUME NEW v \in Workers, NEW p \in DOMAIN batch'[v]
      PROVE  \/ p \in DOMAIN batch[v] /\ batch'[v][p] = batch[v][p]
             \/ /\ batch'[v][p] \in DOMAIN messages
                /\ messages[batch'[v][p]].status \notin Terminal
                /\ messages'[batch'[v][p]].status # "queued"
  <2>1. CASE v = w
    <3>1. batch'[v] = b
      BY <1>1, <2>1, TasksTypes
    <3>2. QED BY <1>3, <1>5, <1>7, <3>1 DEF Terminal
  <2>2. CASE v # w
    BY <1>1, <1>7, <2>2, TasksTypes
  <2>3. QED BY <2>1, <2>2
<1>8. QED BY <1>1, <1>2, <1>6, <1>7, StopKept

LEMMA StopTakeNext ==
  ASSUME TasksInv, NEW w \in Workers, NEW l \in Loops, TakeNext(w, l),
         stopped' = stopped
  PROVE  StopInv'
<1> DEFINE t == batch[w][cursor[w] + 1]
<1>0. StopInv /\ cursor[w] \in Nat /\ batch[w] \in Seq(Ids)
  BY TasksTypes DEF TasksInv, TypeOK
<1>1. messages' = messages /\ batch' = batch /\ cursor[w] < Len(batch[w])
      /\ handled' = [handled EXCEPT ![t] = IF @ < MaxHandled THEN @ + 1 ELSE @]
  BY DEF TakeNext, mailboxVars
<1>2. cursor[w] + 1 \in DOMAIN batch[w]
  BY <1>0, <1>1
<1>3. t \in DOMAIN messages /\ messages[t].status # "queued" /\ t \notin stopped
  BY <1>0, <1>2 DEF StopInv
<1>4. \A m \in Ids : m # t => handled'[m] = handled[m]
  BY <1>1, TasksTypes
<1>5. stopped \subseteq Ids
  BY DEF TasksInv, CancelTypes
<1> HIDE DEF t
<1>6. FreshUntouched'
  BY <1>0, <1>1, <1>3, <1>4 DEF StopInv, FreshUntouched
<1>7. QED BY <1>0, <1>1, <1>3, <1>4, <1>5, <1>6 DEF StopInv

LEMMA StopSettle ==
  ASSUME TasksInv, NEW w \in Workers, NEW l \in Loops, NEW status \in Terminal,
         Settle(w, l, status), stopped' = stopped, TypeOK'
  PROVE  StopInv'
<1> DEFINE t == batch[w][handling[w][l]]
<1>1. Ack(t, WorkerInbox[w], status) /\ batch' = batch /\ handled' = handled
  BY DEF Settle
<1> HIDE DEF t
<1>2. t \in DOMAIN messages /\ DOMAIN messages' = DOMAIN messages
      /\ messages'[t] = [messages[t] EXCEPT !.status = status, !.age = 0]
      /\ \A m \in DOMAIN messages \ {t} : messages'[m] = messages[m]
  BY <1>1, TasksTypes DEF Ack
<1>3. messages'[t].status = status
  BY <1>2, TasksTypes, MessageFields
<1>4. \A m \in DOMAIN messages :
        /\ messages[m].status \in Terminal => messages'[m].status \in Terminal
        /\ messages'[m].status = "queued" => messages[m].status = "queued"
  BY <1>2, <1>3 DEF Terminal
<1>5. QED BY <1>1, <1>2, <1>4, StopKept

LEMMA StopClient ==
  ASSUME TasksInv, MailboxClient, stopped' = stopped, TypeOK'
  PROVE  StopInv'
<1>0. batch' = batch /\ handled' = handled
  BY DEF MailboxClient, workerVars
<1>1. ASSUME NEW s \in Sources, NEW i \in Inboxes, NEW k \in Keys \cup {NoKey},
             Send(s, i, k), ~Replayed(s, i, k)
      PROVE  StopInv'
  <2>1. PICK new : messages' = Append(messages, new)
    BY <1>1 DEF Send
  <2>2. /\ DOMAIN messages \subseteq DOMAIN messages'
        /\ \A m \in DOMAIN messages : messages'[m] = messages[m]
    BY <2>1, TasksTypes
  <2>3. QED BY <1>0, <2>2, StopKept
<1>2. CASE Tick
  <2>1. /\ DOMAIN messages' = DOMAIN messages
        /\ \A m \in DOMAIN messages : messages'[m] = Aged(messages[m])
    BY <1>2 DEF Tick
  <2>2. \A m \in DOMAIN messages : messages'[m].status = messages[m].status
    BY <2>1, TasksTypes, MessageFields
  <2>3. QED BY <1>0, <2>1, <2>2, StopKept
<1>3. CASE messages' = messages
  BY <1>0, <1>3, StopKept
<1>4. QED
  BY <1>1, <1>2, <1>3
  DEF MailboxClient, Send, Subscribe, Unsubscribe, mailboxVars

LEMMA StopWorker ==
  ASSUME TasksInv, NEW w \in Workers, Worker(w), stopped' = stopped, TypeOK'
  PROVE  StopInv'
<1>1. CASE RunOnce(w)
  BY <1>1, StopRunOnce
<1>2. ASSUME NEW l \in Loops, TakeNext(w, l) PROVE StopInv'
  BY <1>2, StopTakeNext
<1>3. ASSUME NEW l \in Loops, NEW status \in Terminal, Settle(w, l, status)
      PROVE  StopInv'
  BY <1>3, StopSettle
<1>4. ASSUME NEW l \in Loops, Hang(w, l) PROVE StopInv'
  <2>1. messages' = messages /\ batch' = batch /\ handled' = handled
    BY <1>4 DEF Hang, mailboxVars
  <2>2. QED BY <2>1, StopKept
<1>5. CASE FinishRun(w)
  <2>1. /\ messages' = messages /\ handled' = handled
        /\ batch' = [batch EXCEPT ![w] = <<>>]
    BY <1>5 DEF FinishRun, mailboxVars
  <2>2. \A v \in Workers : \A p \in DOMAIN batch'[v] :
          p \in DOMAIN batch[v] /\ batch'[v][p] = batch[v][p]
    BY <2>1, TasksTypes
  <2>3. QED BY <2>1, <2>2, StopKept
<1>6. QED BY <1>1, <1>2, <1>3, <1>4, <1>5 DEF Worker

-----------------------------------------------------------------------------

LEMMA TasksStep == TasksInv /\ [TasksNext]_allVars => TasksInv'
<1> SUFFICES ASSUME TasksInv, [TasksNext]_allVars PROVE TasksInv'
  OBVIOUS
<1>0. Inv
  BY DEF TasksInv
<1>1. CASE TasksNext
  <2>0. CancelTypes'
    BY <1>1, CancelTypesStep
  <2>1. CASE Next /\ UNCHANGED a2aVars
    <3>1. Inv' /\ stopped' = stopped
      BY <1>0, <2>1, InvStep DEF a2aVars
    <3>2. TypeOK'
      BY <3>1 DEF Inv
    <3>3. StopInv'
      BY <2>1, <3>1, <3>2, StopClient, StopWorker DEF Next
    <3>4. QED BY <2>0, <3>1, <3>3 DEF TasksInv
  <2>2. ASSUME NEW s \in Sources, NEW i \in Inboxes, NEW t \in Tasks, SendMessage(s, i, t)
        PROVE  TasksInv'
    <3>1. MailboxClient /\ stopped' = stopped
      BY <2>2 DEF SendMessage, MailboxClient
    <3>2. Inv'
      BY <1>0, <3>1, InvStep DEF Next
    <3>3. StopInv'
      BY <3>1, <3>2, StopClient DEF Inv
    <3>4. QED BY <2>0, <3>2, <3>3 DEF TasksInv
  <2>3. ASSUME NEW c \in Cancels, Acknowledge(c) PROVE TasksInv'
    BY <2>0, <2>3, AcknowledgeStep DEF TasksInv
  <2>4. CASE UNCHANGED vars /\ stopped' = stopped
    <3>1. Inv'
      BY <1>0, <2>4, InvStep
    <3>2. messages' = messages /\ batch' = batch /\ handled' = handled
      BY <2>4 DEF vars
    <3>3. StopInv'
      BY <2>4, <3>1, <3>2, StopKept DEF Inv
    <3>4. QED BY <2>0, <3>1, <3>3 DEF TasksInv
  <2>5. QED
    BY <1>1, <2>1, <2>2, <2>3, <2>4 DEF TasksNext, A2AClient, Look, LookAgain
<1>2. CASE UNCHANGED allVars
  <2>1. UNCHANGED vars /\ UNCHANGED a2aVars
    BY <1>2 DEF allVars
  <2>2. Inv'
    BY <1>0, <2>1, InvStep
  <2>3. messages' = messages /\ batch' = batch /\ handled' = handled
        /\ task' = task /\ cancel' = cancel /\ stopped' = stopped
    BY <2>1 DEF vars, a2aVars
  <2>4. StopInv' /\ CancelTypes'
    BY <2>2, <2>3, StopKept DEF Inv, TasksInv, CancelTypes
  <2>5. QED BY <2>2, <2>4 DEF TasksInv
<1>3. QED BY <1>1, <1>2

LEMMA TasksInvInit == TasksInit => TasksInv
<1> SUFFICES ASSUME TasksInit PROVE TasksInv
  OBVIOUS
<1>1. Inv
  BY InvInit DEF TasksInit
<1>2. CancelTypes
  BY DEF TasksInit, CancelTypes, NewCancel
<1>3. messages = <<>> /\ handled = [m \in Ids |-> 0] /\ stopped = {}
      /\ batch = [w \in Workers |-> <<>>]
  BY DEF TasksInit, Init, MailboxInit
<1>4. StopInv
  BY <1>3 DEF StopInv, FreshUntouched
<1>5. QED BY <1>1, <1>2, <1>4 DEF TasksInv

LEMMA TasksInvariant == TasksSpec => []TasksInv
BY TasksInvInit, TasksStep, PTL DEF TasksSpec

\* Every reachable state of the mailbox, its workers and its A2A clients is
\* well typed.
THEOREM TasksTypeCorrect == TasksSpec => []TasksTypeOK
<1>1. TasksInv => TasksTypeOK
  BY DEF TasksInv, Inv, CancelTypes, TasksTypeOK
<1>2. QED BY <1>1, TasksInvariant, PTL

\* Canceling tasks under the workers orphans no claimed message (cancelTask
\* of json-rpc-mailbox-adapter.ts over ack of in-memory-agent-mailbox.ts).
THEOREM CancelsKeepKeepers == TasksSpec => []ClaimHasKeeper
<1>1. TasksInv => ClaimHasKeeper
  BY DEF TasksInv, Inv
<1>2. QED BY <1>1, TasksInvariant, PTL

\* A task that was still queued when its cancel was acknowledged is never
\* handled, though cancelTask looks it up twice before, with awaits between.
THEOREM CanceledNeverHandled == TasksSpec => []StoppedNeverHandled
<1>1. TasksInv => StoppedNeverHandled
  BY DEF TasksInv, StopInv, StoppedNeverHandled
<1>2. QED BY <1>1, TasksInvariant, PTL

\* A settled message is never queued or claimed again, cancels included.
THEOREM SettledForGoodWithCancels == TasksSpec => TerminalNeverReopened
<1>1. TasksInv /\ [TasksNext]_allVars =>
        [\A m \in DOMAIN messages :
           messages[m].status \in Terminal => messages'[m].status \in Terminal]_vars
  <2> SUFFICES ASSUME TasksInv, [TasksNext]_allVars, NEW m \in DOMAIN messages,
                      messages[m].status \in Terminal, vars' # vars
               PROVE  messages'[m].status \in Terminal
    OBVIOUS
  <2>1. Inv
    BY DEF TasksInv
  <2>2. CASE [Next]_vars
    BY <2>1, <2>2, TerminalStep
  <2>3. ASSUME NEW c \in Cancels, Acknowledge(c) PROVE messages'[m].status \in Terminal
    BY <2>3, AcknowledgeFacts DEF Terminal
  <2>4. ASSUME NEW s \in Sources, NEW i \in Inboxes, NEW t \in Tasks, SendMessage(s, i, t)
        PROVE  Next
    BY <2>4 DEF SendMessage, Next, MailboxClient
  <2>5. QED
    BY <2>2, <2>3, <2>4 DEF TasksNext, A2AClient, Look, LookAgain, allVars
<1>2. QED BY <1>1, TasksInvariant, PTL DEF TasksSpec, TerminalNeverReopened

-----------------------------------------------------------------------------
(* Handled once, cancels included.  A cancel settles a message under the    *)
(* worker that handles it, so that a pending entry need not be claimed any  *)
(* more; but it is not queued, and its claim is still the worker's.         *)

LEMMA OnceAcknowledge ==
  ASSUME TasksInv, OnceInv, NEW c \in Cancels, Acknowledge(c)
  PROVE  OnceInv'
<1>1. PICK m \in DOMAIN messages :
        /\ DOMAIN messages' = DOMAIN messages
        /\ messages'[m].status = "canceled"
        /\ messages'[m].claimedBy = messages[m].claimedBy
        /\ \A n \in DOMAIN messages \ {m} : messages'[n] = messages[n]
        /\ UNCHANGED workerVars
  BY AcknowledgeFacts
<1>2. UNCHANGED <<active, batch, cursor, done, handled>>
  BY <1>1 DEF workerVars
<1>3. \A n \in DOMAIN messages :
        /\ messages'[n].status = "queued" => messages[n].status = "queued"
        /\ messages'[n].claimedBy = messages[n].claimedBy
  BY <1>1
<1>4. Inv'
  BY AcknowledgeStep
<1>5. FreshUntouched' /\ BatchInjective' /\ NoDuplicateHandling'
  BY <1>1, <1>2, <1>3 DEF OnceInv, FreshUntouched, BatchInjective, NoDuplicateHandling
<1>6. ASSUME NEW w \in Workers, NEW p \in Pending(w)' PROVE Held(w, p)'
  <2>1. p \in Pending(w) /\ Held(w, p)
    BY <1>2 DEF Pending, OnceInv
  <2>2. QED BY <1>1, <1>2, <1>3, <2>1 DEF Held
<1>7. QED BY <1>4, <1>5, <1>6 DEF OnceInv

LEMMA OnceTasksStep ==
  TasksInv /\ OnceInv /\ LeasesLast /\ [TasksNext]_allVars => OnceInv'
<1> SUFFICES ASSUME TasksInv, OnceInv, LeasesLast, [TasksNext]_allVars PROVE OnceInv'
  OBVIOUS
<1>1. CASE [Next]_vars
  BY <1>1, OnceStep
<1>2. ASSUME NEW c \in Cancels, Acknowledge(c) PROVE OnceInv'
  BY <1>2, OnceAcknowledge
<1>3. ASSUME NEW s \in Sources, NEW i \in Inboxes, NEW t \in Tasks, SendMessage(s, i, t)
      PROVE  Next
  BY <1>3 DEF SendMessage, Next, MailboxClient
<1>4. QED
  BY <1>1, <1>2, <1>3 DEF TasksNext, A2AClient, Look, LookAgain, allVars

\* While no lease runs out on a claimed message, none is handed to two
\* handlers, cancels included: one that acknowledges a message under its
\* handler (ackTask) does not give it back to the workers.
THEOREM HandledOnceWithCancels == TasksSpec /\ []LeasesLast => []NoDuplicateHandling
<1>1. TasksInit => OnceInv
  BY OnceInit DEF TasksInit
<1>2. OnceInv => NoDuplicateHandling
  BY DEF OnceInv
<1>3. QED BY <1>1, <1>2, OnceTasksStep, TasksInvariant, PTL DEF TasksSpec
=============================================================================
