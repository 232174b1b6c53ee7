------------------------- MODULE AgentMailboxProofs -------------------------
(***************************************************************************)
(* Proofs about the mailbox and its workers, for every set of workers,     *)
(* inboxes and messages.                                                   *)
(***************************************************************************)
EXTENDS AgentMailboxWorker, TLAPS

USE MailboxAssumption, WorkerAssumption DEF MailboxAssumption, WorkerAssumption

-----------------------------------------------------------------------------
(* What the mailbox operations do to the type of its state. *)

LEMMA FieldTypes ==
  ASSUME NEW msg \in Message
  PROVE  /\ \A x \in Status : [msg EXCEPT !.status = x] \in Message
         /\ \A x \in Workers : [msg EXCEPT !.claimedBy = x] \in Message
         /\ \A x \in 0..MaxAge : [msg EXCEPT !.age = x] \in Message
         /\ \A x \in {NoLease} \cup (0..LeaseMs) :
              [msg EXCEPT !.lease = x] \in Message
<1>1. ASSUME NEW x \in Status PROVE [msg EXCEPT !.status = x] \in Message
  BY DEF Message
<1>2. ASSUME NEW x \in Workers PROVE [msg EXCEPT !.claimedBy = x] \in Message
  BY DEF Message
<1>3. ASSUME NEW x \in 0..MaxAge PROVE [msg EXCEPT !.age = x] \in Message
  BY DEF Message
<1>4. ASSUME NEW x \in {NoLease} \cup (0..LeaseMs)
      PROVE  [msg EXCEPT !.lease = x] \in Message
  BY DEF Message
<1>5. QED BY <1>1, <1>2, <1>3, <1>4

LEMMA ClaimedType ==
  ASSUME NEW msg \in Message, NEW w \in Workers
  PROVE  Claimed(msg, w) \in Message
<1> DEFINE l == IF LeaseMs = 0 THEN NoLease ELSE LeaseMs
           m1 == [msg EXCEPT !.status = "claimed"]
           m2 == [m1 EXCEPT !.claimedBy = w]
           m3 == [m2 EXCEPT !.age = 0]
           m4 == [m3 EXCEPT !.lease = l]
<1>1. m1 \in Message
  <2>1. "claimed" \in Status
    BY DEF Status
  <2>2. QED BY <2>1, FieldTypes
<1>2. m2 \in Message
  <2> HIDE DEF m1
  <2>1. QED BY <1>1, FieldTypes
<1>3. m3 \in Message
  <2> HIDE DEF m2
  <2>1. QED BY <1>2, FieldTypes
<1>4. m4 \in Message
  <2> HIDE DEF m3
  <2>1. l \in {NoLease} \cup (0..LeaseMs)
    OBVIOUS
  <2>2. QED BY <1>3, <2>1, FieldTypes
<1>5. Claimed(msg, w) = m4
  BY DEF Claimed
<1>6. QED BY <1>4, <1>5

LEMMA AckedType ==
  ASSUME NEW msg \in Message, NEW s \in Terminal
  PROVE  [msg EXCEPT !.status = s, !.age = 0] \in Message
<1> DEFINE m1 == [msg EXCEPT !.status = s]
           m2 == [m1 EXCEPT !.age = 0]
<1>1. m1 \in Message
  <2>1. s \in Status
    BY DEF Status
  <2>2. QED BY <2>1, FieldTypes
<1>2. m2 \in Message
  <2> HIDE DEF m1
  <2>1. QED BY <1>1, FieldTypes
<1>3. [msg EXCEPT !.status = s, !.age = 0] = m2
  OBVIOUS
<1>4. QED BY <1>2, <1>3

LEMMA AgedType ==
  ASSUME NEW msg \in Message
  PROVE  Aged(msg) \in Message
<1> DEFINE a == IF msg.age < MaxAge THEN msg.age + 1 ELSE msg.age
           m1 == [msg EXCEPT !.age = a]
           l == IF msg.lease > 0 THEN msg.lease - 1 ELSE msg.lease
           m2 == [m1 EXCEPT !.lease = l]
<1>1. a \in 0..MaxAge /\ l \in {NoLease} \cup (0..LeaseMs)
  BY DEF Message, NoLease
<1> HIDE DEF a, l
<1>2. m1 \in Message
  BY <1>1, FieldTypes
<1>3. m2 \in Message
  <2> HIDE DEF m1
  <2>1. QED BY <1>1, <1>2, FieldTypes
<1>4. Aged(msg) = m2
  BY DEF Aged, a, l
<1>5. QED BY <1>3, <1>4

LEMMA NotifyType ==
  ASSUME NEW changed, MailboxTypeOK, messages' \in Seq(Message), Notify(changed),
         changed \subseteq DOMAIN messages'
  PROVE  view' \in [Ids -> Status \cup {"unseen"}]
<1>1. ASSUME NEW m \in changed PROVE messages'[m].status \in Status
  <2>1. messages'[m] \in Message
    OBVIOUS
  <2>2. QED BY <2>1 DEF Message
<1>2. QED BY <1>1 DEF Notify, MailboxTypeOK

LEMMA SendType ==
  ASSUME MailboxTypeOK, NEW s \in Sources, NEW i \in Inboxes,
         NEW k \in Keys \cup {NoKey}, Send(s, i, k)
  PROVE  MailboxTypeOK'
<1> DEFINE new == [inbox |-> i, source |-> s, key |-> k, status |-> "queued",
                   claimedBy |-> NoWorker, lease |-> NoLease, age |-> 0]
<1>1. CASE Replayed(s, i, k)
  BY <1>1 DEF Send, MailboxTypeOK, mailboxVars
<1>2. CASE ~Replayed(s, i, k)
  <2>1. new \in Message
    BY DEF Message, Status
  <2>2. /\ messages' = Append(messages, new)
        /\ Len(messages) < MaxMessages
        /\ Notify({Len(messages) + 1})
        /\ watching' = watching
    BY <1>2 DEF Send
  <2> HIDE DEF new
  <2>3. messages' \in Seq(Message) /\ Len(messages') <= MaxMessages
        /\ Len(messages) + 1 \in DOMAIN messages'
    BY <2>1, <2>2 DEF MailboxTypeOK
  <2>4. view' \in [Ids -> Status \cup {"unseen"}]
    BY <2>2, <2>3, NotifyType
  <2>5. QED BY <2>2, <2>3, <2>4 DEF MailboxTypeOK
<1>3. QED BY <1>1, <1>2

LEMMA BatchesType ==
  ASSUME MailboxTypeOK, NEW inbox, NEW limit \in Nat,
         NEW b \in Batches(inbox, limit)
  PROVE  /\ b \in Seq(Ids)
         /\ \A p \in DOMAIN b : b[p] \in Candidates(inbox)
         /\ \A p, q \in DOMAIN b : b[p] = b[q] => p = q
<1>1. PICK k \in 0..limit : b \in [1..k -> Candidates(inbox)]
  BY DEF Batches
<1>2. Candidates(inbox) \subseteq DOMAIN messages
  BY DEF Candidates
<1>3. DOMAIN messages \subseteq Ids
  BY DEF MailboxTypeOK, Ids
<1>4. b \in [1..k -> Ids] /\ k \in Nat
  BY <1>1, <1>2, <1>3
<1>5. b \in Seq(Ids)
  BY <1>4
<1>6. \A p, q \in DOMAIN b : p < q => Older(b[p], b[q])
  BY DEF Batches, OldestBatch
<1>7. ASSUME NEW p \in DOMAIN b, NEW q \in DOMAIN b, p < q, b[p] = b[q]
      PROVE  FALSE
  <2>1. Older(b[p], b[p])
    BY <1>6, <1>7
  <2>2. b[p] \in DOMAIN messages
    BY <1>1, <1>2, <1>7
  <2>3. messages[b[p]] \in Message
    BY <2>2 DEF MailboxTypeOK
  <2>4. messages[b[p]].age \in Nat /\ b[p] \in Nat
    BY <2>2, <2>3, <1>3 DEF Message, Ids
  <2>5. QED BY <2>1, <2>4 DEF Older
<1>8. \A p, q \in DOMAIN b : b[p] = b[q] => p = q
  <2>1. DOMAIN b = 1..k
    BY <1>1
  <2>2. QED BY <1>7, <2>1, <1>4
<1>9. QED BY <1>1, <1>5, <1>8

LEMMA ClaimType ==
  ASSUME MailboxTypeOK, NEW w \in Workers, NEW b \in Seq(Ids),
         \A p \in DOMAIN b : b[p] \in DOMAIN messages,
         Claim(w, b)
  PROVE  MailboxTypeOK' /\ DOMAIN messages' = DOMAIN messages
<1> DEFINE taken == {b[p] : p \in DOMAIN b}
<1>1. \A m \in DOMAIN messages : Claimed(messages[m], w) \in Message
  BY ClaimedType DEF MailboxTypeOK
<1>2. messages' = [m \in DOMAIN messages |->
                     IF m \in taken THEN Claimed(messages[m], w) ELSE messages[m]]
      /\ Notify(taken) /\ watching' = watching
  BY DEF Claim
<1>3. messages' \in Seq(Message) /\ Len(messages') = Len(messages)
      /\ DOMAIN messages' = DOMAIN messages
  BY <1>1, <1>2 DEF MailboxTypeOK
<1>4. taken \subseteq DOMAIN messages'
  BY <1>3
<1>5. view' \in [Ids -> Status \cup {"unseen"}]
  BY <1>2, <1>3, <1>4, NotifyType
<1>6. QED BY <1>2, <1>3, <1>5 DEF MailboxTypeOK

LEMMA AckType ==
  ASSUME MailboxTypeOK, NEW m, NEW i, NEW status \in Terminal, Ack(m, i, status)
  PROVE  /\ MailboxTypeOK'
         /\ DOMAIN messages' = DOMAIN messages
         /\ m \in DOMAIN messages
<1>1. messages[m] \in Message
  BY DEF Ack, MailboxTypeOK
<1>2. [messages[m] EXCEPT !.status = status, !.age = 0] \in Message
  BY <1>1, AckedType
<1>3. messages' = [messages EXCEPT ![m] =
                     [messages[m] EXCEPT !.status = status, !.age = 0]]
      /\ Notify({m}) /\ watching' = watching /\ m \in DOMAIN messages
  BY DEF Ack
<1>4. messages' \in Seq(Message) /\ Len(messages') = Len(messages)
      /\ DOMAIN messages' = DOMAIN messages
  BY <1>2, <1>3 DEF MailboxTypeOK
<1>5. view' \in [Ids -> Status \cup {"unseen"}]
  BY <1>3, <1>4, NotifyType
<1>6. QED BY <1>3, <1>4, <1>5 DEF MailboxTypeOK

LEMMA TickType ==
  ASSUME MailboxTypeOK, Tick
  PROVE  MailboxTypeOK' /\ DOMAIN messages' = DOMAIN messages
<1>1. \A m \in DOMAIN messages : Aged(messages[m]) \in Message
  BY AgedType DEF MailboxTypeOK
<1>2. messages' \in Seq(Message) /\ Len(messages') = Len(messages)
      /\ DOMAIN messages' = DOMAIN messages
  BY <1>1 DEF Tick, MailboxTypeOK
<1>3. QED BY <1>2 DEF Tick, MailboxTypeOK

LEMMA SubscriptionType ==
  ASSUME MailboxTypeOK, NEW i \in Inboxes, Subscribe(i) \/ Unsubscribe(i)
  PROVE  MailboxTypeOK' /\ messages' = messages
BY DEF MailboxTypeOK, Subscribe, Unsubscribe

-----------------------------------------------------------------------------
(* Type correctness of the mailbox composed with its workers. *)

LEMMA InitType == Init => TypeOK
<1> SUFFICES ASSUME Init PROVE TypeOK
  OBVIOUS
<1>1. MailboxTypeOK
  BY DEF Init, MailboxInit, MailboxTypeOK, Ids
<1>2. QED BY <1>1 DEF Init, TypeOK, Ids, MaxHandled, Loops

LEMMA ClientType ==
  ASSUME TypeOK, MailboxClient
  PROVE  TypeOK'
<1>1. MailboxTypeOK'
  BY SendType, SubscriptionType, TickType DEF MailboxClient, TypeOK
<1>2. QED BY <1>1 DEF TypeOK, MailboxClient, workerVars

LEMMA RunOnceFacts ==
  ASSUME TypeOK, NEW w \in Workers, RunOnce(w)
  PROVE  \E b \in Seq(Ids) :
           /\ b \in Batches(WorkerInbox[w], BatchSize)
           /\ \A p \in DOMAIN b : b[p] \in Candidates(WorkerInbox[w])
           /\ \A p \in DOMAIN b : b[p] \in DOMAIN messages
           /\ \A p, q \in DOMAIN b : b[p] = b[q] => p = q
           /\ Claim(w, b)
           /\ batch' = [batch EXCEPT ![w] = b]
           /\ MailboxTypeOK'
           /\ DOMAIN messages' = DOMAIN messages
<1>1. PICK b \in Batches(WorkerInbox[w], BatchSize) :
        Claim(w, b) /\ batch' = [batch EXCEPT ![w] = b]
  BY DEF RunOnce
<1>2. /\ b \in Seq(Ids)
      /\ \A p \in DOMAIN b : b[p] \in Candidates(WorkerInbox[w])
      /\ \A p, q \in DOMAIN b : b[p] = b[q] => p = q
  BY BatchesType DEF TypeOK
<1>3. \A p \in DOMAIN b : b[p] \in DOMAIN messages
  BY <1>2 DEF Candidates
<1>4. MailboxTypeOK' /\ DOMAIN messages' = DOMAIN messages
  BY <1>1, <1>2, <1>3, ClaimType DEF TypeOK
<1>5. QED BY <1>1, <1>2, <1>3, <1>4

LEMMA WorkerType ==
  ASSUME TypeOK, NEW w \in Workers, Worker(w)
  PROVE  TypeOK'
<1>1. CASE RunOnce(w)
  <2>1. batch' \in [Workers -> Seq(Ids)] /\ MailboxTypeOK'
    <3>1. PICK b \in Seq(Ids) : batch' = [batch EXCEPT ![w] = b] /\ MailboxTypeOK'
      BY <1>1, RunOnceFacts
    <3>2. QED BY <3>1 DEF TypeOK
  <2>2. done' \in [Workers -> SUBSET (Nat \ {0})] /\ cursor' \in [Workers -> Nat]
        /\ active' \in [Workers -> BOOLEAN]
    BY <1>1 DEF RunOnce, TypeOK
  <2>4. handling' = handling /\ hung' = hung /\ handled' = handled
    BY <1>1 DEF RunOnce
  <2>5. QED BY <2>1, <2>2, <2>4 DEF TypeOK
<1>2. ASSUME NEW l \in Loops, TakeNext(w, l) PROVE TypeOK'
  <2>1. MailboxTypeOK'
    BY <1>2 DEF TakeNext, mailboxVars, TypeOK, MailboxTypeOK
  <2>2. handling' \in [Workers -> [Loops -> Nat]]
        /\ cursor' \in [Workers -> Nat]
    BY <1>2 DEF TakeNext, TypeOK
  <2>3. handled' \in [Ids -> 0..MaxHandled]
    BY <1>2 DEF TakeNext, TypeOK, MaxHandled
  <2>4. QED BY <1>2, <2>1, <2>2, <2>3 DEF TakeNext, TypeOK
<1>3. ASSUME NEW l \in Loops, NEW status \in Terminal, Settle(w, l, status)
      PROVE  TypeOK'
  <2>1. MailboxTypeOK'
    BY <1>3, AckType DEF Settle, TypeOK
  <2>2. handling' \in [Workers -> [Loops -> Nat]]
    BY <1>3 DEF Settle, TypeOK
  <2>4. done' \in [Workers -> SUBSET (Nat \ {0})]
    BY <1>3 DEF Settle, TypeOK
  <2>5. active' = active /\ batch' = batch /\ cursor' = cursor /\ hung' = hung
        /\ handled' = handled
    BY <1>3 DEF Settle
  <2>6. QED BY <2>1, <2>2, <2>4, <2>5 DEF TypeOK
<1>4. ASSUME NEW l \in Loops, Hang(w, l) PROVE TypeOK'
  <2>1. hung' \in SUBSET (CanHang \X Loops)
    BY <1>4 DEF Hang, TypeOK
  <2>2. MailboxTypeOK'
    BY <1>4 DEF Hang, TypeOK, mailboxVars, MailboxTypeOK
  <2>3. UNCHANGED <<active, batch, cursor, handling, done, handled>>
    BY <1>4 DEF Hang
  <2>4. QED BY <2>1, <2>2, <2>3 DEF TypeOK
<1>5. CASE FinishRun(w)
  BY <1>5 DEF FinishRun, TypeOK, mailboxVars, MailboxTypeOK
<1>6. QED BY <1>1, <1>2, <1>3, <1>4, <1>5 DEF Worker

LEMMA TypeStep == TypeOK /\ [Next]_vars => TypeOK'
<1> SUFFICES ASSUME TypeOK, [Next]_vars PROVE TypeOK'
  OBVIOUS
<1>1. CASE MailboxClient
  BY <1>1, ClientType
<1>2. ASSUME NEW w \in Workers, Worker(w) PROVE TypeOK'
  BY <1>2, WorkerType
<1>3. CASE UNCHANGED vars
  BY <1>3 DEF vars, TypeOK, MailboxTypeOK
<1>4. QED BY <1>1, <1>2, <1>3 DEF Next

\* Every reachable state of the mailbox and its workers is well typed.
THEOREM TypeCorrect == Spec => []TypeOK
BY InitType, TypeStep, PTL DEF Spec

-----------------------------------------------------------------------------
(* The run of a worker: its loops split the batch, and a claimed message    *)
(* stays in the batch of its claimer until it is settled.                   *)

RunInv(w) ==
  /\ cursor[w] <= Len(batch[w])
  /\ done[w] \subseteq 1..cursor[w]
  /\ \A l \in Loops : handling[w][l] <= cursor[w]
  /\ ~active[w] => \A l \in Loops : handling[w][l] = 0
  /\ \A l, k \in Loops :
       handling[w][l] = handling[w][k] /\ handling[w][l] # 0 => l = k
  /\ \A p \in 1..cursor[w] : active[w] =>
       (p \in done[w]) <=> ~(\E l \in Loops : handling[w][l] = p)

Inv == TypeOK /\ (\A w \in Workers : RunInv(w)) /\ ClaimHasKeeper

LEMMA RunInvStep ==
  ASSUME Inv, NEW w \in Workers, Worker(w), NEW v \in Workers, TypeOK'
  PROVE  RunInv(v)'
<1>0. RunInv(v) /\ TypeOK
  BY DEF Inv
<1>1. CASE v # w
  <2>1. /\ cursor'[v] = cursor[v] /\ batch'[v] = batch[v] /\ done'[v] = done[v]
        /\ handling'[v] = handling[v] /\ active'[v] = active[v]
    BY <1>0, <1>1 DEF Worker, RunOnce, TakeNext, Settle, Hang, FinishRun, TypeOK
  <2>2. QED BY <2>1, <1>0 DEF RunInv
<1>2. CASE v = w /\ RunOnce(w)
  <2>1. PICK b \in Seq(Ids) : batch' = [batch EXCEPT ![w] = b]
    BY <1>0, <1>2, RunOnceFacts
  <2>2. /\ cursor'[v] = 0 /\ batch'[v] \in Seq(Ids) /\ done'[v] = {}
        /\ handling'[v] = handling[v] /\ ~active[v] /\ active'[v]
    BY <1>0, <1>2, <2>1 DEF RunOnce, TypeOK
  <2>3. \A l \in Loops : handling[v][l] = 0
    BY <1>0, <2>2 DEF RunInv
  <2>4. QED BY <2>2, <2>3 DEF RunInv
<1>3. ASSUME v = w, NEW l \in Loops, TakeNext(w, l) PROVE RunInv(v)'
  <2>1. /\ cursor'[v] = cursor[v] + 1 /\ batch'[v] = batch[v]
        /\ done'[v] = done[v] /\ active'[v] = active[v] /\ active[v]
        /\ handling'[v] = [handling[v] EXCEPT ![l] = cursor[v] + 1]
        /\ handling[v][l] = 0 /\ cursor[v] < Len(batch[v])
    BY <1>0, <1>3 DEF TakeNext, TypeOK
  <2>2. /\ cursor[v] \in Nat /\ Len(batch[v]) \in Nat
        /\ handling[v] \in [Loops -> Nat] /\ done[v] \subseteq Nat
    <3>1. batch[v] \in Seq(Ids) /\ done[v] \in SUBSET (Nat \ {0})
      BY <1>0 DEF TypeOK
    <3>2. cursor[v] \in Nat /\ handling[v] \in [Loops -> Nat]
      BY <1>0 DEF TypeOK
    <3>3. QED BY <3>1, <3>2
  <2>3. ASSUME NEW p \in 1..(cursor[v] + 1)
        PROVE  (p \in done[v]) <=> ~(\E k \in Loops : handling'[v][k] = p)
    <3>1. CASE p = cursor[v] + 1
      <4>1. p \notin done[v]
        BY <1>0, <2>2, <3>1 DEF RunInv
      <4>2. handling'[v][l] = p
        BY <2>1, <2>2, <3>1
      <4>3. QED BY <4>1, <4>2
    <3>2. CASE p \in 1..cursor[v]
      <4>1. \A k \in Loops : handling'[v][k] = p <=> handling[v][k] = p
        BY <2>1, <2>2, <3>2
      <4>2. QED BY <1>0, <2>1, <3>2, <4>1 DEF RunInv
    <3>3. QED BY <3>1, <3>2, <2>2
  <2>4. \A j, k \in Loops :
          handling'[v][j] = handling'[v][k] /\ handling'[v][j] # 0 => j = k
    <3>1. \A k \in Loops : handling[v][k] <= cursor[v]
      BY <1>0 DEF RunInv
    <3>2. QED BY <1>0, <2>1, <2>2, <3>1 DEF RunInv
  <2>5. \A k \in Loops : handling'[v][k] <= cursor'[v]
    BY <1>0, <2>1, <2>2 DEF RunInv
  <2>6. done'[v] \subseteq 1..cursor'[v] /\ cursor'[v] <= Len(batch'[v])
    BY <1>0, <2>1, <2>2 DEF RunInv
  <2>7. QED BY <2>1, <2>3, <2>4, <2>5, <2>6 DEF RunInv
<1>4. ASSUME v = w, NEW l \in Loops, NEW status \in Terminal,
             Settle(w, l, status)
      PROVE  RunInv(v)'
  <2> DEFINE q == handling[v][l]
  <2>1. /\ cursor'[v] = cursor[v] /\ batch'[v] = batch[v]
        /\ done'[v] = done[v] \cup {q} /\ active'[v] = active[v]
        /\ handling'[v] = [handling[v] EXCEPT ![l] = 0] /\ q # 0
    BY <1>0, <1>4 DEF Settle, TypeOK
  <2>2. /\ cursor[v] \in Nat /\ handling[v] \in [Loops -> Nat] /\ q \in Nat
    BY <1>0 DEF TypeOK
  <2>3. active[v] /\ q \in 1..cursor[v]
    BY <1>0, <2>1, <2>2 DEF RunInv
  <2>4. ASSUME NEW p \in 1..cursor[v]
        PROVE  (p \in done'[v]) <=> ~(\E k \in Loops : handling'[v][k] = p)
    <3>1. CASE p = q
      <4>1. \A k \in Loops : handling'[v][k] # q
        BY <1>0, <2>1, <2>2 DEF RunInv
      <4>2. QED BY <2>1, <3>1, <4>1
    <3>2. CASE p # q
      <4>1. \A k \in Loops : handling'[v][k] = p <=> handling[v][k] = p
        BY <2>1, <2>2, <3>2
      <4>2. QED BY <1>0, <2>1, <2>3, <3>2, <4>1 DEF RunInv
    <3>3. QED BY <3>1, <3>2
  <2>5. \A j, k \in Loops :
          handling'[v][j] = handling'[v][k] /\ handling'[v][j] # 0 => j = k
    BY <1>0, <2>1, <2>2 DEF RunInv
  <2>6. \A k \in Loops : handling'[v][k] <= cursor'[v]
    BY <1>0, <2>1, <2>2 DEF RunInv
  <2>7. done'[v] \subseteq 1..cursor'[v] /\ cursor'[v] <= Len(batch'[v])
    BY <1>0, <2>1, <2>3 DEF RunInv
  <2>8. QED BY <2>1, <2>3, <2>4, <2>5, <2>6, <2>7 DEF RunInv
<1>5. ASSUME v = w, NEW l \in Loops, Hang(w, l) PROVE RunInv(v)'
  BY <1>0, <1>5 DEF Hang, RunInv
<1>6. CASE v = w /\ FinishRun(w)
  <2>1. /\ cursor'[v] = 0 /\ batch'[v] = <<>> /\ done'[v] = {}
        /\ handling' = handling /\ ~active'[v]
    BY <1>0, <1>6 DEF FinishRun, TypeOK
  <2>2. \A l \in Loops : handling[v][l] = 0
    BY <1>6 DEF FinishRun, LoopsEnded
  <2>3. QED BY <2>1, <2>2 DEF RunInv
<1>7. QED BY <1>1, <1>2, <1>3, <1>4, <1>5, <1>6 DEF Worker

LEMMA KeeperStep ==
  ASSUME Inv, TypeOK', NEW w \in Workers, Worker(w)
  PROVE  ClaimHasKeeper'
<1>0. TypeOK /\ ClaimHasKeeper /\ RunInv(w)
  BY DEF Inv
<1> SUFFICES ASSUME NEW m \in DOMAIN messages', messages'[m].status = "claimed"
             PROVE  HasKeeper(m)'
  BY DEF ClaimHasKeeper
<1>a. ASSUME m \in DOMAIN messages, messages'[m] = messages[m],
             LET o == messages[m].claimedBy IN
               /\ batch'[o] = batch[o] /\ active'[o] = active[o]
               /\ \A p \in DOMAIN batch[o] :
                    p \in done'[o] /\ p \notin done[o] => batch[o][p] # m
      PROVE  HasKeeper(m)'
  <2>1. PICK p \in Pending(messages[m].claimedBy) :
          batch[messages[m].claimedBy][p] = m
    BY <1>0, <1>a DEF ClaimHasKeeper, HasKeeper
  <2>2. messages[m].claimedBy \in Workers
    BY <1>0, <1>a DEF ClaimHasKeeper, HasKeeper
  <2>3. QED BY <1>a, <2>1, <2>2 DEF HasKeeper, Pending
<1>1. CASE RunOnce(w)
  <2>1. PICK b \in Seq(Ids) :
          /\ Claim(w, b)
          /\ batch' = [batch EXCEPT ![w] = b]
          /\ DOMAIN messages' = DOMAIN messages
    BY <1>0, <1>1, RunOnceFacts
  <2>2. /\ done' = [done EXCEPT ![w] = {}]
        /\ active' = [active EXCEPT ![w] = TRUE] /\ ~active[w]
    BY <1>1 DEF RunOnce
  <2>3. batch \in [Workers -> Seq(Ids)] /\ active \in [Workers -> BOOLEAN]
        /\ done \in [Workers -> SUBSET (Nat \ {0})] /\ messages \in Seq(Message)
    BY <1>0 DEF TypeOK, MailboxTypeOK
  <2>4. CASE \E p \in DOMAIN b : b[p] = m
    <3>1. messages'[m] = Claimed(messages[m], w)
      BY <2>1, <2>4 DEF Claim
    <3>2. messages'[m].claimedBy = w
      BY <2>1, <2>3, <3>1 DEF Claimed, Message
    <3>3. PICK p \in DOMAIN b : b[p] = m
      BY <2>4
    <3>4. p \in Pending(w)' /\ batch'[w][p] = m
      BY <2>1, <2>2, <2>3, <3>3 DEF Pending
    <3>5. QED BY <3>2, <3>4 DEF HasKeeper
  <2>5. CASE ~\E p \in DOMAIN b : b[p] = m
    <3>1. messages'[m] = messages[m] /\ m \in DOMAIN messages
      BY <2>1, <2>5 DEF Claim
    <3>2. messages[m].claimedBy \in Workers /\ active[messages[m].claimedBy]
      BY <1>0, <3>1 DEF ClaimHasKeeper, HasKeeper, Pending
    <3>3. messages[m].claimedBy # w
      BY <2>2, <3>2
    <3>4. QED BY <1>a, <2>1, <2>2, <2>3, <3>1, <3>2, <3>3
  <2>6. QED BY <2>4, <2>5
<1>3. CASE \E l \in Loops : TakeNext(w, l) \/ Hang(w, l)
  <2>1. messages' = messages /\ batch' = batch /\ active' = active /\ done' = done
    BY <1>3 DEF TakeNext, Hang, mailboxVars
  <2>2. QED BY <1>a, <2>1
<1>4. ASSUME NEW l \in Loops, NEW status \in Terminal, Settle(w, l, status)
      PROVE  HasKeeper(m)'
  <2> DEFINE q == batch[w][handling[w][l]]
  <2>1. q \in DOMAIN messages
        /\ messages' = [messages EXCEPT ![q].status = status, ![q].age = 0]
    BY <1>4 DEF Settle, Ack
  <2>2. messages \in Seq(Message) /\ done \in [Workers -> SUBSET (Nat \ {0})]
    BY <1>0 DEF TypeOK, MailboxTypeOK
  <2>3. m # q
    <3>1. messages[q] \in Message
      BY <2>1, <2>2
    <3>2. messages'[q].status = status
      BY <2>1, <2>2, <3>1 DEF Message
    <3>3. QED BY <3>2 DEF Terminal
  <2>4. m \in DOMAIN messages /\ messages'[m] = messages[m]
    BY <2>1, <2>2, <2>3
  <2>5. batch' = batch /\ active' = active
        /\ done' = [done EXCEPT ![w] = @ \cup {handling[w][l]}]
    BY <1>4 DEF Settle
  <2>6. messages[m].claimedBy \in Workers
    BY <1>0, <2>4 DEF ClaimHasKeeper, HasKeeper
  <2>7. \A p \in DOMAIN batch[messages[m].claimedBy] :
          p \in done'[messages[m].claimedBy] /\ p \notin done[messages[m].claimedBy]
          => batch[messages[m].claimedBy][p] # m
    BY <2>2, <2>3, <2>5, <2>6
  <2>8. QED BY <1>a, <2>4, <2>5, <2>7
<1>5. CASE FinishRun(w)
  <2>1. /\ messages' = messages
        /\ active' = [active EXCEPT ![w] = FALSE]
        /\ batch' = [batch EXCEPT ![w] = <<>>]
        /\ done' = [done EXCEPT ![w] = {}]
        /\ cursor[w] >= Len(batch[w]) /\ active[w]
        /\ \A l \in Loops : handling[w][l] = 0
    BY <1>5 DEF FinishRun, LoopsEnded, mailboxVars
  <2>2. batch \in [Workers -> Seq(Ids)] /\ active \in [Workers -> BOOLEAN]
        /\ cursor \in [Workers -> Nat] /\ done \in [Workers -> SUBSET (Nat \ {0})]
    BY <1>0 DEF TypeOK
  <2>3. \A p \in DOMAIN batch[w] : p \in done[w]
    <3>1. \A p \in DOMAIN batch[w] : p \in 1..cursor[w]
      BY <2>1, <2>2
    <3>2. \A p \in 1..cursor[w] : p \in 1..cursor[w] /\ p # 0
      BY <2>2
    <3>3. \A p \in 1..cursor[w] : ~\E l \in Loops : handling[w][l] = p
      BY <2>1, <3>2
    <3>4. \A p \in 1..cursor[w] : p \in done[w]
      BY <1>0, <2>1, <3>3 DEF RunInv
    <3>5. QED BY <3>1, <3>4
  <2>4. messages[m].claimedBy # w /\ messages[m].claimedBy \in Workers
    BY <1>0, <2>1, <2>3 DEF ClaimHasKeeper, HasKeeper, Pending
  <2>5. QED BY <1>a, <2>1, <2>2, <2>4
<1>6. QED BY <1>1, <1>3, <1>4, <1>5 DEF Worker

LEMMA ClientKeeps ==
  ASSUME Inv, MailboxClient
  PROVE  ClaimHasKeeper' /\ \A w \in Workers : RunInv(w)'
<1>0. TypeOK /\ ClaimHasKeeper /\ messages \in Seq(Message)
  BY DEF Inv, TypeOK, MailboxTypeOK
<1>1. UNCHANGED <<active, batch, cursor, handling, done>>
  BY DEF MailboxClient, workerVars
<1>2. \A w \in Workers : RunInv(w)'
  BY <1>1 DEF Inv, RunInv
<1>3. \A m \in DOMAIN messages' :
        messages'[m].status = "claimed" =>
          /\ m \in DOMAIN messages
          /\ messages[m].status = "claimed"
          /\ messages'[m].claimedBy = messages[m].claimedBy
  <2>1. ASSUME NEW s \in Sources, NEW i \in Inboxes, NEW k \in Keys \cup {NoKey},
               Send(s, i, k), ~Replayed(s, i, k),
               NEW m \in DOMAIN messages', messages'[m].status = "claimed"
        PROVE  m \in DOMAIN messages /\ messages'[m] = messages[m]
    <3>1. PICK new : messages' = Append(messages, new) /\ new.status = "queued"
      BY <2>1 DEF Send
    <3>2. QED BY <1>0, <2>1, <3>1
  <2>2. ASSUME Tick, NEW m \in DOMAIN messages', messages'[m].status = "claimed"
        PROVE  /\ m \in DOMAIN messages
               /\ messages[m].status = "claimed"
               /\ messages'[m].claimedBy = messages[m].claimedBy
    <3>1. m \in DOMAIN messages /\ messages'[m] = Aged(messages[m])
      BY <2>2 DEF Tick
    <3>2. messages[m] \in Message
      BY <1>0, <3>1
    <3>3. Aged(messages[m]).status = messages[m].status
          /\ Aged(messages[m]).claimedBy = messages[m].claimedBy
      BY <3>2 DEF Aged, Message
    <3>4. QED BY <2>2, <3>1, <3>3
  <2>3. CASE messages' = messages
    BY <2>3
  <2>4. QED
    BY <2>1, <2>2, <2>3
    DEF MailboxClient, Send, Subscribe, Unsubscribe, mailboxVars
<1>4. ClaimHasKeeper'
  <2>1. \A w : Pending(w)' = Pending(w)
    BY <1>1 DEF Pending
  <2>2. QED BY <1>0, <1>1, <1>3, <2>1 DEF ClaimHasKeeper, HasKeeper
<1>5. QED BY <1>2, <1>4

LEMMA InvStep == Inv /\ [Next]_vars => Inv'
<1> SUFFICES ASSUME Inv, [Next]_vars PROVE Inv'
  OBVIOUS
<1>1. CASE MailboxClient
  BY <1>1, ClientType, ClientKeeps DEF Inv
<1>2. ASSUME NEW w \in Workers, Worker(w) PROVE Inv'
  <2>1. TypeOK'
    BY <1>2, WorkerType DEF Inv
  <2>2. QED BY <1>2, <2>1, RunInvStep, KeeperStep DEF Inv
<1>3. CASE UNCHANGED vars
  BY <1>3 DEF vars, Inv, TypeOK, MailboxTypeOK, RunInv, ClaimHasKeeper, HasKeeper, Pending
<1>4. QED BY <1>1, <1>2, <1>3 DEF Next

LEMMA InvInit == Init => Inv
<1> SUFFICES ASSUME Init PROVE Inv
  OBVIOUS
<1>1. TypeOK
  BY InitType
<1>2. \A w \in Workers : RunInv(w)
  BY <1>1 DEF Init, RunInv, TypeOK
<1>3. ClaimHasKeeper
  BY DEF Init, MailboxInit, ClaimHasKeeper
<1>4. QED BY <1>1, <1>2, <1>3 DEF Inv

LEMMA InvCorrect == Spec => []Inv
BY InvInit, InvStep, PTL DEF Spec

\* A claimed message always has its claimer at work on it: no interleaving
\* of workers, leases and clients orphans a message (in-memory-agent-mailbox
\* claim and ack, agent-mailbox-worker runOnce).
THEOREM ClaimedHasKeeper == Spec => []ClaimHasKeeper
<1>1. Inv => ClaimHasKeeper
  BY DEF Inv
<1>2. QED BY <1>1, InvCorrect, PTL

\* The loops of a run split its batch: agent-mailbox-worker.ts shares one
\* cursor between them.
THEOREM CursorSplits == Spec => []CursorSplitsBatch
<1>1. Inv => CursorSplitsBatch
  BY DEF Inv, RunInv, CursorSplitsBatch
<1>2. QED BY <1>1, InvCorrect, PTL

-----------------------------------------------------------------------------
(* While no lease runs out on a claimed message, which without leases is     *)
(* always, a pending entry of a batch belongs to its worker, so two pending  *)
(* entries never name the same message.                                      *)

Held(w, p) ==
  LET m == batch[w][p]
  IN  /\ m \in DOMAIN messages
      /\ messages[m].status # "queued"
      /\ messages[m].claimedBy = w
      /\ p > cursor[w] => handled[m] = 0

\* What a host has to see to: every claimed message is settled before its
\* lease is over.
LeasesLast ==
  \A m \in DOMAIN messages : messages[m].status = "claimed" => messages[m].lease # 0

FreshUntouched ==
  \A m \in Ids : m \notin DOMAIN messages \/ messages[m].status = "queued"
                 => handled[m] = 0

BatchInjective ==
  \A w \in Workers : \A p, q \in DOMAIN batch[w] :
    batch[w][p] = batch[w][q] => p = q

OnceInv ==
  /\ Inv
  /\ FreshUntouched
  /\ \A w \in Workers : \A p \in Pending(w) : Held(w, p)
  /\ BatchInjective
  /\ NoDuplicateHandling

LEMMA OnceTypes ==
  ASSUME OnceInv
  PROVE  /\ messages \in Seq(Message) /\ TypeOK /\ MailboxTypeOK
         /\ batch \in [Workers -> Seq(Ids)] /\ active \in [Workers -> BOOLEAN]
         /\ cursor \in [Workers -> Nat]
         /\ done \in [Workers -> SUBSET (Nat \ {0})]
         /\ handling \in [Workers -> [Loops -> Nat]]
         /\ handled \in [Ids -> 0..MaxHandled]
         /\ DOMAIN messages \subseteq Ids
         /\ \A w \in Workers : RunInv(w)
<1>1. TypeOK /\ \A w \in Workers : RunInv(w)
  BY DEF OnceInv, Inv
<1>2. messages \in Seq(Message) /\ Len(messages) <= MaxMessages
  BY <1>1 DEF TypeOK, MailboxTypeOK
<1>3. DOMAIN messages \subseteq Ids
  BY <1>2 DEF Ids
<1>4. QED BY <1>1, <1>2, <1>3 DEF TypeOK

\* What Claim, Ack and Tick leave of a message.
LEMMA MessageFields ==
  ASSUME NEW msg \in Message
  PROVE  /\ \A w \in Workers :
              /\ Claimed(msg, w).status = "claimed"
              /\ Claimed(msg, w).claimedBy = w
              /\ LeaseMs = 0 => Claimed(msg, w).lease = NoLease
         /\ \A s \in Terminal :
              LET a == [msg EXCEPT !.status = s, !.age = 0] IN
                a.status = s /\ a.lease = msg.lease /\ a.claimedBy = msg.claimedBy
         /\ Aged(msg).status = msg.status
         /\ Aged(msg).claimedBy = msg.claimedBy
         /\ msg.lease = NoLease => Aged(msg).lease = NoLease
<1>1. ASSUME NEW w \in Workers
      PROVE  /\ Claimed(msg, w).status = "claimed"
             /\ Claimed(msg, w).claimedBy = w
             /\ LeaseMs = 0 => Claimed(msg, w).lease = NoLease
  BY DEF Claimed, Message
<1>2. ASSUME NEW s \in Terminal
      PROVE  LET a == [msg EXCEPT !.status = s, !.age = 0] IN
                a.status = s /\ a.lease = msg.lease /\ a.claimedBy = msg.claimedBy
  BY DEF Message
<1>3. /\ Aged(msg).status = msg.status
      /\ Aged(msg).claimedBy = msg.claimedBy
      /\ msg.lease = NoLease => Aged(msg).lease = NoLease
  BY DEF Aged, Message, NoLease
<1>4. QED BY <1>1, <1>2, <1>3

LEMMA OnceRunOnce ==
  ASSUME LeasesLast, OnceInv, NEW w \in Workers, RunOnce(w), Inv'
  PROVE  OnceInv'
<1>0. PICK b \in Seq(Ids) :
        /\ \A p \in DOMAIN b : b[p] \in Candidates(WorkerInbox[w])
        /\ \A p \in DOMAIN b : b[p] \in DOMAIN messages
        /\ \A p, q \in DOMAIN b : b[p] = b[q] => p = q
        /\ Claim(w, b)
        /\ batch' = [batch EXCEPT ![w] = b]
        /\ DOMAIN messages' = DOMAIN messages
  BY OnceTypes, RunOnceFacts
<1>1. /\ done' = [done EXCEPT ![w] = {}] /\ cursor' = [cursor EXCEPT ![w] = 0]
      /\ active' = [active EXCEPT ![w] = TRUE] /\ handled' = handled
  BY DEF RunOnce
<1>2. \A p \in DOMAIN b : messages[b[p]].status = "queued"
  BY <1>0 DEF Candidates, Claimable, LeasesLast
<1>3. \A m \in DOMAIN messages :
        /\ (\E p \in DOMAIN b : b[p] = m) => messages'[m] = Claimed(messages[m], w)
        /\ ~(\E p \in DOMAIN b : b[p] = m) => messages'[m] = messages[m]
  BY <1>0 DEF Claim
<1>4. \A m \in DOMAIN messages : messages[m] \in Message
  BY OnceTypes
<1>5. FreshUntouched'
  <2>1. \A m \in DOMAIN messages :
          messages'[m].status = "queued" => messages[m].status = "queued"
    BY <1>3, <1>4, MessageFields
  <2>2. QED BY <1>0, <1>1, <2>1 DEF OnceInv, FreshUntouched
<1>6. ASSUME NEW v \in Workers, NEW p \in Pending(v)' PROVE Held(v, p)'
  <2>1. CASE v = w
    <3>1. p \in DOMAIN b /\ batch'[v][p] = b[p]
      BY <1>0, <2>1, OnceTypes DEF Pending
    <3>2. b[p] \in DOMAIN messages /\ messages'[b[p]] = Claimed(messages[b[p]], w)
      BY <1>0, <1>3, <3>1
    <3>3. handled[b[p]] = 0
      BY <1>2, <3>1, <3>2, OnceTypes DEF OnceInv, FreshUntouched
    <3>4. QED
      BY <1>0, <1>1, <1>4, <2>1, <3>1, <3>2, <3>3, MessageFields DEF Held
  <2>2. CASE v # w
    <3>1. p \in Pending(v) /\ batch'[v] = batch[v] /\ cursor'[v] = cursor[v]
      BY <1>0, <1>1, <2>2, OnceTypes DEF Pending
    <3>2. Held(v, p)
      BY <3>1 DEF OnceInv
    <3>3. messages'[batch[v][p]] = messages[batch[v][p]]
      BY <1>2, <1>3, <3>2 DEF Held
    <3>4. QED BY <1>0, <1>1, <3>1, <3>2, <3>3 DEF Held
  <2>3. QED BY <2>1, <2>2
<1>7. BatchInjective'
  <2>1. ASSUME NEW v \in Workers, NEW p \in DOMAIN batch'[v],
               NEW q \in DOMAIN batch'[v], batch'[v][p] = batch'[v][q]
        PROVE  p = q
    <3>1. CASE v = w
      <4>1. batch'[v] = b
        BY <1>0, <3>1, OnceTypes
      <4>2. QED BY <1>0, <2>1, <4>1
    <3>2. CASE v # w
      <4>1. batch'[v] = batch[v]
        BY <1>0, <3>2, OnceTypes
      <4>2. QED BY <2>1, <4>1 DEF OnceInv, BatchInjective
    <3>3. QED BY <3>1, <3>2
  <2>2. QED BY <2>1 DEF BatchInjective
<1>8. NoDuplicateHandling'
  BY <1>1 DEF OnceInv, NoDuplicateHandling
<1>9. QED BY <1>5, <1>6, <1>7, <1>8 DEF OnceInv

LEMMA OnceTakeNext ==
  ASSUME OnceInv, NEW w \in Workers, NEW l \in Loops, TakeNext(w, l), Inv'
  PROVE  OnceInv'
<1> DEFINE n == cursor[w] + 1
           t == batch[w][n]
<1>1. /\ messages' = messages /\ batch' = batch /\ active' = active
      /\ done' = done /\ cursor' = [cursor EXCEPT ![w] = n]
      /\ active[w] /\ cursor[w] < Len(batch[w])
      /\ handled' = [handled EXCEPT ![t] = IF @ < MaxHandled THEN @ + 1 ELSE @]
  BY DEF TakeNext, mailboxVars
<1>2. cursor[w] \in Nat /\ batch[w] \in Seq(Ids)
  BY OnceTypes
<1>3. n \in Pending(w)
  <2>1. n \in DOMAIN batch[w] /\ n \notin 1..cursor[w]
    BY <1>1, <1>2
  <2>2. n \notin done[w]
    BY <2>1, OnceTypes DEF RunInv
  <2>3. QED BY <1>1, <2>1, <2>2 DEF Pending
<1>4. Held(w, n) /\ n > cursor[w]
  BY <1>2, <1>3 DEF OnceInv
<1>5. t \in DOMAIN messages /\ messages[t].status # "queued"
      /\ messages[t].claimedBy = w /\ handled[t] = 0 /\ t \in Ids
  BY <1>4, OnceTypes DEF Held
<1>6. handled'[t] = 1 /\ \A m \in Ids \ {t} : handled'[m] = handled[m]
  BY <1>1, <1>5, OnceTypes DEF MaxHandled
<1>7. NoDuplicateHandling'
  BY <1>6 DEF OnceInv, NoDuplicateHandling
<1>8. FreshUntouched'
  BY <1>1, <1>5, <1>6 DEF OnceInv, FreshUntouched
<1>9. ASSUME NEW v \in Workers, NEW p \in Pending(v)' PROVE Held(v, p)'
  <2>1. p \in Pending(v) /\ Held(v, p)
    BY <1>1 DEF Pending, OnceInv
  <2>2. batch[v][p] # t \/ ~(p > cursor'[v])
    <3>1. CASE v # w
      BY <1>5, <2>1, <3>1 DEF Held
    <3>2. CASE v = w
      <4>1. batch[v][p] = t => p = n
        BY <1>3, <2>1, <3>2 DEF OnceInv, BatchInjective, Pending
      <4>2. cursor'[v] = n
        BY <1>1, <3>2, OnceTypes
      <4>3. QED BY <1>2, <4>1, <4>2
    <3>3. QED BY <3>1, <3>2
  <2>3. batch[v][p] \in Ids
    BY <2>1, OnceTypes DEF Held
  <2>4. p > cursor'[v] => p > cursor[v]
    <3>1. p \in Nat /\ cursor[v] \in Nat /\ batch[v] \in Seq(Ids)
      BY <2>1, OnceTypes DEF Pending
    <3>2. QED BY <1>1, <3>1, OnceTypes
  <2>5. QED BY <1>1, <1>6, <2>1, <2>2, <2>3, <2>4 DEF Held
<1>10. BatchInjective'
  BY <1>1 DEF OnceInv, BatchInjective
<1>11. QED BY <1>7, <1>8, <1>9, <1>10 DEF OnceInv

\* The entry a loop settles is pending, hence of the loop's worker.
LEMMA SettlesHeld ==
  ASSUME OnceInv, NEW w \in Workers, NEW l \in Loops, handling[w][l] # 0
  PROVE  handling[w][l] \in Pending(w) /\ Held(w, handling[w][l])
<1>1. RunInv(w) /\ handling[w][l] \in Nat /\ cursor[w] \in Nat
      /\ batch[w] \in Seq(Ids)
  BY OnceTypes
<1>2. active[w] /\ handling[w][l] \in 1..cursor[w]
  BY <1>1 DEF RunInv
<1>3. handling[w][l] \notin done[w] /\ handling[w][l] \in DOMAIN batch[w]
  BY <1>1, <1>2 DEF RunInv
<1>4. QED BY <1>2, <1>3 DEF Pending, OnceInv

LEMMA OnceSettle ==
  ASSUME OnceInv, NEW w \in Workers, NEW l \in Loops, NEW status \in Terminal,
         Settle(w, l, status), Inv'
  PROVE  OnceInv'
<1> DEFINE n == handling[w][l]
           t == batch[w][n]
<1>1. /\ batch' = batch /\ active' = active /\ cursor' = cursor
      /\ handled' = handled /\ done' = [done EXCEPT ![w] = @ \cup {n}]
      /\ Ack(t, WorkerInbox[w], status)
      /\ n # 0
  BY DEF Settle
<1>2. n \in Pending(w) /\ Held(w, n)
  BY <1>1, SettlesHeld
<1>3. t \in DOMAIN messages /\ messages[t].claimedBy = w
  BY <1>2 DEF Held
<1>4. messages[t] \in Message /\ messages \in Seq(Message)
  BY <1>3, OnceTypes
<1>5. /\ DOMAIN messages' = DOMAIN messages
      /\ messages'[t] = [messages[t] EXCEPT !.status = status, !.age = 0]
      /\ \A m \in DOMAIN messages \ {t} : messages'[m] = messages[m]
  BY <1>1, <1>3, <1>4 DEF Ack
<1>6. messages'[t].status = status /\ status # "queued"
  BY <1>4, <1>5, MessageFields DEF Terminal
<1>7. FreshUntouched'
  BY <1>1, <1>3, <1>5, <1>6 DEF OnceInv, FreshUntouched
<1>8. BatchInjective' /\ NoDuplicateHandling'
  BY <1>1 DEF OnceInv, BatchInjective, NoDuplicateHandling
<1>9. ASSUME NEW v \in Workers, NEW p \in Pending(v)' PROVE Held(v, p)'
  <2>1. p \in Pending(v) /\ (v = w => p # n)
    BY <1>1, OnceTypes DEF Pending
  <2>2. Held(v, p)
    BY <2>1 DEF OnceInv
  <2>3. batch[v][p] # t
    <3>1. CASE v = w
      BY <1>2, <2>1, <3>1 DEF OnceInv, BatchInjective, Pending
    <3>2. CASE v # w
      BY <1>3, <2>2, <3>2 DEF Held
    <3>3. QED BY <3>1, <3>2
  <2>4. QED BY <1>1, <1>5, <2>2, <2>3 DEF Held
<1>10. QED BY <1>7, <1>8, <1>9 DEF OnceInv

\* A client's call or the clock changes the status and the claim of no message.
LEMMA ClientStatus ==
  ASSUME TypeOK, MailboxClient
  PROVE  /\ DOMAIN messages \subseteq DOMAIN messages'
         /\ \A m \in DOMAIN messages :
              /\ messages'[m].status = messages[m].status
              /\ messages'[m].claimedBy = messages[m].claimedBy
         /\ \A m \in DOMAIN messages' \ DOMAIN messages : messages'[m].status = "queued"
<1> DEFINE Goal ==
      /\ DOMAIN messages \subseteq DOMAIN messages'
      /\ \A m \in DOMAIN messages :
           /\ messages'[m].status = messages[m].status
           /\ messages'[m].claimedBy = messages[m].claimedBy
      /\ \A m \in DOMAIN messages' \ DOMAIN messages : messages'[m].status = "queued"
<1>0. messages \in Seq(Message)
  BY DEF TypeOK, MailboxTypeOK
<1>1. ASSUME NEW s \in Sources, NEW i \in Inboxes, NEW k \in Keys \cup {NoKey},
             Send(s, i, k), ~Replayed(s, i, k)
      PROVE  Goal
  <2>1. PICK new : messages' = Append(messages, new) /\ new.status = "queued"
    BY <1>1 DEF Send
  <2>2. QED BY <1>0, <2>1
<1>2. CASE Tick
  <2>1. /\ DOMAIN messages' = DOMAIN messages
        /\ \A m \in DOMAIN messages : messages'[m] = Aged(messages[m])
    BY <1>2 DEF Tick
  <2>2. \A m \in DOMAIN messages : messages[m] \in Message
    BY <1>0
  <2>3. QED BY <2>1, <2>2, MessageFields
<1>3. CASE messages' = messages
  BY <1>3
<1>4. QED
  BY <1>1, <1>2, <1>3
  DEF MailboxClient, Send, Subscribe, Unsubscribe, mailboxVars

LEMMA OnceClient ==
  ASSUME OnceInv, MailboxClient, Inv'
  PROVE  OnceInv'
<1>0. UNCHANGED <<active, batch, cursor, handling, done, handled>>
  BY DEF MailboxClient, workerVars
<1>1. /\ DOMAIN messages \subseteq DOMAIN messages'
      /\ \A m \in DOMAIN messages :
           /\ messages'[m].status = messages[m].status
           /\ messages'[m].claimedBy = messages[m].claimedBy
      /\ \A m \in DOMAIN messages' \ DOMAIN messages : messages'[m].status = "queued"
  BY ClientStatus, OnceTypes
<1>2. FreshUntouched'
  BY <1>0, <1>1 DEF OnceInv, FreshUntouched
<1>3. BatchInjective' /\ NoDuplicateHandling'
  BY <1>0 DEF OnceInv, BatchInjective, NoDuplicateHandling
<1>4. ASSUME NEW v \in Workers, NEW p \in Pending(v)' PROVE Held(v, p)'
  <2>1. p \in Pending(v) /\ Held(v, p)
    BY <1>0 DEF Pending, OnceInv
  <2>2. QED BY <1>0, <1>1, <2>1 DEF Held
<1>5. QED BY <1>2, <1>3, <1>4 DEF OnceInv

LEMMA OnceStep == OnceInv /\ LeasesLast /\ [Next]_vars => OnceInv'
<1> SUFFICES ASSUME OnceInv, LeasesLast, [Next]_vars PROVE OnceInv'
  OBVIOUS
<1>0. Inv'
  BY InvStep DEF OnceInv
<1>1. CASE MailboxClient
  BY <1>0, <1>1, OnceClient
<1>2. ASSUME NEW w \in Workers, Worker(w) PROVE OnceInv'
  <2>1. CASE RunOnce(w)
    BY <1>0, <2>1, OnceRunOnce
  <2>2. ASSUME NEW l \in Loops, TakeNext(w, l) PROVE OnceInv'
    BY <1>0, <2>2, OnceTakeNext
  <2>3. ASSUME NEW l \in Loops, NEW s \in Terminal, Settle(w, l, s) PROVE OnceInv'
    BY <1>0, <2>3, OnceSettle
  <2>4. ASSUME NEW l \in Loops, Hang(w, l) PROVE OnceInv'
    <3>1. UNCHANGED <<messages, active, batch, cursor, done, handled>>
      BY <2>4 DEF Hang, mailboxVars
    <3>2. \A v \in Workers : \A p \in Pending(v)' : Held(v, p)'
      BY <3>1 DEF OnceInv, Held, Pending
    <3>3. QED
      BY <1>0, <3>1, <3>2
      DEF OnceInv, FreshUntouched, BatchInjective, NoDuplicateHandling
  <2>5. CASE FinishRun(w)
    <3>1. /\ messages' = messages /\ handled' = handled
          /\ batch' = [batch EXCEPT ![w] = <<>>]
          /\ \A v \in Workers \ {w} :
               /\ active'[v] = active[v] /\ batch'[v] = batch[v]
               /\ cursor'[v] = cursor[v] /\ done'[v] = done[v]
          /\ batch'[w] = <<>>
      BY <2>5, OnceTypes DEF FinishRun, mailboxVars
    <3>2. \A v \in Workers : \A p \in Pending(v)' : v # w /\ p \in Pending(v)
      BY <3>1 DEF Pending
    <3>3. \A v \in Workers : \A p \in Pending(v)' : Held(v, p)'
      BY <3>1, <3>2 DEF OnceInv, Held
    <3>4. BatchInjective'
      BY <3>1 DEF OnceInv, BatchInjective
    <3>5. QED
      BY <1>0, <3>1, <3>3, <3>4
      DEF OnceInv, FreshUntouched, NoDuplicateHandling
  <2>6. QED BY <1>2, <2>1, <2>2, <2>3, <2>4, <2>5 DEF Worker
<1>3. CASE UNCHANGED vars
  <2>1. UNCHANGED <<messages, active, batch, cursor, done, handled>>
    BY <1>3 DEF vars
  <2>2. \A v \in Workers : \A p \in Pending(v)' : Held(v, p)'
    BY <2>1 DEF OnceInv, Held, Pending
  <2>3. QED
    BY <1>0, <2>1, <2>2
    DEF OnceInv, FreshUntouched, BatchInjective, NoDuplicateHandling
<1>4. QED BY <1>1, <1>2, <1>3 DEF Next

LEMMA OnceInit == Init => OnceInv
<1> SUFFICES ASSUME Init PROVE OnceInv
  OBVIOUS
<1>1. messages = <<>> /\ handled = [m \in Ids |-> 0]
      /\ active = [w \in Workers |-> FALSE]
      /\ batch = [w \in Workers |-> <<>>]
  BY DEF Init, MailboxInit
<1>2. FreshUntouched /\ BatchInjective /\ NoDuplicateHandling
  BY <1>1 DEF FreshUntouched, BatchInjective, NoDuplicateHandling
<1>3. \A w \in Workers : Pending(w) = {}
  BY <1>1 DEF Pending
<1>4. QED BY <1>2, <1>3, InvInit DEF OnceInv

LEMMA OnceCorrect == Spec /\ []LeasesLast => []OnceInv
BY OnceInit, OnceStep, PTL DEF Spec

\* While no lease runs out on a claimed message, no message is handed to two
\* handlers, however many workers share the inbox (claim() in
\* in-memory-mailbox.ts takes a claimed message when its lease is over, and
\* nothing tells the worker that still handles it).
THEOREM HandledOnceWhileLeased == Spec /\ []LeasesLast => []NoDuplicateHandling
<1>1. OnceInv => NoDuplicateHandling
  BY DEF OnceInv
<1>2. QED BY <1>1, OnceCorrect, PTL

Unleased == \A m \in DOMAIN messages : messages[m].lease = NoLease

LEMMA UnleasedClient ==
  ASSUME TypeOK, Unleased, MailboxClient
  PROVE  Unleased'
<1>0. messages \in Seq(Message)
  BY DEF TypeOK, MailboxTypeOK
<1>1. ASSUME NEW s \in Sources, NEW i \in Inboxes, NEW k \in Keys \cup {NoKey},
             Send(s, i, k), ~Replayed(s, i, k)
      PROVE  Unleased'
  <2>1. PICK new : messages' = Append(messages, new) /\ new.lease = NoLease
    BY <1>1 DEF Send
  <2>2. QED BY <1>0, <2>1 DEF Unleased
<1>2. CASE Tick
  <2>1. /\ DOMAIN messages' = DOMAIN messages
        /\ \A m \in DOMAIN messages : messages'[m] = Aged(messages[m])
    BY <1>2 DEF Tick
  <2>2. QED BY <1>0, <2>1, MessageFields DEF Unleased
<1>3. CASE messages' = messages
  BY <1>3 DEF Unleased
<1>4. QED
  BY <1>1, <1>2, <1>3
  DEF MailboxClient, Send, Subscribe, Unsubscribe, mailboxVars

LEMMA UnleasedStep ==
  ASSUME LeaseMs = 0, TypeOK, Unleased, [Next]_vars
  PROVE  Unleased'
<1>0. messages \in Seq(Message) /\ \A m \in DOMAIN messages : messages[m] \in Message
  BY DEF TypeOK, MailboxTypeOK
<1>1. ASSUME NEW w \in Workers, RunOnce(w) PROVE Unleased'
  <2>1. PICK b : Claim(w, b)
    BY <1>1 DEF RunOnce
  <2>2. /\ DOMAIN messages' = DOMAIN messages
        /\ \A m \in DOMAIN messages : messages'[m] \in {messages[m], Claimed(messages[m], w)}
    BY <2>1 DEF Claim
  <2>3. QED BY <1>0, <2>2, MessageFields DEF Unleased
<1>2. ASSUME NEW w \in Workers, NEW l \in Loops, NEW s \in Terminal, Settle(w, l, s)
      PROVE  Unleased'
  <2>1. PICK t \in DOMAIN messages :
          messages' = [messages EXCEPT ![t].status = s, ![t].age = 0]
    BY <1>2 DEF Settle, Ack
  <2>2. /\ DOMAIN messages' = DOMAIN messages
        /\ messages'[t] = [messages[t] EXCEPT !.status = s, !.age = 0]
        /\ \A m \in DOMAIN messages \ {t} : messages'[m] = messages[m]
    BY <1>0, <2>1
  <2>3. messages'[t].lease = messages[t].lease
    BY <1>0, <2>2 DEF Message
  <2>4. QED BY <2>2, <2>3 DEF Unleased
<1>3. CASE messages' = messages
  BY <1>3 DEF Unleased
<1>4. QED
  BY <1>1, <1>2, <1>3, UnleasedClient
  DEF Next, Worker, TakeNext, Hang, FinishRun, mailboxVars, vars

LEMMA NoLeaseLasts ==
  ASSUME LeaseMs = 0
  PROVE  Spec => []LeasesLast
<1>1. Init => Unleased
  BY DEF Init, MailboxInit, Unleased
<1>2. TypeOK /\ Unleased /\ [Next]_vars => Unleased'
  BY UnleasedStep
<1>3. Unleased => LeasesLast
  BY DEF Unleased, LeasesLast, NoLease
<1>4. QED BY <1>1, <1>2, <1>3, TypeCorrect, PTL DEF Spec

\* Without leases no message is handed to two handlers, however many workers
\* share the inbox: what the worker test states of two of them.
THEOREM HandledOnce ==
  ASSUME LeaseMs = 0
  PROVE  Spec => []NoDuplicateHandling
BY HandledOnceWhileLeased, NoLeaseLasts, PTL

-----------------------------------------------------------------------------
(* Refinement: while leases last every step is a step of the task queue.     *)

Lifecycle == [m \in Ids |-> IF m \in DOMAIN messages THEN messages[m].status
                                                   ELSE "absent"]
Owners == [m \in Ids |-> IF m \in DOMAIN messages THEN messages[m].claimedBy
                                                ELSE NoWorker]

\* Nobody but its worker settles an entry of a batch.
PendingClaimed ==
  \A w \in Workers : \A p \in Pending(w) : messages[batch[w][p]].status = "claimed"

LEMMA ClaimedRunOnce ==
  ASSUME OnceInv, LeasesLast, PendingClaimed, NEW w \in Workers, RunOnce(w)
  PROVE  PendingClaimed'
<1>1. PICK b \in Seq(Ids) :
        /\ \A p \in DOMAIN b : b[p] \in Candidates(WorkerInbox[w])
        /\ \A p \in DOMAIN b : b[p] \in DOMAIN messages
        /\ Claim(w, b) /\ batch' = [batch EXCEPT ![w] = b]
  BY OnceTypes, RunOnceFacts
<1>2. \A p \in DOMAIN b : messages[b[p]].status = "queued"
  BY <1>1 DEF Candidates, Claimable, LeasesLast
<1>3. \A m \in DOMAIN messages :
        messages'[m] = IF \E p \in DOMAIN b : b[p] = m THEN Claimed(messages[m], w)
                                                       ELSE messages[m]
  BY <1>1 DEF Claim
<1>4. ASSUME NEW v \in Workers, NEW p \in Pending(v)'
      PROVE  messages'[batch'[v][p]].status = "claimed"
  <2>1. CASE v = w
    <3>1. p \in DOMAIN b /\ batch'[v][p] = b[p]
      BY <1>1, <2>1, OnceTypes DEF Pending
    <3>2. b[p] \in DOMAIN messages /\ messages[b[p]] \in Message
      BY <1>1, <3>1, OnceTypes
    <3>3. QED BY <1>3, <3>1, <3>2, MessageFields
  <2>2. CASE v # w
    <3>1. p \in Pending(v) /\ batch'[v] = batch[v]
      BY <1>1, <2>2, OnceTypes DEF Pending, RunOnce
    <3>2. Held(v, p) /\ messages[batch[v][p]].status = "claimed"
      BY <3>1 DEF OnceInv, PendingClaimed
    <3>3. QED BY <1>2, <1>3, <3>1, <3>2 DEF Held
  <2>3. QED BY <2>1, <2>2
<1>5. QED BY <1>4 DEF PendingClaimed

LEMMA ClaimedSettle ==
  ASSUME OnceInv, PendingClaimed, NEW w \in Workers, NEW l \in Loops,
         NEW status \in Terminal, Settle(w, l, status)
  PROVE  PendingClaimed'
<1> DEFINE n == handling[w][l]
           t == batch[w][n]
<1>1. /\ batch' = batch /\ active' = active /\ done' = [done EXCEPT ![w] = @ \cup {n}]
      /\ Ack(t, WorkerInbox[w], status) /\ n # 0
  BY DEF Settle
<1>2. n \in Pending(w) /\ Held(w, n)
  BY <1>1, SettlesHeld
<1>3. \A m \in DOMAIN messages \ {t} : messages'[m] = messages[m]
  BY <1>1, OnceTypes DEF Ack
<1>4. ASSUME NEW v \in Workers, NEW p \in Pending(v)'
      PROVE  messages'[batch'[v][p]].status = "claimed"
  <2>1. p \in Pending(v) /\ (v = w => p # n)
    BY <1>1, OnceTypes DEF Pending
  <2>2. Held(v, p) /\ messages[batch[v][p]].status = "claimed"
    BY <2>1 DEF OnceInv, PendingClaimed
  <2>3. batch[v][p] # t
    <3>1. CASE v = w
      BY <1>2, <2>1, <3>1 DEF OnceInv, BatchInjective, Pending
    <3>2. CASE v # w
      BY <1>2, <2>2, <3>2 DEF Held
    <3>3. QED BY <3>1, <3>2
  <2>4. QED BY <1>1, <1>3, <2>2, <2>3 DEF Held
<1>5. QED BY <1>4 DEF PendingClaimed

LEMMA ClaimedStep == OnceInv /\ LeasesLast /\ PendingClaimed /\ [Next]_vars => PendingClaimed'
<1> SUFFICES ASSUME OnceInv, LeasesLast, PendingClaimed, [Next]_vars PROVE PendingClaimed'
  OBVIOUS
<1>1. CASE MailboxClient
  <2>1. UNCHANGED <<active, batch, done>>
    BY <1>1 DEF MailboxClient, workerVars
  <2>2. \A m \in DOMAIN messages : messages'[m].status = messages[m].status
    BY <1>1, ClientStatus, OnceTypes
  <2>3. ASSUME NEW w \in Workers, NEW p \in Pending(w)'
        PROVE  messages'[batch'[w][p]].status = "claimed"
    <3>1. p \in Pending(w) /\ Held(w, p)
      BY <2>1 DEF Pending, OnceInv
    <3>2. QED BY <2>1, <2>2, <3>1 DEF Held, PendingClaimed
  <2>4. QED BY <2>3 DEF PendingClaimed
<1>2. ASSUME NEW w \in Workers, FinishRun(w) PROVE PendingClaimed'
  <2>1. /\ messages' = messages /\ batch' = [batch EXCEPT ![w] = <<>>]
        /\ \A v \in Workers \ {w} : active'[v] = active[v] /\ done'[v] = done[v]
    BY <1>2, OnceTypes DEF FinishRun, mailboxVars
  <2>2. \A v \in Workers : \A p \in Pending(v)' : p \in Pending(v) /\ batch'[v] = batch[v]
    BY <2>1, OnceTypes DEF Pending
  <2>3. QED BY <2>1, <2>2 DEF PendingClaimed
<1>3. CASE UNCHANGED <<messages, active, batch, done>>
  BY <1>3 DEF PendingClaimed, Pending
<1>4. QED
  BY <1>1, <1>2, <1>3, ClaimedRunOnce, ClaimedSettle
  DEF Next, Worker, TakeNext, Hang, mailboxVars, vars

LEMMA ClaimedCorrect == Spec /\ []LeasesLast => []PendingClaimed
<1>1. Init => PendingClaimed
  BY DEF Init, PendingClaimed, Pending
<1>2. QED BY <1>1, ClaimedStep, OnceCorrect, PTL DEF Spec

LEMMA RefineInit == Init => Queue!Init
BY DEF Init, MailboxInit, Queue!Init

LEMMA RefineClient ==
  ASSUME OnceInv, MailboxClient
  PROVE  Queue!Next \/ UNCHANGED <<Lifecycle, Owners>>
<1>0. messages \in Seq(Message) /\ DOMAIN messages \subseteq Ids
      /\ Len(messages) <= MaxMessages
  BY OnceTypes DEF MailboxTypeOK
<1>1. ASSUME NEW s \in Sources, NEW i \in Inboxes, NEW k \in Keys \cup {NoKey},
             Send(s, i, k), ~Replayed(s, i, k)
      PROVE  Queue!Next
  <2>0. PICK n \in Nat : n = Len(messages) + 1
    BY <1>0
  <2>1. PICK new : /\ messages' = Append(messages, new)
                   /\ new.status = "queued" /\ new.claimedBy = NoWorker
    BY <1>1 DEF Send
  <2>2. Len(messages) < MaxMessages
    BY <1>1 DEF Send
  <2>3. n \in Ids /\ n \notin DOMAIN messages
        /\ DOMAIN messages' = DOMAIN messages \cup {n}
        /\ messages'[n] = new
        /\ \A m \in DOMAIN messages : messages'[m] = messages[m]
    BY <1>0, <2>0, <2>1, <2>2 DEF Ids
  <2>4. Queue!Submit(n)
    BY <2>1, <2>3 DEF Queue!Submit
  <2>5. QED BY <2>3, <2>4 DEF Queue!Next
<1>2. CASE Tick
  <2>1. /\ DOMAIN messages' = DOMAIN messages
        /\ \A m \in DOMAIN messages : messages'[m] = Aged(messages[m])
    BY <1>2 DEF Tick
  <2>2. \A m \in DOMAIN messages : messages[m] \in Message
    BY <1>0
  <2>3. QED BY <2>1, <2>2, MessageFields DEF Lifecycle, Owners
<1>3. CASE messages' = messages
  BY <1>3 DEF Lifecycle, Owners
<1>4. QED
  BY <1>1, <1>2, <1>3
  DEF MailboxClient, Send, Subscribe, Unsubscribe, mailboxVars

LEMMA RefineWorker ==
  ASSUME LeasesLast, OnceInv, PendingClaimed, NEW w \in Workers, Worker(w)
  PROVE  Queue!Next \/ UNCHANGED <<Lifecycle, Owners>>
<1>0. messages \in Seq(Message) /\ DOMAIN messages \subseteq Ids
      /\ \A m \in DOMAIN messages : messages[m] \in Message
  BY OnceTypes
<1>1. CASE RunOnce(w)
  <2>1. PICK b \in Seq(Ids) :
          /\ \A p \in DOMAIN b : b[p] \in Candidates(WorkerInbox[w])
          /\ \A p \in DOMAIN b : b[p] \in DOMAIN messages
          /\ Claim(w, b)
          /\ DOMAIN messages' = DOMAIN messages
    BY <1>1, OnceTypes, RunOnceFacts
  <2> DEFINE taken == {b[p] : p \in DOMAIN b}
  <2>2. \A m \in taken : m \in DOMAIN messages /\ messages[m].status = "queued"
    BY <2>1 DEF Candidates, Claimable, LeasesLast
  <2>3. \A m \in DOMAIN messages :
          /\ m \in taken => messages'[m] = Claimed(messages[m], w)
          /\ m \notin taken => messages'[m] = messages[m]
    BY <2>1 DEF Claim
  <2>4. taken \in SUBSET Ids
    BY <1>0, <2>1
  <2> HIDE DEF taken
  <2>5. Queue!Claim(w, taken)
    BY <1>0, <2>1, <2>2, <2>3, <2>4, MessageFields DEF Queue!Claim
  <2>6. QED BY <2>4, <2>5 DEF Queue!Next
<1>2. ASSUME NEW l \in Loops, NEW status \in Terminal, Settle(w, l, status)
      PROVE  Queue!Next
  <2> DEFINE t == batch[w][handling[w][l]]
  <2>1. handling[w][l] \in Pending(w) /\ Held(w, handling[w][l])
    BY <1>2, SettlesHeld DEF Settle
  <2>2. t \in DOMAIN messages /\ messages[t].status = "claimed"
    BY <2>1 DEF Held, PendingClaimed
  <2>3. /\ DOMAIN messages' = DOMAIN messages
        /\ messages'[t] = [messages[t] EXCEPT !.status = status, !.age = 0]
        /\ \A m \in DOMAIN messages \ {t} : messages'[m] = messages[m]
    BY <1>0, <1>2, <2>2 DEF Settle, Ack
  <2>4. messages'[t].status = status
        /\ messages'[t].claimedBy = messages[t].claimedBy
    BY <1>0, <2>2, <2>3, MessageFields
  <2>5. t \in Ids
    BY <1>0, <2>2
  <2> HIDE DEF t
  <2>6. Queue!Settle(t, status)
    BY <1>0, <2>2, <2>3, <2>4, <2>5 DEF Queue!Settle
  <2>7. QED BY <2>5, <2>6 DEF Queue!Next, Queue!Settled, Terminal
<1>3. CASE messages' = messages
  BY <1>3 DEF Lifecycle, Owners
<1>4. QED
  BY <1>1, <1>2, <1>3
  DEF Worker, TakeNext, Hang, FinishRun, mailboxVars

\* While no lease runs out on a claimed message the mailbox and its workers
\* implement the task queue: a message is claimed by one worker and settled
\* once, by that worker, whatever retries, hangs and subscriptions go on.
THEOREM LeasesImplementTaskQueue == Spec /\ []LeasesLast => ImplementsTaskQueue
<1>1. OnceInv /\ PendingClaimed /\ LeasesLast /\ [Next]_vars => [Queue!Next]_<<Lifecycle, Owners>>
  <2> SUFFICES ASSUME OnceInv, PendingClaimed, LeasesLast, [Next]_vars
               PROVE  Queue!Next \/ UNCHANGED <<Lifecycle, Owners>>
    OBVIOUS
  <2>1. CASE UNCHANGED vars
    BY <2>1 DEF vars, Lifecycle, Owners
  <2>2. QED BY <2>1, RefineClient, RefineWorker DEF Next
<1>2. OnceInv /\ PendingClaimed /\ LeasesLast /\ [Next]_vars => [Queue!Next]_(Queue!vars)
  BY <1>1 DEF Queue!vars, Lifecycle, Owners
<1>3. QED
  BY <1>2, RefineInit, OnceCorrect, ClaimedCorrect, PTL DEF Spec, ImplementsTaskQueue, Queue!Spec

\* Without leases the mailbox and its workers implement the task queue: a
\* message is claimed by one worker and settled once, by that worker.
THEOREM MailboxImplementsTaskQueue ==
  ASSUME LeaseMs = 0
  PROVE  Spec => ImplementsTaskQueue
BY LeasesImplementTaskQueue, NoLeaseLasts, PTL

-----------------------------------------------------------------------------
(* An action property: settled messages stay settled, with and without       *)
(* leases, because only queued and claimed messages are claimable.           *)

LEMMA TerminalStep ==
  ASSUME Inv, [Next]_vars, NEW m \in DOMAIN messages,
         messages[m].status \in Terminal
  PROVE  messages'[m].status \in Terminal
<1>0. messages \in Seq(Message) /\ TypeOK /\ messages[m] \in Message
  BY DEF Inv, TypeOK, MailboxTypeOK
<1>1. CASE messages' = messages
  BY <1>1
<1>2. ASSUME NEW w \in Workers, RunOnce(w)
      PROVE  messages'[m].status \in Terminal
  <2>1. PICK b \in Seq(Ids) :
          /\ \A p \in DOMAIN b : b[p] \in Candidates(WorkerInbox[w])
          /\ Claim(w, b)
    BY <1>0, <1>2, RunOnceFacts
  <2>2. \A p \in DOMAIN b : messages[b[p]].status \in {"queued", "claimed"}
    BY <2>1 DEF Candidates, Claimable
  <2>3. \A p \in DOMAIN b : b[p] # m
    BY <2>2 DEF Terminal
  <2>4. messages'[m] = messages[m]
    BY <2>1, <2>3 DEF Claim
  <2>5. QED BY <2>4
<1>3. ASSUME NEW w \in Workers, NEW l \in Loops, NEW s \in Terminal,
             Settle(w, l, s)
      PROVE  messages'[m].status \in Terminal
  <2> DEFINE t == batch[w][handling[w][l]]
  <2>1. t \in DOMAIN messages
        /\ messages' = [messages EXCEPT ![t].status = s, ![t].age = 0]
    BY <1>3 DEF Settle, Ack
  <2>2. CASE t = m
    BY <1>0, <2>1, <2>2 DEF Message
  <2>3. CASE t # m
    BY <1>0, <2>1, <2>3
  <2>4. QED BY <2>2, <2>3
<1>4. ASSUME NEW s, NEW i, NEW k, Send(s, i, k)
      PROVE  messages'[m].status \in Terminal
  <2>1. CASE messages' = messages
    BY <2>1
  <2>2. ASSUME NEW new, messages' = Append(messages, new)
        PROVE  messages'[m].status \in Terminal
    BY <1>0, <2>2
  <2>3. QED BY <1>4, <2>1, <2>2 DEF Send, mailboxVars
<1>5. CASE Tick
  <2>1. messages'[m] = Aged(messages[m])
    BY <1>5 DEF Tick
  <2>2. QED BY <1>0, <2>1, MessageFields
<1>6. QED
  BY <1>1, <1>2, <1>3, <1>4, <1>5
  DEF Next, MailboxClient, Worker, TakeNext, Hang, FinishRun, Subscribe,
      Unsubscribe, mailboxVars, vars

\* A settled message is never queued or claimed again (claim in
\* in-memory-agent-mailbox.ts), so no retry redoes settled work.
THEOREM SettledForGood == Spec => TerminalNeverReopened
<1>1. Inv /\ [Next]_vars =>
        [\A m \in DOMAIN messages :
           messages[m].status \in Terminal => messages'[m].status \in Terminal]_vars
  BY TerminalStep
<1>2. QED BY <1>1, InvCorrect, PTL DEF Spec, TerminalNeverReopened
-----------------------------------------------------------------------------
(* Senders and subscribers, with and without leases.                         *)

\* What tells a message apart for its sender never changes, and a message
\* outside `changed' keeps its status.
Kept(changed) ==
  /\ changed \subseteq DOMAIN messages'
  /\ DOMAIN messages \subseteq DOMAIN messages'
  /\ \A m \in DOMAIN messages :
       /\ messages'[m].inbox = messages[m].inbox
       /\ messages'[m].key = messages[m].key
       /\ messages'[m].source = messages[m].source
       /\ m \notin changed => messages'[m].status = messages[m].status

Unsent == DOMAIN messages' = DOMAIN messages

LEMMA MessageIdentity ==
  ASSUME NEW msg \in Message
  PROVE  /\ \A w \in Workers : LET c == Claimed(msg, w) IN
              c.inbox = msg.inbox /\ c.key = msg.key /\ c.source = msg.source
         /\ \A s \in Terminal : LET a == [msg EXCEPT !.status = s, !.age = 0] IN
              a.inbox = msg.inbox /\ a.key = msg.key /\ a.source = msg.source
         /\ LET a == Aged(msg) IN
              a.inbox = msg.inbox /\ a.key = msg.key /\ a.source = msg.source
BY DEF Message, Claimed, Aged

LEMMA ClaimKeeps ==
  ASSUME TypeOK, NEW w \in Workers, RunOnce(w)
  PROVE  \E changed : Kept(changed) /\ Unsent /\ Notify(changed) /\ watching' = watching
<1>1. PICK b \in Seq(Ids) :
        /\ \A p \in DOMAIN b : b[p] \in DOMAIN messages
        /\ Claim(w, b)
        /\ DOMAIN messages' = DOMAIN messages
  BY RunOnceFacts
<1> DEFINE taken == {b[p] : p \in DOMAIN b}
<1>2. \A m \in DOMAIN messages :
        /\ m \in taken => messages'[m] = Claimed(messages[m], w)
        /\ m \notin taken => messages'[m] = messages[m]
  BY <1>1 DEF Claim
<1>3. taken \subseteq DOMAIN messages' /\ Notify(taken) /\ watching' = watching
  BY <1>1 DEF Claim
<1>4. \A m \in DOMAIN messages : messages[m] \in Message
  BY DEF TypeOK, MailboxTypeOK
<1> HIDE DEF taken
<1>5. Kept(taken)
  BY <1>1, <1>2, <1>3, <1>4, MessageIdentity DEF Kept
<1>6. QED BY <1>1, <1>3, <1>5 DEF Unsent

LEMMA AckKeeps ==
  ASSUME TypeOK, NEW m, NEW i, NEW status \in Terminal, Ack(m, i, status)
  PROVE  Kept({m}) /\ Unsent /\ Notify({m}) /\ watching' = watching
<1>1. messages \in Seq(Message) /\ m \in DOMAIN messages
  BY DEF TypeOK, MailboxTypeOK, Ack
<1>2. /\ DOMAIN messages' = DOMAIN messages
      /\ messages'[m] = [messages[m] EXCEPT !.status = status, !.age = 0]
      /\ \A n \in DOMAIN messages \ {m} : messages'[n] = messages[n]
      /\ Notify({m}) /\ watching' = watching
  BY <1>1 DEF Ack
<1>3. \A n \in DOMAIN messages : messages[n] \in Message
  BY <1>1
<1>4. /\ messages'[m].inbox = messages[m].inbox
      /\ messages'[m].key = messages[m].key
      /\ messages'[m].source = messages[m].source
  BY <1>1, <1>2, <1>3, MessageIdentity
<1>5. Kept({m})
  BY <1>1, <1>2, <1>4 DEF Kept
<1>6. QED BY <1>2, <1>5 DEF Unsent

LEMMA TickKeeps ==
  ASSUME TypeOK, Tick
  PROVE  Kept({}) /\ Unsent /\ view' = view /\ watching' = watching
<1>1. /\ DOMAIN messages' = DOMAIN messages
      /\ \A m \in DOMAIN messages : messages'[m] = Aged(messages[m])
      /\ \A m \in DOMAIN messages : messages[m] \in Message
  BY DEF Tick, TypeOK, MailboxTypeOK
<1>2. QED BY <1>1, MessageIdentity, MessageFields DEF Tick, Kept, Unsent

LEMMA SendKeeps ==
  ASSUME TypeOK, NEW s \in Sources, NEW i \in Inboxes, NEW k \in Keys \cup {NoKey},
         Send(s, i, k), ~Replayed(s, i, k)
  PROVE  LET n == Len(messages) + 1 IN
           /\ Kept({n}) /\ Notify({n}) /\ watching' = watching
           /\ n \notin DOMAIN messages /\ DOMAIN messages' = DOMAIN messages \cup {n}
           /\ messages'[n].inbox = i /\ messages'[n].source = s
           /\ messages'[n].key = k
<1>0. messages \in Seq(Message)
  BY DEF TypeOK, MailboxTypeOK
<1>1. PICK new : /\ messages' = Append(messages, new)
                 /\ new.inbox = i /\ new.source = s /\ new.key = k
  BY DEF Send
<1>2. Notify({Len(messages) + 1}) /\ watching' = watching
  BY DEF Send
<1>3. PICK n \in Nat : n = Len(messages) + 1
  BY <1>0
<1>4. /\ n \notin DOMAIN messages /\ DOMAIN messages' = DOMAIN messages \cup {n}
      /\ messages'[n] = new /\ \A m \in DOMAIN messages : messages'[m] = messages[m]
  BY <1>0, <1>1, <1>3
<1>5. Kept({n})
  BY <1>4 DEF Kept
<1>6. QED BY <1>1, <1>2, <1>3, <1>4, <1>5

\* A subscriber's view is of the inboxes watched now.
ViewInv ==
  \A m \in Ids : view[m] # "unseen" =>
    /\ m \in DOMAIN messages
    /\ messages[m].inbox \in watching
    /\ view[m] = messages[m].status

SendersInv == TypeOK /\ NoDuplicateSend /\ ViewInv

LEMMA NotifyCurrent ==
  ASSUME ViewInv, NEW changed, Kept(changed), watching' = watching,
         Notify(changed) \/ (changed = {} /\ view' = view)
  PROVE  ViewInv'
<1> SUFFICES ASSUME NEW m \in Ids, view'[m] # "unseen"
             PROVE  /\ m \in DOMAIN messages'
                    /\ messages'[m].inbox \in watching
                    /\ view'[m] = messages'[m].status
  BY DEF ViewInv
<1>1. CASE m \in changed /\ messages'[m].inbox \in watching /\ Notify(changed)
  BY <1>1 DEF Notify, Kept
<1>2. CASE ~(m \in changed /\ messages'[m].inbox \in watching /\ Notify(changed))
  <2>1. view'[m] = view[m]
    BY <1>2 DEF Notify
  <2>2. m \in DOMAIN messages /\ messages[m].inbox \in watching
        /\ view[m] = messages[m].status
    BY <2>1 DEF ViewInv
  <2>3. m \notin changed
    BY <1>2, <2>2 DEF Kept
  <2>4. QED BY <2>1, <2>2, <2>3 DEF Kept
<1>3. QED BY <1>1, <1>2

LEMMA UnsentOnce ==
  ASSUME NoDuplicateSend, NEW changed, Kept(changed), Unsent
  PROVE  NoDuplicateSend'
BY DEF NoDuplicateSend, Kept, Unsent

LEMMA SendersStep == SendersInv /\ [Next]_vars => SendersInv'
<1> SUFFICES ASSUME SendersInv, [Next]_vars PROVE SendersInv'
  OBVIOUS
<1>0. TypeOK /\ TypeOK' /\ NoDuplicateSend /\ ViewInv
  BY TypeStep DEF SendersInv
<1>1. ASSUME NEW w \in Workers, RunOnce(w) PROVE SendersInv'
  BY <1>0, <1>1, ClaimKeeps, NotifyCurrent, UnsentOnce DEF SendersInv
<1>2. ASSUME NEW w \in Workers, NEW l \in Loops, NEW status \in Terminal,
             Settle(w, l, status)
      PROVE  SendersInv'
  <2>1. PICK m : Kept({m}) /\ Unsent /\ Notify({m}) /\ watching' = watching
    BY <1>0, <1>2, AckKeeps DEF Settle
  <2>2. QED BY <1>0, <2>1, NotifyCurrent, UnsentOnce DEF SendersInv
<1>3. CASE Tick
  BY <1>0, <1>3, TickKeeps, NotifyCurrent, UnsentOnce DEF SendersInv
<1>4. ASSUME NEW s \in Sources, NEW i \in Inboxes, NEW k \in Keys \cup {NoKey},
             Send(s, i, k), ~Replayed(s, i, k)
      PROVE  SendersInv'
  <2>1. PICK n :
          /\ Kept({n}) /\ Notify({n}) /\ watching' = watching
          /\ n \notin DOMAIN messages /\ DOMAIN messages' = DOMAIN messages \cup {n}
          /\ messages'[n].inbox = i /\ messages'[n].source = s
          /\ messages'[n].key = k
    BY <1>0, <1>4, SendKeeps
  <2>2. \A m \in DOMAIN messages :
          /\ messages'[m].inbox = messages[m].inbox
          /\ messages'[m].key = messages[m].key
          /\ messages'[m].source = messages[m].source
    BY <2>1 DEF Kept
  <2>3. NoDuplicateSend'
    BY <1>0, <1>4, <2>1, <2>2 DEF NoDuplicateSend, Replayed
  <2>4. QED BY <1>0, <2>1, <2>3, NotifyCurrent DEF SendersInv
<1>5. ASSUME NEW i \in Inboxes, Subscribe(i) PROVE SendersInv'
  BY <1>0, <1>5 DEF Subscribe, SendersInv, ViewInv, NoDuplicateSend
<1>6. ASSUME NEW i \in Inboxes, Unsubscribe(i) PROVE SendersInv'
  BY <1>0, <1>6 DEF Unsubscribe, SendersInv, ViewInv, NoDuplicateSend
<1>7. CASE UNCHANGED mailboxVars
  BY <1>0, <1>7 DEF mailboxVars, SendersInv, ViewInv, NoDuplicateSend
<1>8. QED
  BY <1>1, <1>2, <1>3, <1>4, <1>5, <1>6, <1>7
  DEF Next, MailboxClient, Worker, Send, TakeNext, Hang, FinishRun, vars, mailboxVars

LEMMA SendersInit == Init => SendersInv
BY InitType DEF Init, MailboxInit, SendersInv, NoDuplicateSend, ViewInv

\* A send repeated under one key, at any time and by any interleaving, never
\* queues the work a second time (send in in-memory-agent-mailbox.ts).
THEOREM SentOnce == Spec => []NoDuplicateSend
<1>1. SendersInv => NoDuplicateSend
  BY DEF SendersInv
<1>2. QED BY <1>1, SendersInit, SendersStep, PTL DEF Spec

\* What a subscriber last heard of a message is what the message is: no
\* change goes by without a notification (publish in in-memory-agent-mailbox.ts).
THEOREM SubscribersCurrent == Spec => []SubscriberCurrent
<1>1. SendersInv => SubscriberCurrent
  <2> SUFFICES ASSUME SendersInv PROVE SubscriberCurrent
    OBVIOUS
  <2>1. DOMAIN messages \subseteq Ids
    BY DEF SendersInv, TypeOK, MailboxTypeOK, Ids
  <2>2. QED BY <2>1 DEF SendersInv, ViewInv, SubscriberCurrent
<1>2. QED BY <1>1, SendersInit, SendersStep, PTL DEF Spec
=============================================================================
