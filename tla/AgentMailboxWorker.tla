------------------------- MODULE AgentMailboxWorker -------------------------
(***************************************************************************)
(* Mailbox workers over the mailbox: runOnce() claims a batch and handles  *)
(* it with up to Concurrency loops that share one cursor.  The host calls  *)
(* runOnce() again once the previous call has returned.                    *)
(***************************************************************************)
EXTENDS AgentMailbox

CONSTANTS
  WorkerInbox,  \* the inbox each worker serves
  BatchSize,    \* limit of a claim
  Concurrency,  \* loops of one run
  CanHang       \* workers whose handler may never settle

ASSUME WorkerAssumption ==
  /\ WorkerInbox \in [Workers -> Inboxes]
  /\ BatchSize \in Nat \ {0}
  /\ Concurrency \in Nat \ {0}
  /\ CanHang \subseteq Workers

VARIABLES
  active,    \* is a runOnce() of the worker in progress
  batch,     \* the messages the worker's last run claimed
  cursor,    \* entries of the batch already taken
  handling,  \* per loop: the batch entry being handled, 0 for none
  hung,      \* <<worker, loop>> whose handler will never settle
  done,      \* the entries of the batch pushed to processedMessageIds
  handled    \* history: how often a handler was called on each message

workerVars == <<active, batch, cursor, handling, hung, done, handled>>
vars == <<messages, watching, view, active, batch, cursor, handling, hung,
          done, handled>>

Loops == 1..Concurrency
MaxHandled == 2   \* bound: the history tells 0, 1 and "more than once" apart

TypeOK ==
  /\ MailboxTypeOK
  /\ active \in [Workers -> BOOLEAN]
  /\ batch \in [Workers -> Seq(Ids)]
  /\ cursor \in [Workers -> Nat]
  /\ handling \in [Workers -> [Loops -> Nat]]
  /\ hung \in SUBSET (CanHang \X Loops)
  /\ done \in [Workers -> SUBSET (Nat \ {0})]
  /\ handled \in [Ids -> 0..MaxHandled]

Init ==
  /\ MailboxInit
  /\ active = [w \in Workers |-> FALSE]
  /\ batch = [w \in Workers |-> <<>>]
  /\ cursor = [w \in Workers |-> 0]
  /\ handling = [w \in Workers |-> [l \in Loops |-> 0]]
  /\ hung = {}
  /\ done = [w \in Workers |-> {}]
  /\ handled = [m \in Ids |-> 0]

-----------------------------------------------------------------------------

RunOnce(w) ==
  /\ ~active[w]
  /\ \E b \in Batches(WorkerInbox[w], BatchSize) :
       /\ b # <<>>   \* an empty claim returns at once and changes nothing
       /\ Claim(w, b)
       /\ batch' = [batch EXCEPT ![w] = b]
  /\ active' = [active EXCEPT ![w] = TRUE]
  /\ cursor' = [cursor EXCEPT ![w] = 0]
  /\ done' = [done EXCEPT ![w] = {}]
  /\ UNCHANGED <<handling, hung, handled>>

\* A loop takes the next entry of the batch and calls the handler.
TakeNext(w, l) ==
  /\ active[w]
  /\ handling[w][l] = 0
  /\ cursor[w] < Len(batch[w])
  /\ cursor' = [cursor EXCEPT ![w] = @ + 1]
  /\ handling' = [handling EXCEPT ![w][l] = cursor[w] + 1]
  /\ handled' = [handled EXCEPT ![batch[w][cursor[w] + 1]] =
                   IF @ < MaxHandled THEN @ + 1 ELSE @]
  /\ UNCHANGED <<mailboxVars, active, batch, hung, done>>

\* The handler settles: the worker acknowledges the status it returned, or
\* "failed" when it threw.
Settle(w, l, status) ==
  /\ handling[w][l] # 0
  /\ <<w, l>> \notin hung
  /\ Ack(batch[w][handling[w][l]], WorkerInbox[w], status)
  /\ done' = [done EXCEPT ![w] = @ \cup {handling[w][l]}]
  /\ handling' = [handling EXCEPT ![w][l] = 0]
  /\ UNCHANGED <<active, batch, cursor, hung, handled>>

\* The handler's promise never settles (external: the host's handler).
Hang(w, l) ==
  /\ w \in CanHang
  /\ handling[w][l] # 0
  /\ <<w, l>> \notin hung
  /\ hung' = hung \cup {<<w, l>>}
  /\ UNCHANGED <<mailboxVars, active, batch, cursor, handling, done,
                 handled>>

\* Mutant: the loops are started but not awaited.
LoopsStarted(w) == cursor[w] >= Len(batch[w])

LoopsEnded(w) ==
  /\ cursor[w] >= Len(batch[w])
  /\ \A l \in Loops : handling[w][l] = 0

\* Every loop has left its while: runOnce() returns its result, and its batch
\* is forgotten.
FinishRun(w) ==
  /\ active[w]
  /\ LoopsEnded(w)
  /\ active' = [active EXCEPT ![w] = FALSE]
  /\ batch' = [batch EXCEPT ![w] = <<>>]
  /\ cursor' = [cursor EXCEPT ![w] = 0]
  /\ done' = [done EXCEPT ![w] = {}]
  /\ UNCHANGED <<mailboxVars, handling, hung, handled>>

MailboxClient ==
  /\ \/ \E s \in Sources, i \in Inboxes, k \in Keys \cup {NoKey} : Send(s, i, k)
     \/ \E i \in Inboxes : Subscribe(i)
     \/ \E i \in Inboxes : Unsubscribe(i)
     \/ Tick
  /\ UNCHANGED workerVars

Worker(w) ==
  \/ RunOnce(w)
  \/ \E l \in Loops : TakeNext(w, l)
  \/ \E l \in Loops, status \in Terminal : Settle(w, l, status)
  \/ \E l \in Loops : Hang(w, l)
  \/ FinishRun(w)

Next == MailboxClient \/ \E w \in Workers : Worker(w)

Spec == Init /\ [][Next]_vars

\* The host keeps calling runOnce(), handlers that do not hang settle, and
\* time passes.  Nobody has to send, subscribe or hang.
Fairness ==
  /\ WF_vars(Tick /\ UNCHANGED workerVars)
  /\ \A w \in Workers :
       /\ WF_vars(RunOnce(w))
       /\ WF_vars(FinishRun(w))
       /\ \A l \in Loops :
            /\ WF_vars(TakeNext(w, l))
            /\ WF_vars(\E status \in Terminal : Settle(w, l, status))

FairSpec == Spec /\ Fairness

-----------------------------------------------------------------------------

\* Entries of a worker's batch that its run has not settled yet.
Pending(w) == {p \in DOMAIN batch[w] : active[w] /\ p \notin done[w]}

HasKeeper(m) ==
  LET w == messages[m].claimedBy
  IN  w \in Workers /\ \E p \in Pending(w) : batch[w][p] = m

\* A claimed message is never orphaned by the bookkeeping of a run: the
\* worker it is claimed by still has it in its batch, unsettled.
ClaimHasKeeper ==
  \A m \in DOMAIN messages : messages[m].status = "claimed" => HasKeeper(m)

\* Loops that share a cursor never take the same entry, and every entry
\* below the cursor is either settled or in the hands of one loop.
CursorSplitsBatch ==
  \A w \in Workers : active[w] =>
    /\ \A l, k \in Loops :
         handling[w][l] = handling[w][k] /\ handling[w][l] # 0 => l = k
    /\ \A p \in 1..cursor[w] :
         (p \in done[w]) <=> ~(\E l \in Loops : handling[w][l] = p)

\* Without leases a message is handed to a handler at most once, whatever
\* the number of workers of its inbox.
NoDuplicateHandling == \A m \in Ids : handled[m] <= 1

\* A settled message is never queued or claimed again.
TerminalNeverReopened ==
  [][\A m \in DOMAIN messages :
       messages[m].status \in Terminal => messages'[m].status \in Terminal]_vars

\* With leases, a message of an inbox that has a worker which never hangs is
\* settled in the end, even if other workers of the inbox claim it and hang.
Served(i) == \E w \in Workers \ CanHang : WorkerInbox[w] = i
EventuallySettled ==
  \A m \in Ids :
    (m \in DOMAIN messages /\ Served(messages[m].inbox)) ~>
      (m \in DOMAIN messages /\ messages[m].status \in Terminal)

-----------------------------------------------------------------------------

\* The abstract queue: without leases the mailbox and its workers implement
\* it, every message claimed once and settled once by the claimer.
Queue == INSTANCE TaskQueue WITH
  Tasks <- Ids,
  state <- [m \in Ids |-> IF m \in DOMAIN messages THEN messages[m].status
                                                   ELSE "absent"],
  owner <- [m \in Ids |-> IF m \in DOMAIN messages THEN messages[m].claimedBy
                                                   ELSE NoWorker]

ImplementsTaskQueue == Queue!Spec
=============================================================================
