---------------------------- MODULE AgentMailbox ----------------------------
(***************************************************************************)
(* The in-memory agent mailbox: a map of messages from which the workers   *)
(* of an inbox claim work under an optional lease, and subscribers that    *)
(* are notified of every change.  An inbox is a pair of a tenant and a     *)
(* target agent, the two fields every operation checks together.           *)
(*                                                                         *)
(* Time is relative, so that it needs no bound: a message carries the time *)
(* since its last update (`age', for updatedAt) and the time its lease     *)
(* still runs (`lease', for leaseExpiresAt).  Ages saturate at MaxAge.     *)
(***************************************************************************)
EXTENDS Integers, Sequences, FiniteSets

CONSTANTS
  Workers,      \* worker ids that claim messages
  Inboxes,      \* <<tenant, target agent>> pairs
  Sources,      \* agents that send
  Keys,         \* idempotency keys
  NoKey,        \* a send without an idempotency key
  NoWorker,     \* claimedBy of a message nobody claimed
  LeaseMs,      \* lease length in ticks; 0 when the claim asks for no lease
  MaxMessages,  \* bound: messages the mailbox ever holds
  MaxAge        \* bound: ages from which updates are no longer told apart

ASSUME MailboxAssumption ==
  /\ LeaseMs \in Nat
  /\ MaxMessages \in Nat
  /\ MaxAge \in Nat
  /\ NoKey \notin Keys
  /\ NoWorker \notin Workers

VARIABLES
  messages,  \* the map, in insertion order: message m is messages[m]
  watching,  \* the inboxes some subscription is open for
  view       \* what the last notification said of each message

mailboxVars == <<messages, watching, view>>

Ids == 1..MaxMessages
Terminal == {"completed", "failed", "canceled"}
Status == {"queued", "claimed"} \cup Terminal
NoLease == -1

Message == [inbox: Inboxes, source: Sources, key: Keys \cup {NoKey},
            status: Status, claimedBy: Workers \cup {NoWorker},
            lease: {NoLease} \cup (0..LeaseMs), age: 0..MaxAge]

MailboxTypeOK ==
  /\ messages \in Seq(Message)
  /\ Len(messages) <= MaxMessages
  /\ watching \in SUBSET Inboxes
  /\ view \in [Ids -> Status \cup {"unseen"}]

MailboxInit ==
  /\ messages = <<>>
  /\ watching = {}
  /\ view = [m \in Ids |-> "unseen"]

-----------------------------------------------------------------------------

\* The handlers of the matching subscriptions run before the call returns.
Notify(changed) ==
  view' = [m \in Ids |-> IF m \in changed /\ messages'[m].inbox \in watching
                         THEN messages'[m].status ELSE view[m]]

\* Mutant: a key is forgotten once its message is settled.
ReplayedOpen(source, inbox, key) ==
  /\ key # NoKey
  /\ \E m \in DOMAIN messages :
       /\ messages[m].inbox = inbox
       /\ messages[m].key = key
       /\ messages[m].source = source
       /\ messages[m].status \notin Terminal

\* A message sent before under the same key, by the same source, to the
\* same inbox, whatever its status is by now.
Replayed(source, inbox, key) ==
  /\ key # NoKey
  /\ \E m \in DOMAIN messages :
       /\ messages[m].inbox = inbox
       /\ messages[m].key = key
       /\ messages[m].source = source

Send(source, inbox, key) ==
  \/ /\ Replayed(source, inbox, key)
     /\ UNCHANGED mailboxVars
  \/ /\ ~Replayed(source, inbox, key)
     /\ Len(messages) < MaxMessages
     /\ messages' = Append(messages,
          [inbox |-> inbox, source |-> source, key |-> key,
           status |-> "queued", claimedBy |-> NoWorker,
           lease |-> NoLease, age |-> 0])
     /\ Notify({Len(messages) + 1})
     /\ UNCHANGED watching

-----------------------------------------------------------------------------

\* Mutants: failed messages are retried; an expired lease is never reclaimed.
ClaimableFailed(m, inbox) ==
  /\ messages[m].inbox = inbox
  /\ messages[m].status \in {"queued", "failed"}
ClaimableQueued(m, inbox) ==
  messages[m].inbox = inbox /\ messages[m].status = "queued"

\* A lease of 0 ticks left has expired; a claim without a lease never does.
Claimable(m, inbox) ==
  /\ messages[m].inbox = inbox
  /\ \/ messages[m].status = "queued"
     \/ messages[m].status = "claimed" /\ messages[m].lease = 0

Candidates(inbox) == {m \in DOMAIN messages : Claimable(m, inbox)}

\* Oldest update first; the sort is stable over the insertion order.
Older(m, n) == \/ messages[m].age > messages[n].age
               \/ messages[m].age = messages[n].age /\ m < n

\* `batch' lists the oldest `limit' candidates of the inbox, oldest first.
OldestBatch(batch, inbox, limit) ==
  /\ \A i, j \in DOMAIN batch : i < j => Older(batch[i], batch[j])
  /\ \A m \in Candidates(inbox) \ {batch[i] : i \in DOMAIN batch} :
       /\ Len(batch) = limit
       /\ \A i \in DOMAIN batch : Older(batch[i], m)

Batches(inbox, limit) ==
  {batch \in UNION {[1..k -> Candidates(inbox)] : k \in 0..limit} :
     OldestBatch(batch, inbox, limit)}

Claimed(msg, worker) ==
  [msg EXCEPT !.status = "claimed", !.claimedBy = worker, !.age = 0,
              !.lease = IF LeaseMs = 0 THEN NoLease ELSE LeaseMs]

\* claim(): `batch' is one of Batches(inbox, limit).
Claim(worker, batch) ==
  LET taken == {batch[i] : i \in DOMAIN batch}
  IN  /\ messages' = [m \in DOMAIN messages |->
                        IF m \in taken THEN Claimed(messages[m], worker)
                                       ELSE messages[m]]
      /\ Notify(taken)
      /\ UNCHANGED watching

-----------------------------------------------------------------------------

\* ack() checks the inbox of the message and nothing else: neither its
\* status nor who holds its claim.
Ack(m, inbox, status) ==
  /\ m \in DOMAIN messages
  /\ messages[m].inbox = inbox
  /\ messages' = [messages EXCEPT ![m].status = status, ![m].age = 0]
  /\ Notify({m})
  /\ UNCHANGED watching

Subscribe(inbox) ==
  /\ inbox \notin watching
  /\ watching' = watching \cup {inbox}
  /\ UNCHANGED <<messages, view>>

\* A closed subscription hears nothing more: its view is forgotten.
Unsubscribe(inbox) ==
  /\ inbox \in watching
  /\ watching' = watching \ {inbox}
  /\ view' = [m \in Ids |-> IF m \in DOMAIN messages /\ messages[m].inbox = inbox
                            THEN "unseen" ELSE view[m]]
  /\ UNCHANGED messages

\* Mutant: nothing keeps a lease from running below zero.
AgedUnbounded(msg) == [msg EXCEPT !.age = 0, !.lease = @ - 1]

Aged(msg) ==
  [msg EXCEPT !.age = IF @ < MaxAge THEN @ + 1 ELSE @,
              !.lease = IF @ > 0 THEN @ - 1 ELSE @]

\* The clock.
Tick ==
  /\ messages' = [m \in DOMAIN messages |-> Aged(messages[m])]
  /\ UNCHANGED <<watching, view>>

-----------------------------------------------------------------------------

\* At most one message per idempotency key, source and inbox, even after the
\* first one was completed: a retried send never queues the work again.
NoDuplicateSend ==
  \A m, n \in DOMAIN messages :
    /\ messages[m].key = messages[n].key
    /\ messages[m].key # NoKey
    /\ messages[m].source = messages[n].source
    /\ messages[m].inbox = messages[n].inbox
    => m = n

\* What a subscriber was last told of a message is what the message is now:
\* no change of status goes by without a notification of the new status.
SubscriberCurrent ==
  \A m \in DOMAIN messages :
    view[m] # "unseen" => view[m] = messages[m].status
=============================================================================
