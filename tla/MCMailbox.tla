------------------------------ MODULE MCMailbox ------------------------------
\* Instances of the mailbox and its workers for TLC.
EXTENDS AgentMailboxWorker

CONSTANTS w1, w2, w3, i1, i2

\* Two workers compete for inbox i1, nobody or a third one serves i2.
MCWorkerInbox == [w \in Workers |-> IF w = w3 THEN i2 ELSE i1]
=============================================================================
