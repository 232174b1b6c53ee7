------------------------------ MODULE MCA2A --------------------------------
\* An instance of the mailbox, its workers and its A2A clients for TLC.
EXTENDS A2ATasks

CONSTANTS w1, w2, w3, i1, i2

\* Two workers compete for inbox i1; nobody serves i2.
MCWorkerInbox == [w \in Workers |-> IF w = w3 THEN i2 ELSE i1]
\* Nobody subscribes: notifications are the subject of another instance.
MCUnwatched == watching = {}
=============================================================================
