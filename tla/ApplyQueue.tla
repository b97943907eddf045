----------------------------- MODULE ApplyQueue -----------------------------
(***************************************************************************)
(* What the hand-over of committed entries to the service promises: each   *)
(* batch reaches the service once, whole.  Nothing is said of the order.   *)
(***************************************************************************)
EXTENDS Integers, Sequences

CONSTANT Batch      \* the batches Raft hands over

VARIABLES
    handed,     \* the batches handed over so far
    delivered   \* the batches the service received, in order

Received == {delivered[i] : i \in DOMAIN delivered}

QInit == handed = {} /\ delivered = <<>>

Hand(b) ==
    /\ b \in Batch \ handed
    /\ handed' = handed \cup {b}
    /\ UNCHANGED delivered

Deliver(b) ==
    /\ b \in handed \ Received
    /\ delivered' = Append(delivered, b)
    /\ UNCHANGED handed

QNext == \E b \in Batch : Hand(b) \/ Deliver(b)

QSpec == QInit /\ [][QNext]_<<handed, delivered>>
=============================================================================
