------------------------------ MODULE ApplyCh ------------------------------
(***************************************************************************)
(* applyChBuffer: goroutines that put batches of committed entries into a  *)
(* buffer, and the one goroutine that empties it into applyCh.  All share  *)
(* one mutex and one condition variable, and wake each other with Signal.  *)
(*                                                                         *)
(* A step is what a goroutine does from getting the mutex to giving it up, *)
(* by Unlock or by Wait.  sync.Cond wakes waiters in the order they came.  *)
(***************************************************************************)
EXTENDS Integers, Sequences, FiniteSets

CONSTANTS
    NumBatches,     \* bound: batches handed over in all
    MaxPending      \* bound: batches handed over and not yet delivered

ASSUME BatchAssumption == NumBatches \in Nat /\ MaxPending \in Nat

Batch  == 1..NumBatches     \* numbered in the order Raft hands them over
Reader == 0                 \* getApplyChBuffer; goroutine b puts batch b
Proc   == Batch \cup {Reader}

VARIABLES
    handed,     \* batches whose goroutine was started
    pc,         \* where each goroutine is
    buffer,     \* applyChBuffer, by batches
    waiters,    \* the goroutines inside applyChCond.Wait
    delivered,  \* batches sent on applyCh
    killed      \* rf.dead

vars == <<handed, pc, buffer, waiters, delivered, killed>>

\* "ready": runs or waits for the mutex; "woken": the same, inside a Wait.
Location == {"absent", "ready", "waiting", "woken", "done"}

Pending == handed \ {delivered[i] : i \in DOMAIN delivered}

Init ==
    /\ handed = {}
    /\ pc = [p \in Proc |-> IF p = Reader THEN "ready" ELSE "absent"]
    /\ buffer = <<>>
    /\ waiters = <<>>
    /\ delivered = <<>>
    /\ killed = FALSE

\* go rf.putApplyChBuffer(...) by the code that moved commitIndex.
Hand(b) ==
    /\ b \notin handed /\ Batch \cap (1..(b - 1)) \subseteq handed
    /\ Cardinality(Pending) < MaxPending
    /\ handed' = handed \cup {b}
    /\ pc' = [pc EXCEPT ![b] = "ready"]
    /\ UNCHANGED <<buffer, waiters, delivered, killed>>

Runs(p) == pc[p] \in {"ready", "woken"}

\* Goroutine p calls Wait.
Wait(p) ==
    /\ pc' = [pc EXCEPT ![p] = "waiting"]
    /\ waiters' = Append(waiters, p)
    /\ UNCHANGED <<buffer, delivered>>

\* Mutant of SignalAndGo: nobody is woken.
GoWithoutSignal(p, l) == pc' = [pc EXCEPT ![p] = l] /\ UNCHANGED waiters

\* Goroutine p calls Signal and goes to location l.
SignalAndGo(p, l) ==
    IF waiters = <<>>
      THEN pc' = [pc EXCEPT ![p] = l] /\ UNCHANGED waiters
      ELSE /\ pc' = [pc EXCEPT ![p] = l, ![Head(waiters)] = "woken"]
           /\ waiters' = Tail(waiters)

\* putApplyChBuffer: wait until the buffer is empty, fill it, signal.
Put(b) ==
    /\ Runs(b)
    /\ \/ buffer # <<>> /\ Wait(b)
       \/ /\ buffer = <<>>
          /\ buffer' = <<b>>
          /\ SignalAndGo(b, "done")
          /\ UNCHANGED delivered
    /\ UNCHANGED <<handed, killed>>

\* Mutant of Emptied: the buffer keeps what was sent.
NeverEmptied == buffer' = buffer

Emptied == buffer' = <<>>

(***************************************************************************)
(* getApplyChBuffer: wait until the buffer holds something, send all of it *)
(* with the mutex held, signal, and start over unless killed.              *)
(***************************************************************************)
Get ==
    /\ Runs(Reader)
    /\ killed => pc[Reader] = "woken"
    /\ \/ buffer = <<>> /\ Wait(Reader)
       \/ /\ buffer # <<>>
          /\ delivered' = delivered \o buffer
          /\ Emptied
          /\ SignalAndGo(Reader, "ready")
    /\ UNCHANGED <<handed, killed>>

\* The loop condition of getApplyChBuffer after Kill().
ReaderStops ==
    /\ killed /\ pc[Reader] = "ready"
    /\ pc' = [pc EXCEPT ![Reader] = "done"]
    /\ UNCHANGED <<handed, buffer, waiters, delivered, killed>>

Kill ==
    /\ ~killed
    /\ killed' = TRUE
    /\ UNCHANGED <<handed, pc, buffer, waiters, delivered>>

Next ==
    \/ \E b \in Batch : Hand(b) \/ Put(b)
    \/ Get
    \/ ReaderStops
    \/ Kill

Spec == Init /\ [][Next]_vars

\* A goroutine that can have the mutex gets it.
FairSpec == Spec /\ WF_vars(Get) /\ \A b \in Batch : WF_vars(Put(b))

-----------------------------------------------------------------------------
\* The variables have the types of the Go declarations they stand for.
TypeOK ==
    /\ handed \subseteq Batch
    /\ pc \in [Proc -> Location]
    /\ buffer \in Seq(Batch)
    /\ waiters \in Seq(Proc)
    /\ delivered \in Seq(Batch)
    /\ killed \in BOOLEAN

\* The goroutines inside Wait are the ones in the notify list, each once.
WaitersWait ==
    /\ \A i \in DOMAIN waiters : pc[waiters[i]] = "waiting"
    /\ \A i, j \in DOMAIN waiters : i # j => waiters[i] # waiters[j]

(***************************************************************************)
(* A batch that was handed over is in one place: with its goroutine, in    *)
(* the buffer, or delivered.  The buffer holds one batch at a time.        *)
(***************************************************************************)
OnePlace ==
    /\ \A b \in Batch : pc[b] = "absent" <=> b \notin handed
    /\ Len(buffer) <= 1
    /\ \A i \in DOMAIN buffer :
         pc[buffer[i]] = "done" /\ \A j \in DOMAIN delivered : buffer[i] # delivered[j]
    /\ \A i \in DOMAIN delivered : pc[delivered[i]] = "done"
    /\ \A i, j \in DOMAIN delivered : i # j => delivered[i] # delivered[j]

BufferInv == TypeOK /\ WaitersWait /\ OnePlace

(***************************************************************************)
(* Whatever the order of wake-ups, every batch is delivered at most once   *)
(* and only after it was handed over: the buffer implements ApplyQueue.    *)
(***************************************************************************)
Queue == INSTANCE ApplyQueue

QueueSpec == Queue!QSpec

(***************************************************************************)
(* No wake-up is lost: when batches wait to be delivered, somebody can     *)
(* run.  (The reader "sends the data from the buffer to applyCh".)         *)
(***************************************************************************)
NobodyStuck == killed \/ Pending = {} \/ \E p \in Proc : Runs(p)

(***************************************************************************)
(* Unless the server is killed, every batch that is handed over reaches    *)
(* the service.                                                            *)
(***************************************************************************)
EventuallyDelivered ==
    \A b \in Batch : [](b \in handed => <>(killed \/ b \notin Pending))
=============================================================================
