--------------------------- MODULE ApplyChProofs ---------------------------
(***************************************************************************)
(* Proofs about applyChBuffer, for any number of batches: BufferInv is     *)
(* inductive, and from it the buffer implements ApplyQueue.  As long as at *)
(* most two batches wait to be delivered, no wake-up is lost.              *)
(***************************************************************************)
EXTENDS ApplyCh, SequenceTheorems, FiniteSetTheorems, TLAPS

\* The reader is not the goroutine of a batch.
LEMMA ReaderNoBatch == Reader \notin Batch /\ Reader \in Proc /\ Batch \subseteq Proc
BY BatchAssumption DEF Reader, Batch, Proc

\* Appending one waiter keeps the notify list a list of waiting goroutines.
LEMMA WaitKeeps ==
    ASSUME TypeOK, WaitersWait, NEW p \in Proc, Runs(p), Wait(p)
    PROVE  /\ waiters' \in Seq(Proc)
           /\ pc' \in [Proc -> Location]
           /\ WaitersWait'
<1>1. waiters \in Seq(Proc) /\ pc \in [Proc -> Location]
  BY DEF TypeOK
<1>2. pc' = [pc EXCEPT ![p] = "waiting"] /\ waiters' = Append(waiters, p)
  BY DEF Wait
<1>3. pc[p] # "waiting"
  BY DEF Runs
<1>4. \A i \in DOMAIN waiters : waiters[i] # p
  BY <1>3 DEF WaitersWait
<1>. QED
  BY <1>1, <1>2, <1>4 DEF WaitersWait, Location

\* Signal takes the longest waiting goroutine out of Wait, and only that one.
LEMMA SignalKeeps ==
    ASSUME TypeOK, WaitersWait, NEW p \in Proc, Runs(p),
           NEW l \in {"ready", "done"}, SignalAndGo(p, l)
    PROVE  /\ waiters' \in Seq(Proc)
           /\ pc' \in [Proc -> Location]
           /\ WaitersWait'
           /\ pc'[p] = l
           /\ \A q \in Proc : q # p => \/ pc'[q] = pc[q]
                                       \/ pc[q] = "waiting" /\ pc'[q] = "woken"
<1>1. waiters \in Seq(Proc) /\ pc \in [Proc -> Location]
  BY DEF TypeOK
<1>2. pc[p] # "waiting"
  BY DEF Runs
<1>3. CASE waiters = <<>>
  BY <1>1, <1>2, <1>3 DEF SignalAndGo, WaitersWait, Location
<1>4. CASE waiters # <<>>
  <2>1. /\ pc' = [pc EXCEPT ![p] = l, ![Head(waiters)] = "woken"]
        /\ waiters' = Tail(waiters)
    BY <1>4 DEF SignalAndGo
  <2>2. Head(waiters) = waiters[1] /\ 1 \in DOMAIN waiters /\ Head(waiters) \in Proc
    BY <1>1, <1>4
  <2>3. pc[Head(waiters)] = "waiting" /\ Head(waiters) # p
    BY <1>2, <2>2 DEF WaitersWait
  <2>4. /\ Tail(waiters) \in Seq(Proc)
        /\ \A i \in DOMAIN Tail(waiters) :
             i + 1 \in DOMAIN waiters /\ Tail(waiters)[i] = waiters[i + 1] /\ i \in Nat /\ i + 1 # 1
    BY <1>1, <1>4
  <2>5. \A i \in DOMAIN Tail(waiters) : Tail(waiters)[i] # Head(waiters) /\ Tail(waiters)[i] # p
    BY <1>2, <2>2, <2>4 DEF WaitersWait
  <2>6. \A i \in DOMAIN Tail(waiters) : pc'[Tail(waiters)[i]] = "waiting"
    BY <1>1, <2>1, <2>4, <2>5 DEF WaitersWait
  <2>7. \A i, j \in DOMAIN Tail(waiters) : i # j => Tail(waiters)[i] # Tail(waiters)[j]
    BY <2>4 DEF WaitersWait
  <2>8. WaitersWait'
    BY <2>1, <2>6, <2>7 DEF WaitersWait
  <2>. QED
    BY <1>1, <2>1, <2>3, <2>4, <2>8 DEF Location
<1>. QED
  BY <1>3, <1>4

-----------------------------------------------------------------------------
\* The state Make() sets up: an empty buffer and only the reader.
LEMMA InitInv == Init => BufferInv
<1>. SUFFICES ASSUME Init PROVE BufferInv
  OBVIOUS
<1>1. TypeOK
  <2>1. pc \in [Proc -> Location] /\ handed \subseteq Batch /\ killed \in BOOLEAN
    BY DEF Init, Location
  <2>2. buffer \in Seq(Batch) /\ waiters \in Seq(Proc) /\ delivered \in Seq(Batch)
    BY DEF Init
  <2>. QED
    BY <2>1, <2>2 DEF TypeOK
<1>2. WaitersWait
  BY DEF Init, WaitersWait
<1>3. OnePlace
  BY ReaderNoBatch DEF Init, OnePlace
<1>. QED
  BY <1>1, <1>2, <1>3 DEF BufferInv

\* A goroutine that was just started has its batch and nobody else has.
LEMMA HandKeeps == ASSUME BufferInv, NEW b \in Batch, Hand(b) PROVE BufferInv'
<1>. USE ReaderNoBatch
<1>1. TypeOK'
  BY DEF BufferInv, TypeOK, Hand, Location
<1>2. pc[b] = "absent"
  BY DEF BufferInv, OnePlace, Hand
<1>3. WaitersWait'
  BY <1>2 DEF BufferInv, TypeOK, WaitersWait, Hand
<1>4. OnePlace'
  BY <1>2 DEF BufferInv, TypeOK, OnePlace, Hand
<1>. QED
  BY <1>1, <1>3, <1>4 DEF BufferInv

\* putApplyChBuffer moves its own batch into an empty buffer, or waits.
LEMMA PutKeeps == ASSUME BufferInv, NEW b \in Batch, Put(b) PROVE BufferInv'
<1>. USE ReaderNoBatch
<1>1. TypeOK /\ WaitersWait /\ OnePlace /\ Runs(b) /\ b \in Proc
  BY DEF BufferInv, Put
<1>2. CASE Wait(b)
  <2>1. TypeOK'
    BY <1>1, <1>2, WaitKeeps DEF TypeOK, Put, Wait
  <2>2. OnePlace'
    BY <1>1, <1>2 DEF TypeOK, OnePlace, Put, Wait, Runs
  <2>. QED
    BY <1>1, <1>2, <2>1, <2>2, WaitKeeps DEF BufferInv
<1>3. CASE buffer = <<>> /\ buffer' = <<b>> /\ SignalAndGo(b, "done") /\ UNCHANGED delivered
  <2>1. /\ waiters' \in Seq(Proc) /\ pc' \in [Proc -> Location] /\ WaitersWait'
        /\ pc'[b] = "done"
        /\ \A q \in Proc : q # b => \/ pc'[q] = pc[q]
                                    \/ pc[q] = "waiting" /\ pc'[q] = "woken"
    BY <1>1, <1>3, SignalKeeps
  <2>2. TypeOK'
    BY <1>1, <1>3, <2>1 DEF TypeOK, Put
  <2>3. pc[b] # "done" /\ pc[b] # "absent"
    BY <1>1 DEF Runs
  <2>4. \A j \in DOMAIN delivered : delivered[j] \in Proc /\ delivered[j] # b
    BY <1>1, <2>3 DEF TypeOK, OnePlace
  <2>5. Len(buffer') = 1 /\ \A i \in DOMAIN buffer' : buffer'[i] = b
    BY <1>3
  <2>6. UNCHANGED <<handed, delivered>>
    BY <1>3 DEF Put
  <2>7. \A c \in Batch : pc'[c] = "absent" <=> c \notin handed'
    BY <1>1, <2>1, <2>3, <2>6 DEF OnePlace
  <2>8. \A i \in DOMAIN delivered : pc'[delivered[i]] = "done"
    BY <1>1, <2>1, <2>4 DEF OnePlace
  <2>9. OnePlace'
    BY <1>1, <2>1, <2>4, <2>5, <2>6, <2>7, <2>8 DEF OnePlace
  <2>. QED
    BY <2>1, <2>2, <2>9 DEF BufferInv
<1>. QED
  BY <1>2, <1>3 DEF Put

\* What the reader takes from a filled buffer is the one batch in it.
LEMMA OneBatch ==
    ASSUME BufferInv, buffer # <<>>
    PROVE  /\ buffer[1] \in Batch
           /\ buffer = <<buffer[1]>>
           /\ 1 \in DOMAIN buffer
           /\ delivered \o buffer = Append(delivered, buffer[1])
<1>1. buffer \in Seq(Batch) /\ delivered \in Seq(Batch) /\ Len(buffer) <= 1
  BY DEF BufferInv, TypeOK, OnePlace
<1>2. Len(buffer) = 1
  <2>1. Len(buffer) \in Nat \ {0}
    BY <1>1, EmptySeq
  <2>2. \A n \in Nat \ {0} : n <= 1 => n = 1
    OBVIOUS
  <2>. QED
    BY <1>1, <2>1, <2>2
<1>3. buffer[1] \in Batch /\ 1 \in DOMAIN buffer /\ buffer = <<buffer[1]>>
  BY <1>1, <1>2
<1>. QED
  BY <1>1, <1>3

\* getApplyChBuffer delivers what is in the buffer and empties it, or waits.
LEMMA GetKeeps == ASSUME BufferInv, Get PROVE BufferInv'
<1>. USE ReaderNoBatch
<1>1. TypeOK /\ WaitersWait /\ OnePlace /\ Runs(Reader)
  BY DEF BufferInv, Get
<1>2. CASE Wait(Reader)
  <2>1. TypeOK'
    BY <1>1, <1>2, WaitKeeps DEF TypeOK, Get, Wait
  <2>2. OnePlace'
    BY <1>1, <1>2 DEF TypeOK, OnePlace, Get, Wait, Runs
  <2>. QED
    BY <1>1, <1>2, <2>1, <2>2, WaitKeeps DEF BufferInv
<1>3. CASE /\ buffer # <<>> /\ delivered' = delivered \o buffer
           /\ Emptied /\ SignalAndGo(Reader, "ready")
  <2>. DEFINE b == buffer[1]
  <2>1. /\ waiters' \in Seq(Proc) /\ pc' \in [Proc -> Location] /\ WaitersWait'
        /\ \A q \in Proc : q # Reader => \/ pc'[q] = pc[q]
                                         \/ pc[q] = "waiting" /\ pc'[q] = "woken"
    BY <1>1, <1>3, SignalKeeps
  <2>2. b \in Batch /\ 1 \in DOMAIN buffer /\ delivered' = Append(delivered, b)
    BY <1>3, OneBatch
  <2>3. handed' = handed /\ buffer' = <<>> /\ killed' = killed
    BY <1>3 DEF Get, Emptied
  <2>4. TypeOK'
    BY <1>1, <2>1, <2>2, <2>3 DEF TypeOK
  <2>5. pc[b] = "done" /\ \A j \in DOMAIN delivered : b # delivered[j]
    BY <1>1, <2>2 DEF OnePlace
  <2>6. \A q \in Batch : pc[q] \in {"done", "absent"} => pc'[q] = pc[q]
    BY <2>1
  <2>7. \A q \in Batch : pc[q] # "absent" => pc'[q] # "absent"
    BY <2>1
  <2>8. delivered \in Seq(Batch)
    BY <1>1 DEF TypeOK
  <2>9. /\ \A i \in DOMAIN delivered' : pc'[delivered'[i]] = "done"
        /\ \A i, j \in DOMAIN delivered' : i # j => delivered'[i] # delivered'[j]
    BY <1>1, <2>2, <2>5, <2>6, <2>8 DEF OnePlace
  <2>10. OnePlace'
    BY <1>1, <2>3, <2>6, <2>7, <2>9 DEF OnePlace
  <2>. QED
    BY <2>1, <2>4, <2>10 DEF BufferInv
<1>. QED
  BY <1>2, <1>3 DEF Get

\* Every step of every goroutine keeps the invariant.
LEMMA StepInv == BufferInv /\ [Next]_vars => BufferInv'
<1>. SUFFICES ASSUME BufferInv, [Next]_vars PROVE BufferInv'
  OBVIOUS
<1>1. ASSUME NEW b \in Batch, Hand(b) PROVE BufferInv'
  BY <1>1, HandKeeps
<1>2. ASSUME NEW b \in Batch, Put(b) PROVE BufferInv'
  BY <1>2, PutKeeps
<1>3. CASE Get
  BY <1>3, GetKeeps
<1>4. CASE ReaderStops
  <2>1. TypeOK'
    BY <1>4, ReaderNoBatch DEF ReaderStops, BufferInv, TypeOK, Location
  <2>2. WaitersWait'
    BY <1>4, ReaderNoBatch DEF ReaderStops, BufferInv, TypeOK, WaitersWait
  <2>3. OnePlace'
    BY <1>4, ReaderNoBatch DEF ReaderStops, BufferInv, TypeOK, OnePlace
  <2>. QED
    BY <2>1, <2>2, <2>3 DEF BufferInv
<1>5. CASE Kill
  BY <1>5 DEF Kill, BufferInv, TypeOK, WaitersWait, OnePlace
<1>6. CASE UNCHANGED vars
  BY <1>6 DEF vars, BufferInv, TypeOK, WaitersWait, OnePlace
<1>. QED
  BY <1>1, <1>2, <1>3, <1>4, <1>5, <1>6 DEF Next

(***************************************************************************)
(* For any number of batches: a handed-over batch is in one place, and the *)
(* notify list and the goroutines inside Wait agree (putApplyChBuffer and  *)
(* getApplyChBuffer).                                                      *)
(***************************************************************************)
THEOREM BufferInvariant == Spec => []BufferInv
<1>. QED
  BY InitInv, StepInv, PTL DEF Spec

(***************************************************************************)
(* For any number of batches and any order of wake-ups: applyChBuffer      *)
(* delivers every batch at most once, whole, and only if it was handed     *)
(* over.                                                                   *)
(***************************************************************************)
THEOREM ImplementsQueue == Spec => QueueSpec
<1>1. Init => Queue!QInit
  BY DEF Init, Queue!QInit
<1>2. BufferInv /\ [Next]_vars => [Queue!QNext]_<<handed, delivered>>
  <2>. SUFFICES ASSUME BufferInv, [Next]_vars
                PROVE  Queue!QNext \/ UNCHANGED <<handed, delivered>>
    OBVIOUS
  <2>1. ASSUME NEW b \in Batch, Hand(b) PROVE Queue!QNext
    BY <2>1 DEF Hand, Queue!QNext, Queue!Hand
  <2>2. ASSUME NEW b \in Batch, Put(b) PROVE UNCHANGED <<handed, delivered>>
    BY <2>2 DEF Put, Wait
  <2>3. CASE Get
    <3>1. CASE Wait(Reader)
      BY <2>3, <3>1 DEF Get, Wait
    <3>2. CASE buffer # <<>> /\ delivered' = delivered \o buffer
      <4>1. /\ buffer[1] \in Batch /\ 1 \in DOMAIN buffer
            /\ delivered' = Append(delivered, buffer[1])
        BY <3>2, OneBatch
      <4>2. buffer[1] \in handed
        BY <4>1 DEF BufferInv, OnePlace
      <4>3. buffer[1] \notin Queue!Received
        BY <4>1 DEF BufferInv, OnePlace, Queue!Received
      <4>. QED
        BY <2>3, <4>1, <4>2, <4>3 DEF Get, Queue!QNext, Queue!Deliver
    <3>. QED
      BY <2>3, <3>1, <3>2 DEF Get
  <2>4. CASE ReaderStops
    BY <2>4 DEF ReaderStops
  <2>5. CASE Kill
    BY <2>5 DEF Kill
  <2>6. CASE UNCHANGED vars
    BY <2>6 DEF vars
  <2>. QED
    BY <2>1, <2>2, <2>3, <2>4, <2>5, <2>6 DEF Next
<1>. QED
  BY <1>1, <1>2, BufferInvariant, PTL DEF Spec, QueueSpec, Queue!QSpec

-----------------------------------------------------------------------------
(***************************************************************************)
(* Two batches at most.  Then one goroutine at most waits beside the       *)
(* reader, so Signal cannot wake the wrong one: while the buffer is empty  *)
(* nobody waits to fill it, and while it is filled the reader can run.     *)
(***************************************************************************)
WaitingIsListed == \A p \in Proc : pc[p] = "waiting" => \E i \in DOMAIN waiters : waiters[i] = p

DoneIsPut ==
    \A b \in Batch : pc[b] = "done" =>
        \/ \E i \in DOMAIN buffer : buffer[i] = b
        \/ \E j \in DOMAIN delivered : delivered[j] = b

RightOneWaits ==
    killed \/ /\ pc[Reader] \in {"ready", "waiting", "woken"}
              /\ buffer = <<>> => \A b \in Batch : pc[b] # "waiting"
              /\ buffer # <<>> => Runs(Reader)

FewPending == IsFiniteSet(Pending) /\ Cardinality(Pending) \in Nat /\ Cardinality(Pending) <= 2

TwoInv == BufferInv /\ WaitingIsListed /\ DoneIsPut /\ RightOneWaits /\ FewPending

\* Besides the batch in the buffer only one is pending: one goroutine waits.
LEMMA OneWaits ==
    ASSUME BufferInv, FewPending, buffer # <<>>,
           NEW b \in Batch, NEW c \in Batch, pc[b] = "waiting", pc[c] = "waiting"
    PROVE  b = c
<1>. SUFFICES ASSUME b # c PROVE FALSE
  OBVIOUS
<1>. DEFINE a == buffer[1]
<1>1. a \in Batch /\ pc[a] = "done" /\ \A j \in DOMAIN delivered : a # delivered[j]
  BY OneBatch DEF BufferInv, OnePlace
<1>2. b \in Pending /\ c \in Pending /\ a \in Pending /\ a # b /\ a # c
  BY <1>1 DEF Pending, BufferInv, OnePlace
<1>. HIDE DEF a
<1>. DEFINE S1 == {a}
            S2 == S1 \cup {b}
            S3 == S2 \cup {c}
<1>3. Cardinality(S1) = 1 /\ IsFiniteSet(S1) /\ b \notin S1
  BY <1>2, FS_Singleton
<1>4. c \notin S2
  BY <1>2
<1>5. S3 \subseteq Pending
  BY <1>2
<1>. HIDE DEF S1
<1>6. Cardinality(S2) = 2 /\ IsFiniteSet(S2)
  BY <1>3, FS_AddElement
<1>. HIDE DEF S2
<1>7. Cardinality(S3) = Cardinality(S2) + 1
  BY <1>4, <1>6, FS_AddElement
<1>. HIDE DEF S3
<1>8. S3 \in SUBSET Pending /\ IsFiniteSet(Pending)
  BY <1>5 DEF FewPending
<1>9. Cardinality(S3) <= Cardinality(Pending)
  BY <1>8, FS_Subset
<1>. QED
  BY <1>6, <1>7, <1>9 DEF FewPending

\* Who waits after Signal is still in the notify list; a lone waiter is woken.
LEMMA SignalWakes ==
    ASSUME BufferInv, WaitingIsListed, NEW p \in Proc, Runs(p),
           NEW l \in {"ready", "done"}, SignalAndGo(p, l)
    PROVE  /\ WaitingIsListed'
           /\ (\A x, y \in Proc : pc[x] = "waiting" /\ pc[y] = "waiting" => x = y)
                => \A x \in Proc : pc'[x] # "waiting"
<1>1. waiters \in Seq(Proc) /\ pc \in [Proc -> Location] /\ WaitersWait
  BY DEF BufferInv, TypeOK
<1>2. CASE waiters = <<>>
  <2>1. \A x \in Proc : pc[x] # "waiting"
    BY <1>2 DEF WaitingIsListed
  <2>2. pc' = [pc EXCEPT ![p] = l] /\ waiters' = waiters
    BY <1>2 DEF SignalAndGo
  <2>3. \A x \in Proc : pc'[x] # "waiting"
    BY <1>1, <2>1, <2>2
  <2>. QED
    BY <2>3 DEF WaitingIsListed
<1>3. CASE waiters # <<>>
  <2>. DEFINE h == Head(waiters)
  <2>1. /\ pc' = [pc EXCEPT ![p] = l, ![h] = "woken"]
        /\ waiters' = Tail(waiters)
    BY <1>3 DEF SignalAndGo
  <2>2. h = waiters[1] /\ 1 \in DOMAIN waiters /\ h \in Proc
    BY <1>1, <1>3
  <2>3. pc[h] = "waiting"
    BY <1>1, <2>2 DEF WaitersWait
  <2>4. \A x \in Proc : pc'[x] = "waiting" => pc[x] = "waiting" /\ x # h
    BY <1>1, <2>1, <2>2
  <2>5. \A i \in DOMAIN waiters : i # 1 => i - 1 \in DOMAIN Tail(waiters)
                                           /\ Tail(waiters)[i - 1] = waiters[i]
    BY <1>1, <1>3
  <2>6. WaitingIsListed'
    <3>. SUFFICES ASSUME NEW x \in Proc, pc'[x] = "waiting"
                  PROVE  \E i \in DOMAIN waiters' : waiters'[i] = x
      BY DEF WaitingIsListed
    <3>1. PICK i \in DOMAIN waiters : waiters[i] = x
      BY <2>4 DEF WaitingIsListed
    <3>2. i # 1
      BY <2>2, <2>4, <3>1
    <3>. QED
      BY <2>1, <2>5, <3>1, <3>2
  <2>. QED
    BY <2>2, <2>3, <2>4, <2>6
<1>. QED
  BY <1>2, <1>3

\* Who calls Wait is put into the notify list.
LEMMA WaitLists ==
    ASSUME BufferInv, WaitingIsListed, NEW p \in Proc, Wait(p)
    PROVE  WaitingIsListed'
<1>1. waiters \in Seq(Proc) /\ pc \in [Proc -> Location]
  BY DEF BufferInv, TypeOK
<1>2. pc' = [pc EXCEPT ![p] = "waiting"] /\ waiters' = Append(waiters, p)
  BY DEF Wait
<1>3. Len(waiters) + 1 \in DOMAIN waiters' /\ waiters'[Len(waiters) + 1] = p
  BY <1>1, <1>2
<1>4. \A i \in DOMAIN waiters : i \in DOMAIN waiters' /\ waiters'[i] = waiters[i]
  BY <1>1, <1>2
<1>5. \A x \in Proc : x # p => pc'[x] = pc[x]
  BY <1>1, <1>2
<1>. QED
  BY <1>3, <1>4, <1>5 DEF WaitingIsListed

\* Nothing is pending before the first batch is handed over.
LEMMA InitTwo == Init => TwoInv
<1>. SUFFICES ASSUME Init PROVE TwoInv
  OBVIOUS
<1>1. BufferInv
  BY InitInv
<1>2. WaitingIsListed /\ DoneIsPut /\ RightOneWaits
  BY ReaderNoBatch DEF Init, WaitingIsListed, DoneIsPut, RightOneWaits
<1>3. Pending = {}
  BY DEF Init, Pending
<1>4. FewPending
  BY <1>3, FS_EmptySet DEF FewPending
<1>. QED
  BY <1>1, <1>2, <1>4 DEF TwoInv

\* A batch is handed over only when one is pending at most.
LEMMA HandTwo == ASSUME MaxPending <= 2, TwoInv, NEW b \in Batch, Hand(b) PROVE TwoInv'
<1>. USE ReaderNoBatch
<1>0. BufferInv /\ WaitingIsListed /\ DoneIsPut /\ RightOneWaits /\ FewPending
  BY DEF TwoInv
<1>1. BufferInv'
  BY <1>0, HandKeeps
<1>2. /\ pc \in [Proc -> Location] /\ pc' = [pc EXCEPT ![b] = "ready"] /\ handed' = handed \cup {b}
      /\ UNCHANGED <<buffer, waiters, delivered, killed>> /\ Cardinality(Pending) < MaxPending
  BY <1>0 DEF Hand, BufferInv, TypeOK
<1>3. WaitingIsListed' /\ DoneIsPut'
  BY <1>0, <1>2 DEF WaitingIsListed, DoneIsPut
<1>4. RightOneWaits'
  BY <1>0, <1>2 DEF RightOneWaits, Runs
<1>5. b \notin Pending /\ \A j \in DOMAIN delivered : delivered[j] # b
  BY <1>0 DEF Hand, Pending, BufferInv, OnePlace
<1>6. Pending' = Pending \cup {b}
  BY <1>2, <1>5 DEF Pending
<1>7. IsFiniteSet(Pending') /\ Cardinality(Pending') = Cardinality(Pending) + 1
  BY <1>0, <1>5, <1>6, FS_AddElement DEF FewPending
<1>8. FewPending'
  BY <1>0, <1>2, <1>7, BatchAssumption DEF FewPending
<1>. QED
  BY <1>1, <1>3, <1>4, <1>8 DEF TwoInv

\* Who fills the empty buffer wakes the reader, if the reader waits.
LEMMA PutTwo == ASSUME TwoInv, NEW b \in Batch, Put(b) PROVE TwoInv'
<1>. USE ReaderNoBatch
<1>0. BufferInv /\ WaitingIsListed /\ DoneIsPut /\ RightOneWaits /\ FewPending
  BY DEF TwoInv
<1>1. BufferInv' /\ Runs(b) /\ UNCHANGED <<handed, delivered, killed>>
  BY <1>0, PutKeeps DEF Put, Wait
<1>2. FewPending'
  BY <1>0, <1>1 DEF FewPending, Pending
<1>3. pc \in [Proc -> Location] /\ b # Reader /\ b \in Proc
  BY <1>0 DEF BufferInv, TypeOK
<1>4. CASE buffer # <<>> /\ Wait(b)
  <2>1. WaitingIsListed'
    BY <1>0, <1>3, <1>4, WaitLists
  <2>2. pc' = [pc EXCEPT ![b] = "waiting"] /\ buffer' = buffer
    BY <1>4 DEF Wait
  <2>3. DoneIsPut' /\ RightOneWaits'
    BY <1>0, <1>1, <1>3, <1>4, <2>2 DEF DoneIsPut, RightOneWaits, Runs
  <2>. QED
    BY <1>1, <1>2, <2>1, <2>3 DEF TwoInv
<1>5. CASE buffer = <<>> /\ buffer' = <<b>> /\ SignalAndGo(b, "done")
  <2>1. /\ WaitingIsListed'
        /\ (\A x, y \in Proc : pc[x] = "waiting" /\ pc[y] = "waiting" => x = y)
             => \A x \in Proc : pc'[x] # "waiting"
    BY <1>0, <1>1, <1>3, <1>5, SignalWakes
  <2>2. \A q \in Proc : q # b =>
            \/ pc'[q] = pc[q]
            \/ (pc[q] = "waiting" /\ pc'[q] = "woken")
    BY <1>0, <1>1, <1>3, <1>5, SignalKeeps DEF BufferInv
  <2>3. DoneIsPut'
    <3>. SUFFICES ASSUME NEW c \in Batch, pc'[c] = "done"
                  PROVE  \/ \E i \in DOMAIN buffer' : buffer'[i] = c
                         \/ \E j \in DOMAIN delivered : delivered[j] = c
      BY <1>1 DEF DoneIsPut
    <3>1. CASE c = b
      <4>1. 1 \in DOMAIN buffer' /\ buffer'[1] = c
        BY <1>5, <3>1
      <4>. QED
        BY <4>1
    <3>2. CASE c # b
      <4>1. pc[c] = "done"
        BY <2>2, <3>2
      <4>2. DOMAIN buffer = {}
        BY <1>5
      <4>. QED
        BY <1>0, <4>1, <4>2 DEF DoneIsPut
    <3>. QED
      BY <3>1, <3>2
  <2>4. RightOneWaits'
    <3>1. CASE killed
      BY <1>1, <3>1 DEF RightOneWaits
    <3>2. CASE ~killed
      <4>1. \A x \in Proc : pc[x] = "waiting" => x = Reader
        BY <1>0, <1>5, <3>2 DEF RightOneWaits, Proc
      <4>2. pc'[Reader] # "waiting"
        BY <2>1, <4>1
      <4>3. pc'[Reader] \in {"ready", "woken"}
        BY <1>0, <1>3, <2>2, <3>2, <4>2 DEF RightOneWaits
      <4>4. buffer' # <<>>
        BY <1>5
      <4>. QED
        BY <4>3, <4>4 DEF RightOneWaits, Runs
    <3>. QED
      BY <3>1, <3>2
  <2>. QED
    BY <1>1, <1>2, <2>1, <2>3, <2>4 DEF TwoInv
<1>. QED
  BY <1>4, <1>5 DEF Put

\* The reader that has emptied the buffer wakes the only other waiter.
LEMMA GetTwo == ASSUME TwoInv, Get PROVE TwoInv'
<1>. USE ReaderNoBatch
<1>0. BufferInv /\ WaitingIsListed /\ DoneIsPut /\ RightOneWaits /\ FewPending
  BY DEF TwoInv
<1>1. BufferInv' /\ Runs(Reader) /\ UNCHANGED <<handed, killed>>
  BY <1>0, GetKeeps DEF Get
<1>2. pc \in [Proc -> Location]
  BY <1>0 DEF BufferInv, TypeOK
<1>3. CASE buffer = <<>> /\ Wait(Reader)
  <2>1. WaitingIsListed'
    BY <1>0, <1>3, WaitLists
  <2>2. pc' = [pc EXCEPT ![Reader] = "waiting"] /\ buffer' = buffer /\ delivered' = delivered
    BY <1>3 DEF Wait
  <2>3. DoneIsPut' /\ RightOneWaits'
    BY <1>0, <1>1, <1>2, <1>3, <2>2 DEF DoneIsPut, RightOneWaits, Runs
  <2>4. FewPending'
    BY <1>0, <1>1, <2>2 DEF FewPending, Pending
  <2>. QED
    BY <1>1, <2>1, <2>3, <2>4 DEF TwoInv
<1>4. CASE /\ buffer # <<>> /\ delivered' = delivered \o buffer
           /\ Emptied /\ SignalAndGo(Reader, "ready")
  <2>. DEFINE a == buffer[1]
  <2>1. /\ WaitingIsListed'
        /\ (\A x, y \in Proc : pc[x] = "waiting" /\ pc[y] = "waiting" => x = y)
             => \A x \in Proc : pc'[x] # "waiting"
    BY <1>0, <1>1, <1>4, SignalWakes
  <2>2. /\ pc'[Reader] = "ready"
        /\ \A q \in Proc : q # Reader =>
            \/ pc'[q] = pc[q]
            \/ (pc[q] = "waiting" /\ pc'[q] = "woken")
    BY <1>0, <1>1, <1>4, SignalKeeps DEF BufferInv
  <2>3. delivered' = Append(delivered, a) /\ buffer = <<a>> /\ delivered \in Seq(Batch)
    BY <1>0, <1>4, OneBatch DEF BufferInv, TypeOK
  <2>. HIDE DEF a
  <2>4. /\ \A j \in DOMAIN delivered : j \in DOMAIN delivered' /\ delivered'[j] = delivered[j]
        /\ \E j \in DOMAIN delivered' : delivered'[j] = a
    <3>1. Len(delivered) + 1 \in DOMAIN delivered' /\ delivered'[Len(delivered) + 1] = a
      BY <2>3
    <3>. QED
      BY <2>3, <3>1
  <2>5. DoneIsPut'
    <3>. SUFFICES ASSUME NEW c \in Batch, pc'[c] = "done"
                  PROVE  \E j \in DOMAIN delivered' : delivered'[j] = c
      BY DEF DoneIsPut
    <3>1. pc[c] = "done"
      BY <2>2
    <3>2. \A i \in DOMAIN buffer : buffer[i] = a
      BY <2>3
    <3>3. c = a \/ \E j \in DOMAIN delivered : delivered[j] = c
      BY <1>0, <3>1, <3>2 DEF DoneIsPut
    <3>. QED
      BY <2>4, <3>3
  <2>6. \A x, y \in Proc : pc[x] = "waiting" /\ pc[y] = "waiting" => x = y
    <3>1. \A x \in Proc : pc[x] = "waiting" => x \in Batch
      BY <1>1 DEF Runs, Proc
    <3>. QED
      BY <1>0, <1>4, <3>1, OneWaits
  <2>7. RightOneWaits'
    BY <2>1, <2>2, <2>6 DEF RightOneWaits, Runs
  <2>8. FewPending'
    <3>1. Pending' \subseteq Pending
      BY <1>1, <2>4 DEF Pending
    <3>2. IsFiniteSet(Pending') /\ Cardinality(Pending') <= Cardinality(Pending)
      BY <1>0, <3>1, FS_Subset DEF FewPending
    <3>3. Cardinality(Pending') \in Nat
      BY <3>2, FS_CardinalityType
    <3>. QED
      BY <1>0, <3>2, <3>3 DEF FewPending
  <2>. QED
    BY <1>1, <2>1, <2>5, <2>7, <2>8 DEF TwoInv
<1>. QED
  BY <1>3, <1>4 DEF Get

\* With two batches pending at most, every step keeps the invariant.
LEMMA StepTwo == ASSUME MaxPending <= 2, TwoInv, [Next]_vars PROVE TwoInv'
<1>. USE ReaderNoBatch
<1>0. BufferInv /\ WaitingIsListed /\ DoneIsPut /\ RightOneWaits /\ FewPending
  BY DEF TwoInv
<1>1. BufferInv'
  BY <1>0, StepInv
<1>2. CASE ReaderStops
  <2>1. /\ killed /\ pc \in [Proc -> Location] /\ pc' = [pc EXCEPT ![Reader] = "done"]
        /\ UNCHANGED <<handed, buffer, waiters, delivered, killed>>
    BY <1>0, <1>2 DEF ReaderStops, BufferInv, TypeOK
  <2>2. WaitingIsListed' /\ DoneIsPut' /\ RightOneWaits' /\ FewPending'
    BY <1>0, <2>1 DEF WaitingIsListed, DoneIsPut, RightOneWaits, FewPending, Pending
  <2>. QED
    BY <1>1, <2>2 DEF TwoInv
<1>3. CASE Kill
  BY <1>0, <1>1, <1>3 DEF Kill, TwoInv, WaitingIsListed, DoneIsPut, RightOneWaits, FewPending,
                          Pending
<1>4. CASE UNCHANGED vars
  BY <1>0, <1>1, <1>4 DEF vars, TwoInv, WaitingIsListed, DoneIsPut, RightOneWaits, FewPending,
                          Pending, Runs
<1>. QED
  BY <1>2, <1>3, <1>4, HandTwo, PutTwo, GetTwo DEF Next

(***************************************************************************)
(* For any number of batches, as long as at most two are handed over and   *)
(* not yet delivered: no wake-up of applyChCond is lost.  (With three, the *)
(* goroutines of putApplyChBuffer can wake each other and never the        *)
(* reader.)                                                                *)
(***************************************************************************)
THEOREM NobodyStuckWithTwo ==
    ASSUME MaxPending <= 2
    PROVE  Spec => []NobodyStuck
<1>1. Init => TwoInv
  BY InitTwo
<1>2. TwoInv /\ [Next]_vars => TwoInv'
  BY StepTwo
<1>3. TwoInv => NobodyStuck
  <2>. SUFFICES ASSUME TwoInv, ~killed, NEW b \in Pending PROVE \E p \in Proc : Runs(p)
    BY DEF NobodyStuck
  <2>1. b \in Batch /\ pc[b] # "absent" /\ \A j \in DOMAIN delivered : delivered[j] # b
    BY DEF TwoInv, BufferInv, TypeOK, OnePlace, Pending
  <2>2. CASE buffer = <<>>
    <3>1. pc[b] # "waiting" /\ pc[b] # "done"
      BY <2>1, <2>2 DEF TwoInv, RightOneWaits, DoneIsPut
    <3>2. b \in Proc /\ pc[b] \in Location
      BY <2>1, ReaderNoBatch DEF TwoInv, BufferInv, TypeOK
    <3>. QED
      BY <2>1, <3>1, <3>2 DEF Location, Runs
  <2>3. CASE buffer # <<>>
    BY <2>3, ReaderNoBatch DEF TwoInv, RightOneWaits
  <2>. QED
    BY <2>2, <2>3
<1>. QED
  BY <1>1, <1>2, <1>3, PTL DEF Spec
=============================================================================
