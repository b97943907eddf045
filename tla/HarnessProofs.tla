--------------------------- MODULE HarnessProofs ---------------------------
(***************************************************************************)
(* Proofs about the waiting functions of the tests, for any number of      *)
(* servers and any length of the log: what one and wait return is agreed   *)
(* on, and they raise no false alarm.                                      *)
(***************************************************************************)
EXTENDS Harness, SequenceTheorems, FiniteSetTheorems, TLAPS

\* A call with its local variables.
CallState ==
    [pc : {"idle", "scan", "count", "mismatch", "returned", "gaveUp"},
     what : {"none", "one", "wait"}, expected : Nat, retry : BOOLEAN, starts : Node,
     si : Nat, index : Nat, i : Nat, count : Nat, cmd : Command \cup {"nil"},
     last : BOOLEAN]

\* The servers before the i-th that have applied something at the index.
Looked(index, i) == {n \in Node : n < i /\ index <= Len(applied[n])}

(***************************************************************************)
(* The inductive invariant.  What a service has applied begins what is     *)
(* agreed on.  A count is never larger than the number of servers that     *)
(* have the index by now, and the command it remembers is the agreed one:  *)
(* a server that was looked at too early is missing, none is too many.     *)
(***************************************************************************)
Prefixes ==
    /\ agreed \in Seq(Command)
    /\ applied \in [Node -> Seq(Command)]
    /\ \A n \in Node : /\ Len(applied[n]) <= Len(agreed)
                       /\ \A x \in 1..Len(applied[n]) : applied[n][x] = agreed[x]

CountIsRight(k) ==
    k.pc \in {"count", "returned"} /\ k.index # NoIndex =>
        /\ k.i <= NServers
        /\ k.count <= Cardinality(Looked(k.index, k.i))
        /\ k.count > 0 => k.index <= Len(agreed) /\ k.cmd = agreed[k.index]

CallIsRight(k) ==
    /\ k \in CallState
    /\ k.pc # "mismatch"
    /\ k.pc # "idle" => k.expected >= 1
    /\ k.pc = "count" => k.index # NoIndex
    /\ k.pc = "returned" /\ k.what = "one"  => k.index = NoIndex \/ Agreed(k)
    /\ k.pc = "returned" /\ k.what = "wait" => k.index = NoIndex \/ Decided(k)

HarnessInv == Prefixes /\ CountIsRight(call) /\ CallIsRight(call)

-----------------------------------------------------------------------------
\* The servers are finitely many.
LEMMA LookedFinite ==
    ASSUME NEW index, NEW i
    PROVE  IsFiniteSet(Looked(index, i)) /\ Cardinality(Looked(index, i)) \in Nat
<1>1. IsFiniteSet(Node)
  BY HarnessAssumption, FS_Interval
<1>2. Looked(index, i) \subseteq Node
  BY DEF Looked
<1>. QED
  BY <1>1, <1>2, FS_Subset, FS_CardinalityType

\* One server more to look at, which has the index.
LEMMA LookedMore ==
    ASSUME NEW index \in Nat, NEW i \in Node, index <= Len(applied[i])
    PROVE  Cardinality(Looked(index, i + 1)) = Cardinality(Looked(index, i)) + 1
<1>1. Node \subseteq Int
  BY HarnessAssumption
<1>2. i \notin Looked(index, i)
  BY <1>1 DEF Looked
<1>3. Looked(index, i + 1) = Looked(index, i) \cup {i}
  <2>1. \A n \in Node : n < i + 1 <=> n < i \/ n = i
    BY <1>1
  <2>. QED
    BY <2>1, Zenon DEF Looked
<1>. QED
  BY <1>2, <1>3, LookedFinite, FS_AddElement

\* One server more to look at, whether or not it has the index.
LEMMA LookedNotLess ==
    ASSUME NEW index, NEW i \in Nat
    PROVE  Cardinality(Looked(index, i)) <= Cardinality(Looked(index, i + 1))
<1>1. Looked(index, i) \subseteq Looked(index, i + 1)
  BY HarnessAssumption DEF Looked
<1>. QED
  BY <1>1, LookedFinite, FS_Subset

-----------------------------------------------------------------------------
(* One lemma per action *)

\* A service applies the next command: counts made before stay right.
LEMMA PeersApplyKeeps ==
    ASSUME HarnessInv, NEW n \in Node, PeersApply(n)
    PROVE  HarnessInv'
<1>. DEFINE more == SubSeq(agreed', 1, Len(applied[n]) + 1)
<1>1. /\ agreed \in Seq(Command) /\ applied \in [Node -> Seq(Command)]
      /\ \A m \in Node : /\ Len(applied[m]) <= Len(agreed)
                         /\ \A x \in 1..Len(applied[m]) : applied[m][x] = agreed[x]
  BY DEF HarnessInv, Prefixes
<1>2. /\ agreed' \in Seq(Command) /\ Len(agreed) <= Len(agreed')
      /\ \A x \in 1..Len(agreed) : agreed'[x] = agreed[x]
  <2>1. CASE agreed' = agreed
    BY <1>1, <2>1
  <2>2. ASSUME NEW c \in Command, agreed' = Append(agreed, c)
        PROVE  /\ agreed' \in Seq(Command) /\ Len(agreed) <= Len(agreed')
               /\ \A x \in 1..Len(agreed) : agreed'[x] = agreed[x]
    <3>1. Len(agreed) \in Nat
      BY <1>1
    <3>. QED
      BY <1>1, <2>2, <3>1, AppendProperties
  <2>. QED
    BY <2>1, <2>2 DEF PeersApply
<1>3. /\ Len(applied[n]) + 1 <= Len(agreed') /\ call' = call
      /\ applied' = [applied EXCEPT ![n] = more]
  <2>1. Len(applied[n]) \in Nat /\ Len(agreed') \in Nat
    BY <1>1, <1>2
  <2>. QED
    BY <2>1 DEF PeersApply
<1>4. /\ more \in Seq(Command) /\ Len(more) = Len(applied[n]) + 1
      /\ \A x \in 1..Len(more) : more[x] = agreed'[x]
  <2>1. Len(applied[n]) + 1 \in Nat /\ \A x \in 1..(Len(applied[n]) + 1) : agreed'[x] \in Command
    BY <1>1, <1>2, <1>3, ElementOfSeq
  <2>. QED
    BY <2>1, SubSeqProperties
<1>. HIDE DEF more
<1>5. Prefixes'
  <2>1. applied' \in [Node -> Seq(Command)]
    BY <1>1, <1>3, <1>4
  <2>2. ASSUME NEW m \in Node
        PROVE  /\ Len(applied'[m]) <= Len(agreed')
               /\ \A x \in 1..Len(applied'[m]) : applied'[m][x] = agreed'[x]
    <3>1. CASE m = n
      BY <1>1, <1>2, <1>3, <1>4, <3>1
    <3>2. CASE m # n
      <4>1. applied'[m] = applied[m] /\ Len(applied[m]) \in Nat /\ Len(agreed) \in Nat /\ Len(agreed') \in Nat
        BY <1>1, <1>2, <1>3, <3>2
      <4>. QED
        BY <1>1, <1>2, <4>1
    <3>. QED
      BY <3>1, <3>2
  <2>. QED
    BY <1>2, <2>1, <2>2 DEF Prefixes
<1>6. CountIsRight(call)'
  <2>1. SUFFICES ASSUME call.pc \in {"count", "returned"}, call.index # NoIndex
                 PROVE  /\ call.i <= NServers
                        /\ call.count <= Cardinality(Looked(call.index, call.i)')
                        /\ call.count > 0 => /\ call.index <= Len(agreed')
                                             /\ call.cmd = agreed'[call.index]
    BY <1>3 DEF CountIsRight, Looked
  <2>2. /\ call.i <= NServers
        /\ call.count <= Cardinality(Looked(call.index, call.i))
        /\ call.count > 0 => call.index <= Len(agreed) /\ call.cmd = agreed[call.index]
    BY <2>1 DEF HarnessInv, CountIsRight
  <2>3. call.index \in Nat /\ call.count \in Nat
    BY DEF HarnessInv, CallIsRight, CallState
  <2>4. Looked(call.index, call.i) \subseteq Looked(call.index, call.i)'
    <3>1. \A m \in Node : Len(applied[m]) <= Len(applied'[m]) /\ Len(applied[m]) \in Nat /\ Len(applied'[m]) \in Nat
      BY <1>1, <1>3, <1>4
    <3>. QED
      BY <1>3, <2>3, <3>1 DEF Looked
  <2>5. IsFiniteSet(Looked(call.index, call.i)')
    <3>1. IsFiniteSet(Node) /\ Looked(call.index, call.i)' \subseteq Node
      BY HarnessAssumption, FS_Interval DEF Looked
    <3>. QED
      BY <3>1, FS_Subset
  <2>6. Cardinality(Looked(call.index, call.i)) <= Cardinality(Looked(call.index, call.i)')
    BY <2>4, <2>5, FS_Subset
  <2>7. /\ Cardinality(Looked(call.index, call.i)) \in Nat
        /\ Cardinality(Looked(call.index, call.i)') \in Nat
    BY <2>5, LookedFinite, FS_CardinalityType
  <2>8. call.count > 0 => call.index <= Len(agreed') /\ call.cmd = agreed'[call.index]
    <3>1. call.index \in 1..Len(agreed) => agreed'[call.index] = agreed[call.index]
      BY <1>2
    <3>2. Len(agreed) \in Nat /\ Len(agreed') \in Nat
      BY <1>1, <1>2
    <3>. QED
      BY <1>2, <2>1, <2>2, <2>3, <3>1, <3>2 DEF NoIndex
  <2>. QED
    BY <2>2, <2>3, <2>6, <2>7, <2>8
<1>7. CallIsRight(call)'
  BY <1>3 DEF HarnessInv, CallIsRight, Agreed, Decided
<1>. QED
  BY <1>5, <1>6, <1>7 DEF HarnessInv

\* The test goes on by itself.
LEMMA CallKeeps ==
    ASSUME HarnessInv, UNCHANGED <<agreed, applied>>, CountIsRight(call'), CallIsRight(call')
    PROVE  HarnessInv'
BY DEF HarnessInv, Prefixes, CountIsRight, CallIsRight, Looked, Agreed, Decided

\* A count that starts has counted nobody yet.
LEMMA CountingRight ==
    ASSUME NEW k \in CallState, k.expected >= 1, k.index # NoIndex
    PROVE  CountIsRight(Counting(k)) /\ CallIsRight(Counting(k))
<1>. DEFINE c == Counting(k)
<1>1. /\ c \in CallState /\ c.pc = "count" /\ c.i = 0 /\ c.count = 0
      /\ c.index = k.index /\ c.expected = k.expected
  BY DEF CallState, Counting
<1>. HIDE DEF c
<1>2. Cardinality(Looked(c.index, c.i)) \in Nat
  BY LookedFinite
<1>3. CountIsRight(c)
  BY <1>1, <1>2, HarnessAssumption DEF CountIsRight
<1>4. CallIsRight(c)
  BY <1>1 DEF CallIsRight
<1>. QED
  BY <1>3, <1>4 DEF c

\* A call that scans or has given up has no count to be wrong.
LEMMA NoCountRight ==
    ASSUME NEW k \in CallState, k.expected >= 1, k.pc \in {"scan", "gaveUp"}
    PROVE  CountIsRight(k) /\ CallIsRight(k)
BY DEF CountIsRight, CallIsRight

\* Scanning again and giving up.
LEMMA ScanOrFatalRight ==
    ASSUME NEW k \in CallState, k.expected >= 1
    PROVE  /\ CountIsRight(Scan(k)) /\ CallIsRight(Scan(k))
           /\ CountIsRight(Fatal(k)) /\ CallIsRight(Fatal(k))
<1>1. Scan(k) \in CallState /\ Scan(k).expected = k.expected /\ Scan(k).pc = "scan"
  BY DEF CallState, Scan
<1>2. Fatal(k) \in CallState /\ Fatal(k).expected = k.expected /\ Fatal(k).pc = "gaveUp"
  BY DEF CallState, Fatal
<1>. QED
  BY <1>1, <1>2, NoCountRight

\* Returning -1.
LEMMA MinusOneRight ==
    ASSUME NEW k \in CallState, k.expected >= 1
    PROVE  CountIsRight(MinusOne(k)) /\ CallIsRight(MinusOne(k))
<1>1. /\ MinusOne(k) \in CallState /\ MinusOne(k).pc = "returned"
      /\ MinusOne(k).index = NoIndex /\ MinusOne(k).expected = k.expected
  BY DEF CallState, MinusOne, NoIndex
<1>. QED
  BY <1>1 DEF CountIsRight, CallIsRight

\* nCommitted looks at the next server.
LEMMA NCommittedKeeps ==
    ASSUME HarnessInv, NCommitted
    PROVE  HarnessInv'
<1>. DEFINE k == call
            there == k.index <= Len(applied[k.i])
            cmd1  == applied[k.i][k.index]
<1>1. /\ k.pc = "count" /\ k.i < NServers /\ UNCHANGED <<agreed, applied>>
      /\ call' = IF ~there THEN [k EXCEPT !.i = @ + 1]
                 ELSE IF Mismatch(k, cmd1) THEN [k EXCEPT !.pc = "mismatch"]
                 ELSE [k EXCEPT !.i = @ + 1, !.count = @ + 1, !.cmd = cmd1]
  BY DEF NCommitted
<1>2. /\ k \in CallState /\ k.expected >= 1 /\ k.index # NoIndex
      /\ k.count <= Cardinality(Looked(k.index, k.i))
      /\ k.count > 0 => k.index <= Len(agreed) /\ k.cmd = agreed[k.index]
  BY <1>1 DEF HarnessInv, CallIsRight, CountIsRight
<1>3. /\ k.i \in Nat /\ k.index \in Nat \ {0} /\ k.count \in Nat
      /\ k.i \in Node /\ k.i + 1 <= NServers
  BY <1>1, <1>2, HarnessAssumption DEF CallState, NoIndex
<1>4. /\ Cardinality(Looked(k.index, k.i)) \in Nat
      /\ Cardinality(Looked(k.index, k.i + 1)) \in Nat
      /\ Cardinality(Looked(k.index, k.i)) <= Cardinality(Looked(k.index, k.i + 1))
  BY <1>3, LookedFinite, LookedNotLess
<1>5. CASE ~there
  <2>1. call' = [k EXCEPT !.i = k.i + 1]
    BY <1>1, <1>5
  <2>2. /\ call' \in CallState /\ call'.pc = "count" /\ call'.i = k.i + 1
        /\ call'.count = k.count /\ call'.index = k.index /\ call'.cmd = k.cmd
        /\ call'.expected = k.expected
    <3>. DEFINE j == k.i + 1
    <3>1. j \in Nat /\ call' = [k EXCEPT !.i = j]
      BY <1>3, <2>1
    <3>. HIDE DEF j, k
    <3>2. /\ call' \in CallState /\ call'.pc = k.pc /\ call'.i = j
          /\ call'.count = k.count /\ call'.index = k.index /\ call'.cmd = k.cmd
          /\ call'.expected = k.expected
      BY <1>2, <3>1 DEF CallState
    <3>. QED
      BY <1>1, <3>2 DEF j
  <2>. HIDE DEF k
  <2>3. CountIsRight(call')
    BY <1>2, <1>3, <1>4, <2>2 DEF CountIsRight
  <2>4. CallIsRight(call')
    BY <1>2, <2>2 DEF CallIsRight
  <2>. QED
    BY <1>1, <2>3, <2>4, CallKeeps
<1>6. CASE there
  <2>1. /\ cmd1 = agreed[k.index] /\ cmd1 \in Command /\ k.index <= Len(agreed)
    <3>1. /\ applied[k.i] \in Seq(Command) /\ Len(applied[k.i]) <= Len(agreed) /\ Len(agreed) \in Nat
          /\ \A x \in 1..Len(applied[k.i]) : applied[k.i][x] = agreed[x]
      BY <1>3 DEF HarnessInv, Prefixes
    <3>2. k.index \in 1..Len(applied[k.i]) /\ Len(applied[k.i]) \in Nat
      BY <1>3, <1>6, <3>1
    <3>. QED
      BY <1>3, <3>1, <3>2, ElementOfSeq
  <2>2. ~Mismatch(k, cmd1)
    BY <1>2, <2>1 DEF Mismatch
  <2>3. call' = [k EXCEPT !.i = k.i + 1, !.count = k.count + 1, !.cmd = cmd1]
    BY <1>1, <1>6, <2>2
  <2>. HIDE DEF cmd1
  <2>4. /\ call' \in CallState /\ call'.pc = "count" /\ call'.i = k.i + 1
        /\ call'.count = k.count + 1 /\ call'.index = k.index /\ call'.cmd = cmd1
        /\ call'.expected = k.expected
    <3>. DEFINE j == k.i + 1
                m == k.count + 1
    <3>1. j \in Nat /\ m \in Nat /\ call' = [k EXCEPT !.i = j, !.count = m, !.cmd = cmd1]
      BY <1>3, <2>3
    <3>. HIDE DEF j, m, k
    <3>2. /\ call' \in CallState /\ call'.pc = k.pc /\ call'.i = j
          /\ call'.count = m /\ call'.index = k.index /\ call'.cmd = cmd1
          /\ call'.expected = k.expected
      BY <1>2, <2>1, <3>1 DEF CallState
    <3>. QED
      BY <1>1, <3>2 DEF j, m
  <2>5. Cardinality(Looked(k.index, k.i + 1)) = Cardinality(Looked(k.index, k.i)) + 1
    BY <1>3, <1>6, LookedMore
  <2>. HIDE DEF k
  <2>6. CountIsRight(call')
    BY <1>2, <1>3, <1>4, <2>1, <2>4, <2>5 DEF CountIsRight
  <2>7. CallIsRight(call')
    BY <1>2, <2>4 DEF CallIsRight
  <2>. QED
    BY <1>1, <2>6, <2>7, CallKeeps
<1>. QED
  BY <1>5, <1>6

\* one starts, asks the servers, waits, and returns or gives up.
LEMMA OneKeeps ==
    ASSUME HarnessInv,
           \/ \E n \in 1..NServers, retry \in BOOLEAN : One(n, retry)
           \/ TryStart \/ NobodyStarted \/ OneEnds \/ OneCounted
    PROVE  HarnessInv'
<1>1. /\ call \in CallState /\ CountIsRight(call)
      /\ call.pc # "idle" => call.expected >= 1
      /\ call.pc = "count" => call.index # NoIndex
  BY DEF HarnessInv, CallIsRight
<1>2. ASSUME NEW n \in 1..NServers, NEW retry \in BOOLEAN, One(n, retry) PROVE HarnessInv'
  <2>1. /\ call' = [call EXCEPT !.what = "one", !.pc = "scan", !.expected = n, !.retry = retry]
        /\ UNCHANGED <<agreed, applied>>
    BY <1>2 DEF One
  <2>2. n \in Nat /\ n >= 1
    BY HarnessAssumption
  <2>3. call' \in CallState /\ call'.expected = n /\ call'.pc = "scan"
    BY <1>1, <2>1, <2>2 DEF CallState
  <2>. QED
    BY <2>1, <2>2, <2>3, NoCountRight, CallKeeps
<1>3. CASE TryStart
  <2>. DEFINE s == (call.starts + 1) % NServers
              k == [call EXCEPT !.starts = s, !.si = @ + 1]
  <2>1. call.pc = "scan" /\ UNCHANGED <<agreed, applied>>
    BY <1>3 DEF TryStart
  <2>2. s \in Node /\ call.si + 1 \in Nat
    <3>1. call.starts \in Nat /\ call.si \in Nat
      BY <1>1, HarnessAssumption DEF CallState
    <3>. QED
      BY <3>1, HarnessAssumption
  <2>3. k \in CallState /\ k.expected >= 1 /\ k.pc = "scan"
    <3>. DEFINE j == call.si + 1
    <3>1. k = [call EXCEPT !.starts = s, !.si = j] /\ j \in Nat
      BY <2>2
    <3>. HIDE DEF s, j, k
    <3>. QED
      BY <1>1, <2>1, <2>2, <3>1 DEF CallState
  <2>4. CASE call' = k
    <3>. HIDE DEF k
    <3>. QED
      BY <2>1, <2>3, <2>4, NoCountRight, CallKeeps
  <2>5. ASSUME NEW index \in (Len(applied[s]) + 1)..MaxLog,
               call' = Counting([k EXCEPT !.index = index])
        PROVE  HarnessInv'
    <3>1. Len(applied[s]) \in Nat
      BY <2>2 DEF HarnessInv, Prefixes
    <3>2. index \in Nat /\ index # NoIndex
      <4>. HIDE DEF s
      <4>. QED
        BY <3>1, HarnessAssumption DEF NoIndex
    <3>. DEFINE h == [k EXCEPT !.index = index]
    <3>. HIDE DEF k, s
    <3>3. h \in CallState /\ h.expected >= 1 /\ h.index # NoIndex
      BY <2>3, <3>2 DEF CallState
    <3>4. call' = Counting(h)
      BY <2>5
    <3>. HIDE DEF h
    <3>. QED
      BY <2>1, <3>3, <3>4, CountingRight, CallKeeps
  <2>. QED
    BY <1>3, <2>4, <2>5 DEF TryStart
<1>4. CASE NobodyStarted
  <2>1. call.pc = "scan" /\ call' = Scan(call) /\ UNCHANGED <<agreed, applied>>
    BY <1>4 DEF NobodyStarted
  <2>. QED
    BY <1>1, <2>1, ScanOrFatalRight, CallKeeps
<1>5. CASE OneEnds
  <2>1. /\ call.pc = "scan" /\ call' \in {Fatal(call), MinusOne(call)}
        /\ UNCHANGED <<agreed, applied>>
    BY <1>5 DEF OneEnds
  <2>. QED
    BY <1>1, <2>1, ScanOrFatalRight, MinusOneRight, CallKeeps
<1>6. CASE OneCounted
  <2>1. call.pc = "count" /\ UNCHANGED <<agreed, applied>>
    BY <1>6 DEF OneCounted, Counted
  <2>2. CASE Agreed(call)
    <3>1. call' = [call EXCEPT !.pc = "returned"] /\ call.what = "one"
      BY <1>6, <2>2 DEF OneCounted, Counted
    <3>2. /\ call' \in CallState /\ call'.pc = "returned" /\ call'.what = "one"
          /\ call'.i = call.i /\ call'.index = call.index /\ call'.count = call.count
          /\ call'.cmd = call.cmd /\ call'.expected = call.expected
      BY <1>1, <3>1 DEF CallState
    <3>3. CountIsRight(call')
      BY <1>1, <2>1, <3>2 DEF CountIsRight
    <3>4. CallIsRight(call')
      BY <1>1, <2>1, <2>2, <3>2 DEF CallIsRight, Agreed
    <3>. QED
      BY <2>1, <3>3, <3>4, CallKeeps
  <2>3. CASE ~Agreed(call)
    <3>1. call' \in {Counting(call), Fatal(call), Scan(call)}
      BY <1>6, <2>3 DEF OneCounted
    <3>. QED
      BY <1>1, <2>1, <3>1, CountingRight, ScanOrFatalRight, CallKeeps
  <2>. QED
    BY <2>2, <2>3
<1>. QED
  BY <1>2, <1>3, <1>4, <1>5, <1>6

\* wait starts, counts until enough have decided, and counts once more.
LEMMA WaitKeeps ==
    ASSUME HarnessInv,
           (\E n \in 1..NServers, index \in 1..MaxLog : Wait(index, n)) \/ WaitCounted
    PROVE  HarnessInv'
<1>1. /\ call \in CallState /\ CountIsRight(call)
      /\ call.pc # "idle" => call.expected >= 1
      /\ call.pc = "count" => call.index # NoIndex
  BY DEF HarnessInv, CallIsRight
<1>2. ASSUME NEW n \in 1..NServers, NEW index \in 1..MaxLog, Wait(index, n) PROVE HarnessInv'
  <2>. DEFINE k == [call EXCEPT !.what = "wait", !.expected = n, !.index = index]
  <2>1. call' = Counting(k) /\ UNCHANGED <<agreed, applied>>
    BY <1>2 DEF Wait
  <2>2. n \in Nat /\ n >= 1 /\ index \in Nat /\ index # NoIndex
    BY HarnessAssumption DEF NoIndex
  <2>3. k \in CallState /\ k.expected >= 1 /\ k.index # NoIndex
    BY <1>1, <2>2 DEF CallState
  <2>. HIDE DEF k
  <2>. QED
    BY <2>1, <2>3, CountingRight, CallKeeps
<1>3. CASE WaitCounted
  <2>. DEFINE k == [call EXCEPT !.last = TRUE]
              answer == [call EXCEPT !.pc = "returned"]
  <2>1. /\ call.pc = "count" /\ call.what = "wait" /\ UNCHANGED <<agreed, applied>>
        /\ \/ call' \in {Counting(call), Counting(k), MinusOne(call), Fatal(call)}
           \/ Decided(call) /\ call' = answer
    BY <1>3 DEF WaitCounted, Counted
  <2>2. k \in CallState /\ k.expected >= 1 /\ k.index # NoIndex
    BY <1>1, <2>1 DEF CallState
  <2>3. CountIsRight(MinusOne(call)) /\ CallIsRight(MinusOne(call))
    BY <1>1, <2>1, MinusOneRight
  <2>4. ASSUME Decided(call) PROVE CountIsRight(answer) /\ CallIsRight(answer)
    <3>1. /\ answer \in CallState /\ answer.pc = "returned" /\ answer.what = "wait"
          /\ answer.i = call.i /\ answer.index = call.index /\ answer.count = call.count
          /\ answer.cmd = call.cmd /\ answer.expected = call.expected
      BY <1>1, <2>1 DEF CallState
    <3>. HIDE DEF answer
    <3>2. CountIsRight(answer)
      BY <1>1, <2>1, <3>1 DEF CountIsRight
    <3>3. CallIsRight(answer)
      BY <1>1, <2>1, <2>4, <3>1 DEF CallIsRight, Decided
    <3>. QED
      BY <3>2, <3>3
  <2>5. /\ CountIsRight(Counting(call)) /\ CallIsRight(Counting(call))
        /\ CountIsRight(Counting(k)) /\ CallIsRight(Counting(k))
        /\ CountIsRight(Fatal(call)) /\ CallIsRight(Fatal(call))
    <3>. HIDE DEF k
    <3>. QED
      BY <1>1, <2>1, <2>2, CountingRight, ScanOrFatalRight
  <2>. HIDE DEF k, answer
  <2>6. CountIsRight(call') /\ CallIsRight(call')
    BY <2>1, <2>3, <2>4, <2>5
  <2>. QED
    BY <2>1, <2>6, CallKeeps
<1>. QED
  BY <1>2, <1>3

-----------------------------------------------------------------------------
\* The invariant holds throughout every test.
THEOREM HarnessInvariant == TestSpec => []HarnessInv
<1>1. TestInit => HarnessInv
  <2>1. SUFFICES ASSUME TestInit PROVE HarnessInv
    OBVIOUS
  <2>2. agreed = <<>> /\ applied = [n \in Node |-> <<>>] /\ call = Idle
    BY <2>1 DEF TestInit, Init
  <2>3. Prefixes
    <3>1. <<>> \in Seq(Command) /\ Len(<<>>) = 0
      OBVIOUS
    <3>. QED
      BY <2>2, <3>1 DEF Prefixes
  <2>4. 0 \in Node
    BY HarnessAssumption
  <2>5. call \in CallState /\ call.pc = "idle"
    BY <2>2, <2>4 DEF Idle, CallState, NoIndex
  <2>. QED
    BY <2>3, <2>5 DEF HarnessInv, CountIsRight, CallIsRight
<1>2. HarnessInv /\ [TestNext]_vars => HarnessInv'
  <2>1. SUFFICES ASSUME HarnessInv, [TestNext]_vars PROVE HarnessInv'
    OBVIOUS
  <2>2. CASE UNCHANGED vars
    BY <2>1, <2>2 DEF vars, HarnessInv, Prefixes, CountIsRight, CallIsRight, Looked, Agreed, Decided
  <2>3. CASE TestNext
    BY <2>1, <2>3, PeersApplyKeeps, NCommittedKeeps, OneKeeps, WaitKeeps DEF TestNext
  <2>. QED
    BY <2>1, <2>2, <2>3
<1>. QED
  BY <1>1, <1>2, PTL DEF TestSpec

\* The count of a call that returned is backed by that many services.
LEMMA ReturnedRight ==
    ASSUME HarnessInv, call.pc = "returned", call.index # NoIndex,
           call.count >= call.expected
    PROVE  /\ call.index <= Len(agreed) /\ agreed[call.index] = call.cmd
           /\ Have(call.index) >= call.expected
<1>1. /\ call \in CallState /\ call.expected >= 1
      /\ call.count <= Cardinality(Looked(call.index, call.i))
      /\ call.count > 0 => call.index <= Len(agreed) /\ call.cmd = agreed[call.index]
  BY DEF HarnessInv, CallIsRight, CountIsRight
<1>2. call.count \in Nat /\ call.expected \in Nat
  BY <1>1 DEF CallState
<1>. DEFINE have == {n \in Node : call.index <= Len(applied[n])}
<1>3. IsFiniteSet(have)
  <2>1. IsFiniteSet(Node)
    BY HarnessAssumption, FS_Interval
  <2>. QED
    BY <2>1, FS_Subset
<1>4. Looked(call.index, call.i) \subseteq have
  BY DEF Looked
<1>5. /\ Cardinality(Looked(call.index, call.i)) <= Cardinality(have)
      /\ Cardinality(have) \in Nat /\ Cardinality(Looked(call.index, call.i)) \in Nat
  <2>. HIDE DEF have
  <2>. QED
    BY <1>3, <1>4, FS_Subset, FS_CardinalityType, LookedFinite
<1>6. Have(call.index) = Cardinality(have)
  BY DEF Have
<1>. HIDE DEF have
<1>. QED
  BY <1>1, <1>2, <1>5, <1>6

(***************************************************************************)
(* The index that one returns holds its command on as many servers as it   *)
(* was asked for, for any number of servers and attempts.                  *)
(***************************************************************************)
THEOREM OneIsRight == TestSpec => []OneReturnsAgreed
<1>1. HarnessInv => OneReturnsAgreed
  <2>1. SUFFICES ASSUME HarnessInv, call.pc = "returned", call.what = "one", call.index # NoIndex
                 PROVE  /\ call.index <= Len(agreed) /\ agreed[call.index] = Cmd
                        /\ Have(call.index) >= call.expected
    BY DEF OneReturnsAgreed
  <2>2. call.count >= call.expected /\ call.cmd = Cmd
    BY <2>1 DEF HarnessInv, CallIsRight, Agreed
  <2>. QED
    BY <2>1, <2>2, ReturnedRight
<1>. QED
  BY <1>1, HarnessInvariant, PTL

(***************************************************************************)
(* What wait returns is the agreed command at its index, on as many        *)
(* servers as it was asked for.                                            *)
(***************************************************************************)
THEOREM WaitIsRight == TestSpec => []WaitReturnsAgreed
<1>1. HarnessInv => WaitReturnsAgreed
  <2>1. SUFFICES ASSUME HarnessInv, call.pc = "returned", call.what = "wait", call.index # NoIndex
                 PROVE  /\ call.index <= Len(agreed) /\ agreed[call.index] = call.cmd
                        /\ Have(call.index) >= call.expected
    BY DEF WaitReturnsAgreed
  <2>2. call.count >= call.expected
    BY <2>1 DEF HarnessInv, CallIsRight, Decided
  <2>. QED
    BY <2>1, <2>2, ReturnedRight
<1>. QED
  BY <1>1, HarnessInvariant, PTL

(***************************************************************************)
(* nCommitted never reports servers that keep one agreed log, although it  *)
(* looks at each of them at another moment.                                *)
(***************************************************************************)
THEOREM NeverFalseAlarm == TestSpec => []NoFalseAlarm
<1>1. HarnessInv => NoFalseAlarm
  BY DEF HarnessInv, CallIsRight, NoFalseAlarm
<1>. QED
  BY <1>1, HarnessInvariant, PTL
=============================================================================
