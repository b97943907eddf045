-------------------------- MODULE RaftCommitProofs --------------------------
(***************************************************************************)
(* Proofs about what the peers commit and the services apply, for any      *)
(* number of servers, terms, crashes, snapshots and calls in flight: in a  *)
(* history without the known races it is with every later leader, on the   *)
(* disks of a majority, and the same everywhere; logs match, services keep *)
(* up with their peers, and without snapshots and restarts they together   *)
(* apply one agreed log.                                                   *)
(***************************************************************************)
EXTENDS RaftSafetyProofs

\* Logs that have an entry, and the term of the last one.
Filled == {x \in Seq(LogEntry) : x # <<>>}
TermOf(x) == x[Len(x)].Term

-----------------------------------------------------------------------------
(***************************************************************************)
(* Two sets remember what the variables forget.  L has a pair <<t, a>> for *)
(* every log a that the leader of term t had while it led; A has a triple  *)
(* <<p, t, a>> whenever p, in term t, took over such a log a as a whole    *)
(* (and for the leader itself).                                            *)
(***************************************************************************)

\* p has accepted log x in the term of its last entry.
HasAccepted(A, p, x) == \E e \in A : e[1] = p /\ e[2] = TermOf(x) /\ Begins(x, e[3])

\* A majority has accepted x.
Chosen(A, x) ==
    \E Q \in SUBSET Server : IsQuorum(Cardinality(Q)) /\ \A p \in Q : HasAccepted(A, p, x)

\* A majority has accepted x, or a part of it may still do so.
Choosable(A, x) ==
    \E Q \in SUBSET Server :
        /\ IsQuorum(Cardinality(Q))
        /\ \A p \in Q : HasAccepted(A, p, x) \/ disk[p].currentTerm <= TermOf(x)

\* The terms in a leader's log do not decrease, and end with its own.
Ordered(l) ==
    \A i, j \in DOMAIN l[2] : i <= j => l[2][i].Term <= l[2][j].Term /\ l[2][j].Term <= l[1]

\* Up to each of its entries, a log is as the leader of that entry had it.
Rooted(L, log) ==
    \A n \in DOMAIN log : \E l \in L :
        l[1] = log[n].Term /\ n <= Len(l[2]) /\ SameUpTo(log, l[2], n)

\* Logs of one leader are beginnings of one another.
LeaderLogs(L) ==
    /\ L \subseteq Nat \X Seq(LogEntry)
    /\ \A l \in L : (\E s \in Server : <<s, l[1]>> \in led) /\ Ordered(l) /\ Rooted(L, l[2])
    /\ \A l, m \in L : l[1] = m[1] => Begins(l[2], m[2]) \/ Begins(m[2], l[2])

\* A leader has the longest log of its term.
LeadersHaveTheirs(L, W) ==
    \A s \in Server : rf[s].role = "leader" =>
        /\ <<rf[s].currentTerm, W[s]>> \in L
        /\ \A l \in L : l[1] = rf[s].currentTerm => Begins(l[2], W[s])

\* All that servers have comes from leaders.
LogsRooted(L, W) ==
    \A s \in Server :
        /\ Rooted(L, W[s])
        /\ \A n \in DOMAIN W[s] : W[s][n].Term <= disk[s].currentTerm

\* What is accepted is the beginning of a log its leader had.
AcceptedFits(L, A) ==
    /\ A \subseteq Server \X Nat \X Seq(LogEntry)
    /\ \A e \in A : /\ e[2] <= disk[e[1]].currentTerm
                    /\ \E l \in L : l[1] = e[2] /\ Begins(e[3], l[2])

\* It stays as long as it can be chosen.
AcceptedStays(A, W) ==
    \A p \in Server : \A x \in Filled :
        HasAccepted(A, p, x) /\ Choosable(A, x) => Begins(x, W[p])

\* Later leaders have what can be chosen.
LaterLeadersHave(L, A) ==
    \A l \in L : \A x \in Filled : Choosable(A, x) /\ TermOf(x) < l[1] => Begins(x, l[2])

\* Somebody leads, or has led, term t.
Led(t) == \E s \in Server : <<s, t>> \in led

\* Whoever got a vote, in a term nobody leads yet, has what its voter
\* accepted and can be chosen.
VotesCarry(A, W) ==
    \A v \in granted : rf[v[3]].role = "candidate" /\ rf[v[3]].currentTerm = v[2] /\ ~Led(v[2]) =>
        \A x \in Filled :
            HasAccepted(A, v[1], x) /\ TermOf(x) < v[2] /\ Choosable(A, x) => Begins(x, W[v[3]])

\* p has accepted more than n entries in term t, or they are chosen anyway.
AcceptedUpTo(A, p, t, n) ==
    \/ \E e \in A : e[1] = p /\ e[2] = t /\ n < Len(e[3])
    \/ \E x \in Filled : Chosen(A, x) /\ TermOf(x) <= t /\ n < Len(x)

\* matchIndex speaks of that.
MatchAccepted(A) ==
    \A s \in Server : rf[s].role = "leader" =>
        \A p \in Server : rf[s].matchIndex[p] >= 0 =>
            AcceptedUpTo(A, p, rf[s].currentTerm, rf[s].matchIndex[p])

\* So does a reply on its way.
RepliesAccepted(A) ==
    \A c \in aeCalls : c.done /\ c.reply.Success =>
        AcceptedUpTo(A, c.to, c.Term, c.PrevLogIndex + Len(c.Entries))

\* The first k entries of log were chosen in a term up to t.
KnownChosen(A, log, k, t) ==
    k > 0 => \E x \in Filled :
        /\ Chosen(A, x) /\ TermOf(x) <= t
        /\ k <= Len(x) /\ k <= Len(log) /\ SameUpTo(log, x, k)

\* What a peer has committed was chosen.
CommitsChosen(A, W) ==
    \A s \in Server : KnownChosen(A, W[s], rf[s].commitIndex + 1, disk[s].currentTerm)

\* A leader sent the call, and not to itself.
Sent(c) == <<c.from, c.Term>> \in led /\ c.from # c.to

\* AppendEntries goes up to the end of the log the leader had, and snapshots
\* are of a part that was chosen.
CallsFit(L, A) ==
    \A c \in aeCalls : Sent(c) /\ \E l \in L :
        /\ l[1] = c.Term /\ Carries(c, l[2])
        /\ Len(l[2]) = c.PrevLogIndex + 1 + Len(c.Entries)
        /\ KnownChosen(A, l[2], c.LeaderCommit + 1, c.Term)

\* The snapshot covers the first n + 1 entries of log.
Covers(snapshot, n, term, log) ==
    /\ n + 1 <= Len(log)
    /\ \A i \in 1..(n + 1) : snapshot[i] = log[i].Command
    /\ term = IF n = -1 THEN 0 ELSE log[n + 1].Term

\* Snapshots on their way, as said above.
SnapshotsFit(L, A) ==
    \A c \in isCalls : Sent(c) /\ \E l \in L :
        /\ l[1] = c.Term /\ Covers(c.Snapshot, c.LastIncludedIndex, c.LastIncludedTerm, l[2])
        /\ KnownChosen(A, l[2], c.LastIncludedIndex + 1, c.Term)

(***************************************************************************)
(* W has for every server the log it would have without snapshots, and the *)
(* log of the peer is the part of it after the snapshot, which is          *)
(* committed.                                                              *)
(***************************************************************************)
Whole(g, w) ==
    /\ Follows(w, -1)
    /\ Covers(g.snapshot, g.snapshotIndex, g.snapshotTerm, w)
    /\ Len(g.log) = Len(w) - (g.snapshotIndex + 1)
    /\ \A i \in 1..Len(g.log) : g.log[i] = w[g.snapshotIndex + 1 + i]
    /\ g.snapshotIndex <= g.commitIndex

\* There is such a log for each server.
WholeLogs(W) == W \in [Server -> Seq(LogEntry)] /\ \A s \in Server : Whole(rf[s], W[s])

\* All of it together.
Chronicle(L, A, W) ==
    /\ LeaderLogs(L) /\ WholeLogs(W) /\ LeadersHaveTheirs(L, W) /\ LogsRooted(L, W)
    /\ AcceptedFits(L, A) /\ AcceptedStays(A, W) /\ LaterLeadersHave(L, A)
    /\ VotesCarry(A, W) /\ MatchAccepted(A) /\ RepliesAccepted(A)
    /\ CommitsChosen(A, W) /\ CallsFit(L, A) /\ SnapshotsFit(L, A)

\* A candidate asks for votes with the end of the log it has, until somebody
\* leads its term.
CallsAsk ==
    \A c \in rvCalls :
        rf[c.from].role = "candidate" /\ rf[c.from].currentTerm = c.Term /\ ~Led(c.Term) =>
            c.LastLogIndex = LastIndex(rf[c.from]) /\ c.LastLogTerm = LastTerm(rf[c.from])

\* A winner follows nobody in its term; if it does, it was restarted.
NoLeftovers ==
    \A s \in Server : <<s, rf[s].currentTerm>> \in won /\ rf[s].role = "follower" =>
        \A p \in Point : goroutines[s][p] = 0

\* The first n entries of log, at most, are what svc has applied.
Applied(svc, log, n) ==
    /\ Len(svc) <= n
    /\ \A i \in 1..Len(svc) : i <= Len(log) /\ svc[i] = log[i].Command

\* The service has applied the log, as far as it is committed at most.
AppliedIsCommitted(W) == \A s \in Server : Applied(service[s], W[s], rf[s].commitIndex + 1)

\* The inductive invariant: on a clean history there are leaders' logs L, acceptances A and whole
\* logs W that explain every peer, message and service.
CommitInv ==
    CleanHistory => /\ NoLeftovers /\ CallsAsk
                    /\ \E L, A, W : Chronicle(L, A, W) /\ AppliedIsCommitted(W)

-----------------------------------------------------------------------------
(* Logs and their beginnings *)

\* Beginning is an order.
LEMMA BeginsSelf ==
    ASSUME NEW a \in Seq(LogEntry)
    PROVE  Begins(a, a)
BY DEF Begins

\* And a transitive one.
LEMMA BeginsTrans ==
    ASSUME NEW a \in Seq(LogEntry), NEW b \in Seq(LogEntry), NEW c \in Seq(LogEntry),
           Begins(a, b), Begins(b, c)
    PROVE  Begins(a, c)
<1>1. Len(a) \in Nat /\ Len(b) \in Nat /\ Len(c) \in Nat
  OBVIOUS
<1>. QED
  BY <1>1 DEF Begins

\* Of two beginnings of a log the shorter one begins the other.
LEMMA BothBegin ==
    ASSUME NEW a \in Seq(LogEntry), NEW b \in Seq(LogEntry), NEW c \in Seq(LogEntry),
           Begins(a, c), Begins(b, c), Len(a) <= Len(b)
    PROVE  Begins(a, b)
<1>1. Len(a) \in Nat /\ Len(b) \in Nat /\ Len(c) \in Nat
  OBVIOUS
<1>. QED
  BY <1>1 DEF Begins

\* The first k entries of a log.
LEMMA CutShort ==
    ASSUME NEW log \in Seq(LogEntry), NEW k \in Nat, k <= Len(log)
    PROVE  /\ SubSeq(log, 1, k) \in Seq(LogEntry) /\ Len(SubSeq(log, 1, k)) = k
           /\ Begins(SubSeq(log, 1, k), log)
<1>1. SubSeq(log, 1, k) \in Seq(LogEntry)
  BY SliceIn
<1>2. Len(SubSeq(log, 1, k)) = k /\ \A i \in 1..k : SubSeq(log, 1, k)[i] = log[i]
  BY SubSeqProperties
<1>. QED
  BY <1>1, <1>2 DEF Begins

\* One of a and b begins the other.
Comparable(a, b) == Begins(a, b) \/ Begins(b, a)

\* Comparable logs, cut short.
LEMMA ComparableBelow ==
    ASSUME NEW x \in Seq(LogEntry), NEW y \in Seq(LogEntry), NEW a \in Seq(LogEntry),
           Begins(x, y), Comparable(y, a)
    PROVE  Comparable(x, a)
<1>1. Len(x) \in Nat /\ Len(y) \in Nat /\ Len(a) \in Nat
  OBVIOUS
<1>2. CASE Begins(y, a)
  BY <1>2, BeginsTrans DEF Comparable
<1>3. CASE Begins(a, y)
  <2>1. CASE Len(x) <= Len(a)
    BY <1>3, <2>1, BothBegin DEF Comparable
  <2>2. CASE Len(a) <= Len(x)
    BY <1>3, <2>2, BothBegin DEF Comparable
  <2>. QED
    BY <1>1, <2>1, <2>2
<1>. QED
  BY <1>2, <1>3 DEF Comparable

(***************************************************************************)
(* followerHandleLog, when the request carries log b to its end.  A failed *)
(* match leaves the log or cuts it at an entry that b does not have.  A    *)
(* match leaves the log if b begins it, and b itself otherwise, which      *)
(* drops only entries after one that b does not have.                      *)
(***************************************************************************)
Differ(a, b, k) == k \in DOMAIN a /\ k \in DOMAIN b /\ a[k].Term # b[k].Term

\* The follower has left its log alone.
Refused(log, b, new) ==
    \/ new = log
    \/ \E k \in Nat : Differ(log, b, k) /\ Begins(new, log) /\ Len(new) = k - 1

\* The follower's log has come to hold the request's entries: it held them already, or they replaced
\* a shorter or a differing log.
Merged(log, b, new) ==
    \/ new = log /\ Begins(b, log)
    \/ /\ Begins(new, b) /\ Begins(b, new)
       /\ Len(log) <= Len(b) \/ \E k \in Nat : Differ(log, b, k)

\* What began the log and is comparable with the request still begins it.
LEMMA MergeKeeps ==
    ASSUME NEW log \in Seq(LogEntry), NEW b \in Seq(LogEntry), NEW new \in Seq(LogEntry),
           NEW x \in Seq(LogEntry), Begins(x, log), Comparable(x, b),
           Refused(log, b, new) \/ Merged(log, b, new)
    PROVE  Begins(x, new)
<1>1. /\ Len(x) \in Nat /\ Len(log) \in Nat /\ Len(b) \in Nat /\ Len(new) \in Nat
      /\ DOMAIN log = 1..Len(log) /\ DOMAIN b = 1..Len(b)
  OBVIOUS
<1>2. ASSUME NEW k \in Nat, Differ(log, b, k) PROVE Len(x) < k
  <2>. SUFFICES ASSUME k <= Len(x) PROVE FALSE
    BY <1>1, <1>2
  <2>1. k \in 1..Len(x) /\ k \in 1..Len(b)
    BY <1>1, <1>2 DEF Differ
  <2>2. x[k] = log[k]
    BY <2>1 DEF Begins
  <2>3. x[k] = b[k]
    BY <2>1 DEF Comparable, Begins
  <2>. QED
    BY <1>2, <2>2, <2>3 DEF Differ
<1>3. CASE new = log
  BY <1>3
<1>4. ASSUME NEW k \in Nat, Differ(log, b, k), Begins(new, log), Len(new) = k - 1
      PROVE  Begins(x, new)
  <2>1. Len(x) <= Len(new)
    BY <1>1, <1>2, <1>4
  <2>. QED
    BY <1>4, <2>1, BothBegin
<1>5. CASE /\ Begins(new, b) /\ Begins(b, new)
           /\ Len(log) <= Len(b) \/ \E k \in Nat : Differ(log, b, k)
  <2>1. Len(x) <= Len(b)
    <3>1. CASE Len(log) <= Len(b)
      BY <1>1, <3>1 DEF Begins
    <3>2. ASSUME NEW k \in Nat, Differ(log, b, k) PROVE Len(x) <= Len(b)
      <4>1. k <= Len(b)
        BY <1>1, <3>2 DEF Differ
      <4>. QED
        BY <1>1, <1>2, <3>2, <4>1
    <3>. QED
      BY <1>5, <3>1, <3>2
  <2>2. Begins(x, b)
    BY <1>1, <2>1 DEF Comparable, Begins
  <2>. QED
    BY <1>5, <2>2, BeginsTrans
<1>. QED
  BY <1>3, <1>4, <1>5 DEF Refused, Merged

\* A match leaves the follower with what the request carries.
LEMMA MergedHas ==
    ASSUME NEW log, NEW b, NEW new, Merged(log, b, new)
    PROVE  Begins(b, new)
BY DEF Merged

\* Either way the new log begins the old one or is what the request carries.
LEMMA MergeFrom ==
    ASSUME NEW log \in Seq(LogEntry), NEW b, NEW new, Refused(log, b, new) \/ Merged(log, b, new)
    PROVE  Begins(new, log) \/ Begins(new, b)
BY BeginsSelf DEF Refused, Merged

-----------------------------------------------------------------------------
(* Rooted logs *)

\* A beginning of a rooted log is rooted, also among more logs.
LEMMA RootedBegins ==
    ASSUME NEW L, NEW M, L \subseteq M, NEW a \in Seq(LogEntry), NEW b \in Seq(LogEntry),
           Rooted(L, b), Begins(a, b)
    PROVE  Rooted(M, a)
<1>. SUFFICES ASSUME NEW n \in DOMAIN a
              PROVE  \E l \in M : l[1] = a[n].Term /\ n <= Len(l[2]) /\ SameUpTo(a, l[2], n)
  BY DEF Rooted
<1>1. n \in 1..Len(a) /\ n \in DOMAIN b /\ a[n] = b[n] /\ \A i \in 1..n : a[i] = b[i]
  BY DEF Begins
<1>2. PICK l \in L : l[1] = b[n].Term /\ n <= Len(l[2]) /\ SameUpTo(b, l[2], n)
  BY <1>1 DEF Rooted
<1>3. SameUpTo(a, l[2], n)
  BY <1>1, <1>2 DEF SameUpTo
<1>. QED
  BY <1>1, <1>2, <1>3

\* Rooted logs match.
LEMMA RootedMatch ==
    ASSUME NEW L, LeaderLogs(L), NEW a \in Seq(LogEntry), NEW b \in Seq(LogEntry),
           Rooted(L, a), Rooted(L, b)
    PROVE  Matching(a, b)
<1>. SUFFICES ASSUME NEW n \in DOMAIN a \cap DOMAIN b, a[n].Term = b[n].Term, NEW i \in 1..n
              PROVE  a[i] = b[i]
  BY DEF Matching
<1>1. PICK l \in L : l[1] = a[n].Term /\ n <= Len(l[2]) /\ SameUpTo(a, l[2], n)
  BY DEF Rooted
<1>2. PICK m \in L : m[1] = b[n].Term /\ n <= Len(m[2]) /\ SameUpTo(b, m[2], n)
  BY DEF Rooted
<1>3. l[2] \in Seq(LogEntry) /\ m[2] \in Seq(LogEntry) /\ Comparable(l[2], m[2])
  BY <1>1, <1>2 DEF LeaderLogs, Comparable
<1>4. n \in Nat /\ i \in 1..Len(l[2]) /\ i \in 1..Len(m[2])
  BY <1>1, <1>2, <1>3
<1>5. l[2][i] = m[2][i]
  BY <1>3, <1>4 DEF Comparable, Begins
<1>. QED
  BY <1>1, <1>2, <1>5 DEF SameUpTo

\* The terms of a rooted log do not decrease.
LEMMA RootedOrdered ==
    ASSUME NEW L, LeaderLogs(L), NEW a \in Seq(LogEntry), Rooted(L, a),
           NEW i \in DOMAIN a, NEW j \in DOMAIN a, i <= j
    PROVE  a[i].Term <= a[j].Term
<1>1. PICK l \in L : l[1] = a[j].Term /\ j <= Len(l[2]) /\ SameUpTo(a, l[2], j)
  BY DEF Rooted
<1>2. l[2] \in Seq(LogEntry) /\ Ordered(l)
  BY <1>1 DEF LeaderLogs
<1>3. i \in 1..j /\ j \in 1..j /\ i \in DOMAIN l[2] /\ j \in DOMAIN l[2]
  BY <1>1, <1>2
<1>4. l[2][i].Term <= l[2][j].Term /\ a[i] = l[2][i] /\ a[j] = l[2][j]
  BY <1>1, <1>2, <1>3 DEF Ordered, SameUpTo
<1>. QED
  BY <1>4

\* A rooted log that is not empty begins one that the leader of its last
\* entry had.
LEMMA RootOf ==
    ASSUME NEW L, LeaderLogs(L), NEW a \in Filled, Rooted(L, a)
    PROVE  /\ a \in Seq(LogEntry) /\ Len(a) \in DOMAIN a /\ Len(a) >= 1 /\ TermOf(a) \in Nat
           /\ \E l \in L : l[1] = TermOf(a) /\ l[2] \in Seq(LogEntry) /\ Begins(a, l[2])
<1>1. a \in Seq(LogEntry) /\ Len(a) \in DOMAIN a /\ Len(a) >= 1
  BY EmptySeq DEF Filled
<1>2. PICK l \in L : l[1] = a[Len(a)].Term /\ Len(a) <= Len(l[2]) /\ SameUpTo(a, l[2], Len(a))
  BY <1>1 DEF Rooted
<1>3. l[2] \in Seq(LogEntry) /\ Begins(a, l[2])
  BY <1>2 DEF LeaderLogs, Begins, SameUpTo
<1>4. a[Len(a)] \in LogEntry
  BY <1>1, ElementOfSeq
<1>. QED
  BY <1>1, <1>2, <1>3, <1>4 DEF TermOf, LogEntry

-----------------------------------------------------------------------------
(* What is accepted, chosen and choosable *)

\* The last entry of a log that has one.
LEMMA FilledIn ==
    ASSUME NEW x \in Filled
    PROVE  /\ x \in Seq(LogEntry) /\ Len(x) \in DOMAIN x /\ Len(x) >= 1 /\ Len(x) \in Nat
           /\ TermOf(x) \in Nat
<1>1. x \in Seq(LogEntry) /\ Len(x) \in DOMAIN x /\ Len(x) >= 1 /\ Len(x) \in Nat
  BY EmptySeq DEF Filled
<1>2. x[Len(x)] \in LogEntry
  BY <1>1, ElementOfSeq
<1>. QED
  BY <1>1, <1>2 DEF TermOf, LogEntry

\* From A to B a server accepts something only in a term it has not left.
Grows(A, B) ==
    /\ A \subseteq B
    /\ \A e \in B : e \in A \/ disk[e[1]].currentTerm <= e[2]

\* What can be chosen could be chosen before.
LEMMA ChoosableBefore ==
    ASSUME RaftInv, RaftInv', TermsGrow, NEW A, NEW B, Grows(A, B),
           NEW x \in Filled, Choosable(B, x)'
    PROVE  Choosable(A, x)
<1>1. PICK Q \in SUBSET Server :
              /\ IsQuorum(Cardinality(Q))
              /\ \A p \in Q : HasAccepted(B, p, x) \/ disk'[p].currentTerm <= TermOf(x)
  BY DEF Choosable, HasAccepted, Begins
<1>2. ASSUME NEW p \in Q PROVE HasAccepted(A, p, x) \/ disk[p].currentTerm <= TermOf(x)
  <2>1. CASE HasAccepted(B, p, x)
    BY <2>1 DEF HasAccepted, Grows
  <2>2. CASE disk'[p].currentTerm <= TermOf(x)
    <3>1. disk[p].currentTerm <= disk'[p].currentTerm
      BY DEF TermsGrow
    <3>2. disk[p].currentTerm \in Nat /\ disk'[p].currentTerm \in Nat /\ TermOf(x) \in Nat
      BY FilledIn DEF RaftInv, NodeInv, DiskState
    <3>. QED
      BY <2>2, <3>1, <3>2
  <2>. QED
    BY <1>1, <2>1, <2>2
<1>. QED
  BY <1>1, <1>2 DEF Choosable

\* Nobody accepts anything in a term it has left.
LEMMA AcceptedBefore ==
    ASSUME RaftInv, NEW A, NEW B, Grows(A, B), NEW p \in Server, NEW x \in Filled,
           HasAccepted(B, p, x), TermOf(x) < disk[p].currentTerm
    PROVE  HasAccepted(A, p, x)
<1>1. PICK e \in B : e[1] = p /\ e[2] = TermOf(x) /\ Begins(x, e[3])
  BY DEF HasAccepted
<1>2. disk[p].currentTerm \in Nat /\ TermOf(x) \in Nat
  BY FilledIn DEF RaftInv, NodeInv, DiskState
<1>3. e \in A
  BY <1>1, <1>2 DEF Grows
<1>. QED
  BY <1>1, <1>3 DEF HasAccepted

\* What is chosen can be chosen, and somebody has accepted it.
LEMMA ChosenChoosable ==
    ASSUME NEW A, NEW x, Chosen(A, x)
    PROVE  Choosable(A, x) /\ \E p \in Server : HasAccepted(A, p, x)
<1>1. PICK Q \in SUBSET Server : IsQuorum(Cardinality(Q)) /\ \A p \in Q : HasAccepted(A, p, x)
  BY DEF Chosen
<1>2. \E p \in Server : p \in Q
  BY <1>1, MajoritiesMeet
<1>. QED
  BY <1>1, <1>2 DEF Choosable

\* What a log has that was chosen stays chosen.
LEMMA KnownLater ==
    ASSUME NEW A, NEW B, A \subseteq B, NEW log \in Seq(LogEntry), NEW new \in Seq(LogEntry),
           NEW k \in Int, NEW j \in Int, j <= k, NEW t \in Int, NEW u \in Int, t <= u,
           KnownChosen(A, log, k, t), j > 0 => j <= Len(new) /\ SameUpTo(new, log, j)
    PROVE  KnownChosen(B, new, j, u)
<1>. SUFFICES ASSUME j > 0
              PROVE  \E x \in Filled :
                        /\ Chosen(B, x) /\ TermOf(x) <= u
                        /\ j <= Len(x) /\ j <= Len(new) /\ SameUpTo(new, x, j)
  BY DEF KnownChosen
<1>1. PICK x \in Filled : /\ Chosen(A, x) /\ TermOf(x) <= t
                          /\ k <= Len(x) /\ k <= Len(log) /\ SameUpTo(log, x, k)
  BY DEF KnownChosen
<1>2. TermOf(x) \in Nat /\ Len(x) \in Nat
  BY FilledIn
<1>3. Chosen(B, x)
  BY <1>1 DEF Chosen, HasAccepted
<1>4. TermOf(x) <= u /\ j <= Len(x)
  BY <1>1, <1>2
<1>5. SameUpTo(new, x, j)
  <2>1. \A i \in 1..j : i \in 1..k
    OBVIOUS
  <2>. QED
    BY <1>1, <2>1 DEF SameUpTo
<1>. QED
  BY <1>3, <1>4, <1>5

\* What is accepted is part of a log of a leader of its term.
LEMMA AcceptedRoot ==
    ASSUME NEW L, NEW A, LeaderLogs(L), AcceptedFits(L, A), NEW p, NEW x \in Filled,
           HasAccepted(A, p, x)
    PROVE  /\ p \in Server /\ TermOf(x) <= disk[p].currentTerm
           /\ \E l \in L : l[1] = TermOf(x) /\ l[2] \in Seq(LogEntry) /\ Begins(x, l[2])
<1>1. PICK e \in A : e[1] = p /\ e[2] = TermOf(x) /\ Begins(x, e[3])
  BY DEF HasAccepted
<1>2. /\ e[1] \in Server /\ e[3] \in Seq(LogEntry) /\ e[2] <= disk[e[1]].currentTerm
  BY <1>1 DEF AcceptedFits
<1>3. PICK l \in L : l[1] = e[2] /\ Begins(e[3], l[2])
  BY <1>1 DEF AcceptedFits
<1>4. l[2] \in Seq(LogEntry) /\ x \in Seq(LogEntry)
  BY <1>3, FilledIn DEF LeaderLogs
<1>5. Begins(x, l[2])
  BY <1>1, <1>2, <1>3, <1>4, BeginsTrans
<1>. QED
  BY <1>1, <1>2, <1>3, <1>4, <1>5

\* A log that can be chosen agrees with those of the leaders of its term,
\* and all later ones have it.
LEMMA ChoosableAgrees ==
    ASSUME NEW L, NEW A, LeaderLogs(L), AcceptedFits(L, A), LaterLeadersHave(L, A),
           NEW p, NEW x \in Filled, HasAccepted(A, p, x), Choosable(A, x),
           NEW l \in L, TermOf(x) <= l[1]
    PROVE  Comparable(x, l[2])
<1>1. TermOf(x) \in Nat /\ l[1] \in Nat /\ x \in Seq(LogEntry) /\ l[2] \in Seq(LogEntry)
  BY FilledIn DEF LeaderLogs
<1>2. CASE TermOf(x) < l[1]
  BY <1>2 DEF LaterLeadersHave, Comparable
<1>3. CASE TermOf(x) = l[1]
  <2>1. PICK m \in L : m[1] = TermOf(x) /\ m[2] \in Seq(LogEntry) /\ Begins(x, m[2])
    BY AcceptedRoot
  <2>2. Comparable(m[2], l[2])
    BY <1>3, <2>1 DEF LeaderLogs, Comparable
  <2>. QED
    BY <1>1, <2>1, <2>2, ComparableBelow
<1>. QED
  BY <1>1, <1>2, <1>3

(***************************************************************************)
(* The election restriction: a log that is not behind one that begins with *)
(* x, which can be chosen, begins with x too.                              *)
(***************************************************************************)
LEMMA UpToDateHas ==
    ASSUME NEW L, NEW A, LeaderLogs(L), AcceptedFits(L, A), LaterLeadersHave(L, A),
           NEW p, NEW x \in Filled, HasAccepted(A, p, x), Choosable(A, x),
           NEW mine \in Filled, Rooted(L, mine), Begins(x, mine),
           NEW other \in Seq(LogEntry), Rooted(L, other), NEW t \in Nat,
           other = <<>> => t = 0, other # <<>> => t = TermOf(other),
           TermOf(mine) < t \/ (TermOf(mine) = t /\ Len(mine) <= Len(other))
    PROVE  Begins(x, other)
<1>1. /\ x \in Seq(LogEntry) /\ Len(x) \in DOMAIN x /\ Len(x) >= 1 /\ Len(x) \in Nat
      /\ mine \in Seq(LogEntry) /\ Len(mine) \in DOMAIN mine /\ Len(mine) >= 1
      /\ TermOf(x) \in Nat /\ TermOf(mine) \in Nat /\ Len(mine) \in Nat /\ Len(other) \in Nat
  BY FilledIn
<1>2. other # <<>> /\ other \in Filled /\ t = TermOf(other)
  BY <1>1 DEF Filled
<1>3. TermOf(x) <= TermOf(mine)
  <2>1. Len(x) \in DOMAIN mine /\ Len(x) <= Len(mine) /\ x[Len(x)] = mine[Len(x)]
    BY <1>1 DEF Begins
  <2>2. mine[Len(x)].Term <= mine[Len(mine)].Term
    BY <1>1, <2>1, RootedOrdered
  <2>. QED
    BY <2>1, <2>2 DEF TermOf
<1>4. PICK l \in L : l[1] = t /\ l[2] \in Seq(LogEntry) /\ Begins(other, l[2])
  BY <1>2, RootOf
<1>5. TermOf(x) <= l[1]
  BY <1>1, <1>3, <1>4
<1>6. Comparable(x, l[2])
  BY <1>5, ChoosableAgrees
<1>7. CASE Len(x) <= Len(other)
  <2>1. Begins(x, l[2])
    <3>1. Len(other) <= Len(l[2]) /\ Len(l[2]) \in Nat
      BY <1>4 DEF Begins
    <3>2. Len(x) <= Len(l[2])
      BY <1>1, <1>7, <3>1
    <3>. QED
      BY <1>1, <1>6, <3>1, <3>2 DEF Comparable, Begins
  <2>. QED
    BY <1>1, <1>4, <1>7, <2>1, BothBegin
<1>8. CASE Len(other) < Len(x)
  <2>1. TermOf(mine) < t
    BY <1>1, <1>8 DEF Begins
  <2>2. TermOf(x) < l[1]
    BY <1>1, <1>3, <1>4, <2>1
  <2>3. Begins(x, l[2])
    BY <2>2 DEF LaterLeadersHave
  <2>4. Begins(other, x)
    BY <1>1, <1>4, <1>8, <2>3, BothBegin
  <2>5. Rooted(L, x)
    BY <1>1, RootedBegins
  <2>6. Len(other) \in DOMAIN other /\ Len(other) \in DOMAIN x /\ other[Len(other)] = x[Len(other)]
    <3>1. Len(other) \in DOMAIN other /\ Len(other) >= 1
      BY <1>2, FilledIn
    <3>2. Len(other) \in DOMAIN x
      BY <1>1, <1>8, <3>1
    <3>. QED
      BY <1>1, <2>4, <3>1, <3>2 DEF Begins
  <2>7. x[Len(other)].Term <= x[Len(x)].Term
    <3>1. Len(other) <= Len(x)
      BY <1>1, <1>8
    <3>2. x \in Seq(LogEntry) /\ Len(x) \in DOMAIN x
      BY <1>1
    <3>. QED
      BY <2>5, <2>6, <3>1, <3>2, RootedOrdered
  <2>8. t <= TermOf(x)
    BY <1>2, <2>6, <2>7 DEF TermOf
  <2>. QED
    BY <1>1, <1>4, <2>2, <2>8
<1>. QED
  BY <1>1, <1>7, <1>8

-----------------------------------------------------------------------------
(* What a step leaves alone *)

\* The fields of a peer, and what its disk has of them.

\* The fields of a peer, and what its disk has of them.
LEMMA PeerIn ==
    ASSUME RaftInv, NEW p \in Server
    PROVE  /\ rf[p] \in RaftState /\ disk[p] \in DiskState
           /\ rf[p].log \in Seq(LogEntry) /\ Len(rf[p].log) \in Nat
           /\ rf[p].commitIndex \in Int /\ rf[p].commitIndex >= -1
           /\ rf[p].currentTerm \in Nat /\ disk[p].currentTerm \in Nat
           /\ rf[p].role \in Role /\ rf[p].matchIndex \in [Server -> Int]
           /\ disk[p].currentTerm <= rf[p].currentTerm /\ disk[p].log = rf[p].log
           /\ service[p] \in Seq(Command)
<1>1. /\ rf[p] \in RaftState /\ disk[p] \in DiskState /\ Durable(disk[p], rf[p])
      /\ service[p] \in Seq(Command)
  BY DEF RaftInv, NodeInv, DurableState
<1>2. /\ rf[p].log \in Seq(LogEntry) /\ rf[p].commitIndex \in LogIndex
      /\ rf[p].currentTerm \in Nat /\ disk[p].currentTerm \in Nat
      /\ rf[p].role \in Role /\ rf[p].matchIndex \in [Server -> Int]
  BY <1>1 DEF RaftState, DiskState
<1>. QED
  BY <1>1, <1>2 DEF Durable, LogIndex

\* The same after a step.
LEMMA PeerInNext ==
    ASSUME RaftInv', NEW p \in Server
    PROVE  /\ rf'[p] \in RaftState /\ disk'[p] \in DiskState
           /\ rf'[p].log \in Seq(LogEntry) /\ Len(rf'[p].log) \in Nat
           /\ rf'[p].commitIndex \in Int /\ rf'[p].commitIndex >= -1
           /\ rf'[p].currentTerm \in Nat /\ disk'[p].currentTerm \in Nat
           /\ rf'[p].role \in Role /\ rf'[p].matchIndex \in [Server -> Int]
           /\ disk'[p].currentTerm <= rf'[p].currentTerm /\ disk'[p].log = rf'[p].log
           /\ service'[p] \in Seq(Command)
<1>1. /\ rf'[p] \in RaftState /\ disk'[p] \in DiskState /\ Durable(disk'[p], rf'[p])
      /\ service'[p] \in Seq(Command)
  BY DEF RaftInv, NodeInv, DurableState, Durable
<1>2. /\ rf'[p].log \in Seq(LogEntry) /\ rf'[p].commitIndex \in LogIndex
      /\ rf'[p].currentTerm \in Nat /\ disk'[p].currentTerm \in Nat
      /\ rf'[p].role \in Role /\ rf'[p].matchIndex \in [Server -> Int]
  BY <1>1 DEF RaftState, DiskState
<1>. QED
  BY <1>1, <1>2 DEF Durable, LogIndex

\* The logs of leaders are remembered.
LEMMA LeaderLogsKept ==
    ASSUME NEW L, LeaderLogs(L), led \subseteq led'
    PROVE  LeaderLogs(L)'
<1>1. L \subseteq Nat \X Seq(LogEntry)
  BY DEF LeaderLogs
<1>2. ASSUME NEW l \in L PROVE (\E s \in Server : <<s, l[1]>> \in led') /\ Ordered(l) /\ Rooted(L, l[2])
  BY DEF LeaderLogs
<1>3. \A l, m \in L : l[1] = m[1] => Begins(l[2], m[2]) \/ Begins(m[2], l[2])
  BY DEF LeaderLogs
<1>4. ASSUME NEW l \in L PROVE Ordered(l)' /\ Rooted(L, l[2])'
  BY <1>2 DEF Ordered, Rooted, SameUpTo
<1>5. \A l, m \in L : l[1] = m[1] => Begins(l[2], m[2])' \/ Begins(m[2], l[2])'
  BY <1>3 DEF Begins
<1>. QED
  BY <1>1, <1>2, <1>4, <1>5 DEF LeaderLogs

\* Nobody becomes leader, and the leaders' logs stay.
LEMMA TheirsKept ==
    ASSUME NEW L, NEW W, NEW V, LeadersHaveTheirs(L, W),
           \A p \in Server : rf'[p].role = "leader" =>
               /\ rf[p].role = "leader" /\ rf'[p].currentTerm = rf[p].currentTerm
               /\ V[p] = W[p]
    PROVE  LeadersHaveTheirs(L, V)'
<1>1. ASSUME NEW p \in Server, rf'[p].role = "leader"
      PROVE  /\ <<rf'[p].currentTerm, V[p]>> \in L
             /\ \A l \in L : l[1] = rf'[p].currentTerm => Begins(l[2], V[p])
  <2>1. /\ <<rf[p].currentTerm, W[p]>> \in L
        /\ \A l \in L : l[1] = rf[p].currentTerm => Begins(l[2], W[p])
    BY <1>1 DEF LeadersHaveTheirs
  <2>. QED
    BY <1>1, <2>1
<1>. QED
  BY <1>1 DEF LeadersHaveTheirs, Begins

\* A server's log stays, or its new one is rooted too.
LEMMA LogsRootedKept ==
    ASSUME RaftInv, RaftInv', NEW L, NEW M, L \subseteq M, NEW W \in [Server -> Seq(LogEntry)], NEW V,
           LogsRooted(L, W), TermsGrow,
           \A p \in Server :
               \/ V[p] = W[p]
               \/ /\ Rooted(M, V[p])
                  /\ \A n \in DOMAIN V[p] : V[p][n].Term <= disk'[p].currentTerm
    PROVE  LogsRooted(M, V)'
<1>1. ASSUME NEW p \in Server
      PROVE  /\ Rooted(M, V[p])
             /\ \A n \in DOMAIN V[p] : V[p][n].Term <= disk'[p].currentTerm
  <2>1. CASE V[p] = W[p]
    <3>1. W[p] \in Seq(LogEntry)
      OBVIOUS
    <3>2. Rooted(M, W[p])
      BY <3>1, BeginsSelf, RootedBegins DEF LogsRooted
    <3>3. ASSUME NEW n \in DOMAIN W[p] PROVE W[p][n].Term <= disk'[p].currentTerm
      <4>1. W[p][n].Term <= disk[p].currentTerm /\ disk[p].currentTerm <= disk'[p].currentTerm
        BY DEF LogsRooted, TermsGrow
      <4>2. W[p][n] \in LogEntry
        BY <3>1, ElementOfSeq
      <4>4. W[p][n].Term \in Nat
        BY <4>2 DEF LogEntry
      <4>3. disk[p].currentTerm \in Nat /\ disk'[p].currentTerm \in Nat
        BY DEF RaftInv, NodeInv, DiskState
      <4>. QED
        BY <4>1, <4>3, <4>4
    <3>. QED
      BY <2>1, <3>2, <3>3
  <2>. QED
    BY <2>1
<1>. QED
  BY <1>1 DEF LogsRooted, Rooted, SameUpTo

\* What is accepted fits, if what is new does.
LEMMA FitsKept ==
    ASSUME RaftInv, RaftInv', NEW L, NEW A, NEW M, NEW B, AcceptedFits(L, A), TermsGrow,
           L \subseteq M, B \subseteq Server \X Nat \X Seq(LogEntry),
           \A e \in B : \/ e \in A
                        \/ /\ e[2] <= disk'[e[1]].currentTerm
                           /\ \E l \in M : l[1] = e[2] /\ Begins(e[3], l[2])
    PROVE  AcceptedFits(M, B)'
<1>1. ASSUME NEW e \in B
      PROVE  /\ e[2] <= disk'[e[1]].currentTerm
             /\ \E l \in M : l[1] = e[2] /\ Begins(e[3], l[2])
  <2>1. CASE e \in A
    <3>1. e[2] <= disk[e[1]].currentTerm /\ \E l \in L : l[1] = e[2] /\ Begins(e[3], l[2])
      BY <2>1 DEF AcceptedFits
    <3>2. e[1] \in Server /\ e[2] \in Nat
      OBVIOUS
    <3>3. disk[e[1]].currentTerm <= disk'[e[1]].currentTerm
      BY <3>2 DEF TermsGrow
    <3>4. disk[e[1]].currentTerm \in Nat /\ disk'[e[1]].currentTerm \in Nat
      BY <3>2 DEF RaftInv, NodeInv, DiskState
    <3>. QED
      BY <3>1, <3>2, <3>3, <3>4
  <2>. QED
    BY <2>1
<1>. QED
  BY <1>1 DEF AcceptedFits, Begins

\* What was accepted and can be chosen stays, and so does what is new.
LEMMA StaysKept ==
    ASSUME RaftInv, RaftInv', NEW A, NEW B, NEW W, NEW V \in [Server -> Seq(LogEntry)],
           AcceptedStays(A, W), TermsGrow, Grows(A, B),
           \A e \in B : e \in A \/ (e[3] \in Seq(LogEntry) /\ Begins(e[3], V[e[1]])),
           \A p \in Server : \A x \in Filled :
               HasAccepted(A, p, x) /\ Choosable(A, x) /\ Begins(x, W[p]) => Begins(x, V[p])
    PROVE  AcceptedStays(B, V)'
<1>1. ASSUME NEW p \in Server, NEW x \in Filled, HasAccepted(B, p, x), Choosable(B, x)'
      PROVE  Begins(x, V[p])
  <2>1. Choosable(A, x)
    BY <1>1, ChoosableBefore
  <2>2. PICK e \in B : e[1] = p /\ e[2] = TermOf(x) /\ Begins(x, e[3])
    BY <1>1 DEF HasAccepted
  <2>3. CASE e \in A
    <3>1. HasAccepted(A, p, x)
      BY <2>2, <2>3 DEF HasAccepted
    <3>. QED
      BY <2>1, <3>1 DEF AcceptedStays
  <2>4. CASE e[3] \in Seq(LogEntry) /\ Begins(e[3], V[e[1]])
    <3>1. x \in Seq(LogEntry) /\ V[p] \in Seq(LogEntry)
      BY FilledIn
    <3>. QED
      BY <2>2, <2>4, <3>1, BeginsTrans
  <2>. QED
    BY <2>3, <2>4
<1>2. \A p, x : HasAccepted(B, p, x)' <=> HasAccepted(B, p, x)
  BY DEF HasAccepted, TermOf, Begins
<1>. QED
  BY <1>1, <1>2 DEF AcceptedStays, Begins

\* Later leaders have what can be chosen, if the new ones do.
LEMMA LaterKept ==
    ASSUME RaftInv, RaftInv', NEW L, NEW A, NEW M, NEW B, LaterLeadersHave(L, A), TermsGrow,
           Grows(A, B),
           \A l \in M : l \in L \/ \A x \in Filled :
               Choosable(A, x) /\ TermOf(x) < l[1] => Begins(x, l[2])
    PROVE  LaterLeadersHave(M, B)'
<1>1. ASSUME NEW l \in M, NEW x \in Filled, Choosable(B, x)', TermOf(x) < l[1]
      PROVE  Begins(x, l[2])
  <2>1. Choosable(A, x)
    BY <1>1, ChoosableBefore
  <2>. QED
    BY <1>1, <2>1 DEF LaterLeadersHave
<1>. QED
  BY <1>1 DEF LaterLeadersHave, Begins, TermOf

\* Candidates stay as they are, step down or have lost, and nobody votes.
LEMMA VotesCarryKept ==
    ASSUME RaftInv, RaftInv', NEW A, NEW B, NEW W, NEW V, VotesCarry(A, W), TermsGrow, Grows(A, B),
           granted' = granted, led \subseteq led',
           \A p \in Server : rf'[p].role = "candidate" =>
               \/ /\ rf[p].role = "candidate" /\ rf'[p].currentTerm = rf[p].currentTerm
                  /\ V[p] = W[p]
               \/ Led(rf[p].currentTerm)'
    PROVE  VotesCarry(B, V)'
<1>1. ASSUME NEW v \in granted, rf'[v[3]].role = "candidate", rf'[v[3]].currentTerm = v[2],
             ~Led(v[2])',
             NEW x \in Filled, HasAccepted(B, v[1], x), TermOf(x) < v[2], Choosable(B, x)'
      PROVE  Begins(x, V[v[3]])
  <2>1. Choosable(A, x)
    BY <1>1, ChoosableBefore
  <2>2. v[1] \in Server /\ v[3] \in Server /\ v[2] \in Nat /\ v[2] <= disk[v[1]].currentTerm
    BY DEF RaftInv, RestInv, VoteInv, VoteRemembered
  <2>3. TermOf(x) < disk[v[1]].currentTerm
    <3>1. TermOf(x) \in Nat /\ disk[v[1]].currentTerm \in Nat
      BY <2>2, FilledIn DEF RaftInv, NodeInv, DiskState
    <3>. QED
      BY <1>1, <2>2, <3>1
  <2>4. HasAccepted(A, v[1], x)
    BY <1>1, <2>2, <2>3, AcceptedBefore
  <2>6. ~Led(v[2])
    BY <1>1 DEF Led
  <2>7. ~Led(rf[v[3]].currentTerm)'
    BY <1>1 DEF Led
  <2>5. /\ rf[v[3]].role = "candidate" /\ rf'[v[3]].currentTerm = rf[v[3]].currentTerm
        /\ V[v[3]] = W[v[3]]
    BY <1>1, <2>2, <2>7
  <2>. QED
    BY <1>1, <2>1, <2>4, <2>5, <2>6 DEF VotesCarry
<1>2. \A p, x : HasAccepted(B, p, x)' <=> HasAccepted(B, p, x)
  BY DEF HasAccepted, TermOf, Begins
<1>3. \A x \in Filled : TermOf(x)' = TermOf(x)
  BY DEF TermOf
<1>4. ASSUME NEW v \in granted', rf'[v[3]].role = "candidate" /\ rf'[v[3]].currentTerm = v[2],
             ~Led(v[2])', NEW x \in Filled,
             HasAccepted(B, v[1], x)' /\ TermOf(x)' < v[2] /\ Choosable(B, x)'
      PROVE  Begins(x, V[v[3]])'
  <2>1. Begins(x, V[v[3]])
    BY <1>1, <1>2, <1>3, <1>4
  <2>. QED
    BY <2>1 DEF Begins
<1>. QED
  BY <1>4 DEF VotesCarry

\* What was accepted or chosen remains so.
LEMMA UpToKept ==
    ASSUME NEW A, NEW B, A \subseteq B, NEW p, NEW t, NEW n, AcceptedUpTo(A, p, t, n)
    PROVE  AcceptedUpTo(B, p, t, n)
<1>1. CASE \E e \in A : e[1] = p /\ e[2] = t /\ n < Len(e[3])
  BY <1>1 DEF AcceptedUpTo
<1>2. CASE \E x \in Filled : Chosen(A, x) /\ TermOf(x) <= t /\ n < Len(x)
  <2>1. \A x : Chosen(A, x) => Chosen(B, x)
    BY DEF Chosen, HasAccepted
  <2>. QED
    BY <1>2, <2>1 DEF AcceptedUpTo
<1>. QED
  BY <1>1, <1>2 DEF AcceptedUpTo

\* What a leader counts was accepted: it counted it before, or it is new.
LEMMA MatchKept ==
    ASSUME NEW A, NEW B, MatchAccepted(A), A \subseteq B,
           \A p, q \in Server : rf'[p].role = "leader" /\ rf'[p].matchIndex[q] >= 0 =>
               \/ /\ rf[p].role = "leader" /\ rf'[p].currentTerm = rf[p].currentTerm
                  /\ rf'[p].matchIndex[q] = rf[p].matchIndex[q]
               \/ AcceptedUpTo(B, q, rf'[p].currentTerm, rf'[p].matchIndex[q])
    PROVE  MatchAccepted(B)'
<1>1. ASSUME NEW p \in Server, NEW q \in Server, rf'[p].role = "leader", rf'[p].matchIndex[q] >= 0
      PROVE  AcceptedUpTo(B, q, rf'[p].currentTerm, rf'[p].matchIndex[q])
  <2>1. CASE /\ rf[p].role = "leader" /\ rf'[p].currentTerm = rf[p].currentTerm
             /\ rf'[p].matchIndex[q] = rf[p].matchIndex[q]
    <3>1. AcceptedUpTo(A, q, rf[p].currentTerm, rf[p].matchIndex[q])
      BY <1>1, <2>1 DEF MatchAccepted
    <3>2. AcceptedUpTo(B, q, rf[p].currentTerm, rf[p].matchIndex[q])
      BY <3>1, UpToKept
    <3>. QED
      BY <2>1, <3>2
  <2>. QED
    BY <1>1, <2>1
<1>2. \A q, t, n : AcceptedUpTo(B, q, t, n)' <=> AcceptedUpTo(B, q, t, n)
  BY DEF AcceptedUpTo, Chosen, HasAccepted, TermOf, Begins
<1>. QED
  BY <1>1, <1>2 DEF MatchAccepted

\* A reply that tells of a success is an old one, or what it tells is true.
LEMMA RepliesKept ==
    ASSUME NEW A, NEW B, RepliesAccepted(A), A \subseteq B,
           \A c \in aeCalls' : c.done /\ c.reply.Success =>
               \/ \E d \in aeCalls : Alike(c, d) /\ d.done /\ d.reply.Success
               \/ AcceptedUpTo(B, c.to, c.Term, c.PrevLogIndex + Len(c.Entries))
    PROVE  RepliesAccepted(B)'
<1>1. ASSUME NEW c \in aeCalls', c.done, c.reply.Success
      PROVE  AcceptedUpTo(B, c.to, c.Term, c.PrevLogIndex + Len(c.Entries))
  <2>1. ASSUME NEW d \in aeCalls, Alike(c, d), d.done, d.reply.Success
        PROVE  AcceptedUpTo(B, c.to, c.Term, c.PrevLogIndex + Len(c.Entries))
    <3>1. AcceptedUpTo(A, d.to, d.Term, d.PrevLogIndex + Len(d.Entries))
      BY <2>1 DEF RepliesAccepted
    <3>2. AcceptedUpTo(B, d.to, d.Term, d.PrevLogIndex + Len(d.Entries))
      BY <3>1, UpToKept
    <3>. QED
      BY <2>1, <3>2 DEF Alike
  <2>. QED
    BY <1>1, <2>1
<1>2. \A q, t, n : AcceptedUpTo(B, q, t, n)' <=> AcceptedUpTo(B, q, t, n)
  BY DEF AcceptedUpTo, Chosen, HasAccepted, TermOf, Begins
<1>. QED
  BY <1>1, <1>2 DEF RepliesAccepted

\* commitIndex stays or goes back, and the log stays up to it.
LEMMA CommitsKept ==
    ASSUME RaftInv, RaftInv', NEW A, NEW B, NEW W \in [Server -> Seq(LogEntry)],
           NEW V \in [Server -> Seq(LogEntry)], CommitsChosen(A, W), A \subseteq B, TermsGrow,
           \A p \in Server :
               \/ /\ rf'[p].commitIndex <= rf[p].commitIndex
                  /\ rf'[p].commitIndex + 1 <= Len(V[p])
                        \/ V[p] = W[p] \/ rf'[p].commitIndex = -1
                  /\ SameUpTo(V[p], W[p], rf'[p].commitIndex + 1)
               \/ KnownChosen(B, V[p], rf'[p].commitIndex + 1, disk'[p].currentTerm)
    PROVE  CommitsChosen(B, V)'
<1>1. ASSUME NEW p \in Server
      PROVE  KnownChosen(B, V[p], rf'[p].commitIndex + 1, disk'[p].currentTerm)
  <2>1. CASE /\ rf'[p].commitIndex <= rf[p].commitIndex
             /\ rf'[p].commitIndex + 1 <= Len(V[p])
                   \/ V[p] = W[p] \/ rf'[p].commitIndex = -1
             /\ SameUpTo(V[p], W[p], rf'[p].commitIndex + 1)
    <3>. DEFINE k == rf[p].commitIndex + 1
                j == rf'[p].commitIndex + 1
                a == W[p]
                b == V[p]
    <3>1. disk[p].currentTerm <= disk'[p].currentTerm
      BY DEF TermsGrow
    <3>2. /\ a \in Seq(LogEntry) /\ b \in Seq(LogEntry) /\ k \in Int /\ j \in Int /\ j <= k
          /\ disk[p].currentTerm \in Int /\ disk'[p].currentTerm \in Int
          /\ disk[p].currentTerm <= disk'[p].currentTerm
      BY <2>1, <3>1, PeerIn, PeerInNext
    <3>3. KnownChosen(A, a, k, disk[p].currentTerm)
      BY DEF CommitsChosen
    <3>4. j > 0 => j <= Len(b)
      <4>1. CASE j <= Len(b)
        BY <4>1
      <4>2. CASE b = a /\ j > 0
        <5>1. k > 0 => k <= Len(a)
          BY <3>3 DEF KnownChosen
        <5>. QED
          BY <3>2, <4>2, <5>1
      <4>3. CASE rf'[p].commitIndex = -1
        BY <4>3
      <4>. QED
        BY <2>1, <4>1, <4>2, <4>3
    <3>5. SameUpTo(b, a, j)
      BY <2>1
    <3>. HIDE DEF a, b, k, j
    <3>6. KnownChosen(B, b, j, disk'[p].currentTerm)
      BY <3>2, <3>3, <3>4, <3>5, KnownLater
    <3>. QED
      BY <3>6 DEF b, j
  <2>. QED
    BY <2>1
<1>. QED
  BY <1>1 DEF CommitsChosen, KnownChosen, Chosen, HasAccepted, TermOf, Begins, SameUpTo

\* Call c is call d, with the commit index that d had.
SameCall(c, d) == Alike(c, d) /\ c.LeaderCommit = d.LeaderCommit

\* A call is an old one, or fits as well.
LEMMA CallsFitKept ==
    ASSUME NEW L, NEW A, NEW M, NEW B, CallsFit(L, A), L \subseteq M, A \subseteq B, LeaderLogs(L),
           aeCalls \subseteq AppendEntriesCall, led \subseteq led',
           \A c \in aeCalls' :
               \/ \E d \in aeCalls : SameCall(c, d)
               \/ Sent(c)' /\ \E l \in M :
                      /\ l[1] = c.Term /\ Carries(c, l[2])
                      /\ Len(l[2]) = c.PrevLogIndex + 1 + Len(c.Entries)
                      /\ KnownChosen(B, l[2], c.LeaderCommit + 1, c.Term)
    PROVE  CallsFit(M, B)'
<1>1. ASSUME NEW c \in aeCalls'
      PROVE  Sent(c)' /\ \E l \in M :
                 /\ l[1] = c.Term /\ Carries(c, l[2])
                 /\ Len(l[2]) = c.PrevLogIndex + 1 + Len(c.Entries)
                 /\ KnownChosen(B, l[2], c.LeaderCommit + 1, c.Term)
  <2>1. ASSUME NEW d \in aeCalls, SameCall(c, d)
        PROVE  Sent(c)' /\ \E l \in M :
                   /\ l[1] = c.Term /\ Carries(c, l[2])
                   /\ Len(l[2]) = c.PrevLogIndex + 1 + Len(c.Entries)
                   /\ KnownChosen(B, l[2], c.LeaderCommit + 1, c.Term)
    <3>0. Sent(c)'
      BY <2>1 DEF CallsFit, Sent, SameCall, Alike
    <3>1. PICK l \in L : /\ l[1] = d.Term /\ Carries(d, l[2])
                         /\ Len(l[2]) = d.PrevLogIndex + 1 + Len(d.Entries)
                         /\ KnownChosen(A, l[2], d.LeaderCommit + 1, d.Term)
      BY <2>1 DEF CallsFit
    <3>2. d.LeaderCommit + 1 \in Int /\ d.Term \in Int
      <4>1. d \in AppendEntriesCall
        BY <2>1
      <4>2. d.LeaderCommit \in LogIndex /\ d.Term \in Nat
        BY <4>1 DEF AppendEntriesCall
      <4>. QED
        BY <4>2 DEF LogIndex
    <3>3. l[2] \in Seq(LogEntry)
      BY <3>1 DEF LeaderLogs
    <3>4. d.LeaderCommit + 1 > 0 => d.LeaderCommit + 1 <= Len(l[2])
      BY <3>1 DEF KnownChosen
    <3>5. SameUpTo(l[2], l[2], d.LeaderCommit + 1)
      BY DEF SameUpTo
    <3>6. KnownChosen(B, l[2], d.LeaderCommit + 1, d.Term)
      BY <3>1, <3>2, <3>3, <3>4, <3>5, KnownLater
    <3>7. Carries(c, l[2])
      BY <2>1, <3>1 DEF Carries, SameCall, Alike
    <3>8. c.LeaderCommit = d.LeaderCommit /\ c.Term = d.Term
          /\ c.PrevLogIndex = d.PrevLogIndex /\ c.Entries = d.Entries
      BY <2>1 DEF SameCall, Alike
    <3>. QED
      BY <3>0, <3>1, <3>6, <3>7, <3>8
  <2>. QED
    BY <1>1, <2>1
<1>2. \A l, k, t : KnownChosen(B, l, k, t)' <=> KnownChosen(B, l, k, t)
  BY DEF KnownChosen, Chosen, HasAccepted, TermOf, Begins, SameUpTo
<1>. QED
  BY <1>1, <1>2 DEF CallsFit, Carries

\* Call c is InstallSnapshot call d.
SameInstall(c, d) ==
    /\ c.from = d.from /\ c.to = d.to /\ c.Term = d.Term
    /\ c.LastIncludedIndex = d.LastIncludedIndex /\ c.LastIncludedTerm = d.LastIncludedTerm
    /\ c.Snapshot = d.Snapshot

\* The same for InstallSnapshot calls.
LEMMA SnapshotsFitKept ==
    ASSUME NEW L, NEW A, NEW M, NEW B, SnapshotsFit(L, A), L \subseteq M, A \subseteq B, LeaderLogs(L),
           isCalls \subseteq InstallSnapshotCall, led \subseteq led',
           \A c \in isCalls' :
               \/ \E d \in isCalls : SameInstall(c, d)
               \/ Sent(c)' /\ \E l \in M :
                      /\ l[1] = c.Term
                      /\ Covers(c.Snapshot, c.LastIncludedIndex, c.LastIncludedTerm, l[2])
                      /\ KnownChosen(B, l[2], c.LastIncludedIndex + 1, c.Term)
    PROVE  SnapshotsFit(M, B)'
<1>1. ASSUME NEW c \in isCalls'
      PROVE  Sent(c)' /\ \E l \in M :
                 /\ l[1] = c.Term
                 /\ Covers(c.Snapshot, c.LastIncludedIndex, c.LastIncludedTerm, l[2])
                 /\ KnownChosen(B, l[2], c.LastIncludedIndex + 1, c.Term)
  <2>1. ASSUME NEW d \in isCalls, SameInstall(c, d)
        PROVE  Sent(c)' /\ \E l \in M :
                   /\ l[1] = c.Term
                   /\ Covers(c.Snapshot, c.LastIncludedIndex, c.LastIncludedTerm, l[2])
                   /\ KnownChosen(B, l[2], c.LastIncludedIndex + 1, c.Term)
    <3>0. Sent(c)'
      BY <2>1 DEF SnapshotsFit, Sent, SameInstall
    <3>1. PICK l \in L : /\ l[1] = d.Term
                         /\ Covers(d.Snapshot, d.LastIncludedIndex, d.LastIncludedTerm, l[2])
                         /\ KnownChosen(A, l[2], d.LastIncludedIndex + 1, d.Term)
      BY <2>1 DEF SnapshotsFit
    <3>2. d.LastIncludedIndex + 1 \in Int /\ d.Term \in Int
      BY <2>1 DEF InstallSnapshotCall, LogIndex
    <3>3. l[2] \in Seq(LogEntry)
      BY <3>1 DEF LeaderLogs
    <3>4. d.LastIncludedIndex + 1 > 0 => d.LastIncludedIndex + 1 <= Len(l[2])
      BY <3>1 DEF KnownChosen
    <3>5. SameUpTo(l[2], l[2], d.LastIncludedIndex + 1)
      BY DEF SameUpTo
    <3>6. KnownChosen(B, l[2], d.LastIncludedIndex + 1, d.Term)
      BY <3>1, <3>2, <3>3, <3>4, <3>5, KnownLater
    <3>8. /\ c.LastIncludedIndex = d.LastIncludedIndex /\ c.Term = d.Term
          /\ c.LastIncludedTerm = d.LastIncludedTerm /\ c.Snapshot = d.Snapshot
      BY <2>1 DEF SameInstall
    <3>. QED
      BY <3>0, <3>1, <3>6, <3>8
  <2>. QED
    BY <1>1, <2>1
<1>2. \A l, k, t : KnownChosen(B, l, k, t)' <=> KnownChosen(B, l, k, t)
  BY DEF KnownChosen, Chosen, HasAccepted, TermOf, Begins, SameUpTo
<1>. QED
  BY <1>1, <1>2 DEF SnapshotsFit, Covers

\* A snapshot that was sent is chosen.
LEMMA SnapshotUpTo ==
    ASSUME NEW L, NEW A, SnapshotsFit(L, A), NEW c \in isCalls,
           c.LastIncludedIndex \in Int, c.LastIncludedIndex >= 0
    PROVE  AcceptedUpTo(A, c.to, c.Term, c.LastIncludedIndex)
<1>1. PICK l \in L : KnownChosen(A, l[2], c.LastIncludedIndex + 1, c.Term)
  BY DEF SnapshotsFit
<1>2. c.LastIncludedIndex + 1 > 0
  OBVIOUS
<1>3. PICK x \in Filled : Chosen(A, x) /\ TermOf(x) <= c.Term /\ c.LastIncludedIndex + 1 <= Len(x)
  BY <1>1, <1>2 DEF KnownChosen
<1>4. c.LastIncludedIndex < Len(x)
  <2>1. Len(x) \in Nat
    BY DEF Filled
  <2>. QED
    BY <1>3, <2>1
<1>. QED
  BY <1>3, <1>4 DEF AcceptedUpTo

-----------------------------------------------------------------------------
(* Steps that change no log *)

\* Nobody becomes leader, no log changes, and no commitIndex goes back behind
\* the snapshot.
LogsStay ==
    \A p \in Server :
        /\ LogKept(rf[p], rf'[p])
        /\ \/ rf[p].commitIndex <= rf'[p].commitIndex
           \/ rf'[p].commitIndex = rf'[p].snapshotIndex
        /\ rf'[p].role = "leader" => rf[p].role = "leader" /\ rf'[p].currentTerm = rf[p].currentTerm

\* Then the whole logs stay, too.
LEMMA WholeLogsStay ==
    ASSUME RaftInv, RaftInv', LogsStay, NEW W, WholeLogs(W)
    PROVE  WholeLogs(W)'
<1>1. ASSUME NEW p \in Server PROVE Whole(rf'[p], W[p])
  <2>1. Whole(rf[p], W[p]) /\ LogKept(rf[p], rf'[p])
    BY DEF WholeLogs, LogsStay
  <2>2. /\ rf[p].snapshotIndex \in Int /\ rf[p].commitIndex \in Int
        /\ rf'[p].snapshotIndex \in Int /\ rf'[p].commitIndex \in Int
    <3>1. rf[p] \in RaftState /\ rf'[p] \in RaftState
      BY PeerIn, PeerInNext
    <3>2. \A g \in RaftState : g.snapshotIndex \in Int /\ g.commitIndex \in Int
      BY DEF RaftState, LogIndex
    <3>. QED
      BY <3>1, <3>2
  <2>3. rf'[p].snapshotIndex <= rf'[p].commitIndex
    <3>1. \/ rf[p].commitIndex <= rf'[p].commitIndex
          \/ rf'[p].commitIndex = rf'[p].snapshotIndex
      BY DEF LogsStay
    <3>2. rf[p].snapshotIndex <= rf[p].commitIndex /\ rf'[p].snapshotIndex = rf[p].snapshotIndex
      BY <2>1 DEF Whole, LogKept
    <3>. QED
      BY <2>2, <3>1, <3>2
  <2>. QED
    BY <2>1, <2>3 DEF Whole, LogKept
<1>. QED
  BY <1>1 DEF WholeLogs, Whole, Follows, Covers

\* A step that changes no log keeps the chronicle if it keeps what is said of
\* votes, counts, replies, commits and calls.
LEMMA LogsStayChronicle ==
    ASSUME RaftInv, RaftInv', TermsGrow, led' = led, LogsStay, NEW L, NEW A, NEW W,
           Chronicle(L, A, W), VotesCarry(A, W)', MatchAccepted(A)', RepliesAccepted(A)',
           CommitsChosen(A, W)', CallsFit(L, A)', SnapshotsFit(L, A)'
    PROVE  Chronicle(L, A, W)'
<1>0. /\ LeaderLogs(L) /\ WholeLogs(W) /\ LeadersHaveTheirs(L, W) /\ LogsRooted(L, W)
      /\ AcceptedFits(L, A) /\ AcceptedStays(A, W) /\ LaterLeadersHave(L, A)
      /\ W \in [Server -> Seq(LogEntry)]
  BY DEF Chronicle, WholeLogs
<1>1. Grows(A, A)
  BY DEF Grows
<1>2. LeaderLogs(L)'
  BY <1>0, LeaderLogsKept
<1>3. LeadersHaveTheirs(L, W)'
  BY <1>0, TheirsKept DEF LogsStay
<1>4. LogsRooted(L, W)'
  BY <1>0, LogsRootedKept
<1>5. AcceptedFits(L, A)'
  <2>1. A \subseteq Server \X Nat \X Seq(LogEntry)
    BY <1>0 DEF AcceptedFits
  <2>. QED
    BY <1>0, <2>1, FitsKept
<1>6. AcceptedStays(A, W)'
  BY <1>0, <1>1, StaysKept
<1>7. LaterLeadersHave(L, A)'
  BY <1>0, <1>1, LaterKept
<1>8. WholeLogs(W)'
  BY <1>0, WholeLogsStay
<1>. QED
  BY <1>2, <1>3, <1>4, <1>5, <1>6, <1>7, <1>8 DEF Chronicle

\* commitIndex does not grow.
CommitsStay == \A p \in Server : rf'[p].commitIndex <= rf[p].commitIndex

\* Leaders count nothing new.
MatchesStay ==
    \A p, q \in Server : rf'[p].role = "leader" /\ rf'[p].matchIndex[q] >= 0 =>
        rf'[p].matchIndex[q] = rf[p].matchIndex[q]

\* AppendEntries calls are dropped, orphaned or refused.
CallsStay ==
    \A c \in aeCalls' : \E d \in aeCalls :
        SameCall(c, d) /\ (c.done /\ c.reply.Success => d.done /\ d.reply.Success)

\* InstallSnapshot calls are dropped, orphaned or answered.
InstallsStay == \A c \in isCalls' : \E d \in isCalls : SameInstall(c, d)

\* Candidates stay as they are or step down, and nobody votes.
VotesStay ==
    /\ granted' = granted
    /\ \A p \in Server : rf'[p].role = "candidate" =>
           rf[p].role = "candidate" /\ rf'[p].currentTerm = rf[p].currentTerm

\* Then what votes carry stays,
LEMMA VotesStayCarry ==
    ASSUME RaftInv, RaftInv', TermsGrow, led' = led, NEW A, NEW W, VotesCarry(A, W), VotesStay
    PROVE  VotesCarry(A, W)'
<1>1. Grows(A, A)
  BY DEF Grows
<1>2. \A p \in Server : rf'[p].role = "candidate" =>
          rf[p].role = "candidate" /\ rf'[p].currentTerm = rf[p].currentTerm /\ W[p] = W[p]
  BY DEF VotesStay
<1>3. granted' = granted /\ led \subseteq led'
  BY DEF VotesStay
<1>. QED
  BY <1>1, <1>2, <1>3, VotesCarryKept

\* what leaders count stays accepted,
LEMMA MatchesStayAccepted ==
    ASSUME LogsStay, MatchesStay, NEW A, MatchAccepted(A)
    PROVE  MatchAccepted(A)'
BY MatchKept DEF MatchesStay, LogsStay

\* what is committed stays chosen,
LEMMA CommitsStayChosen ==
    ASSUME RaftInv, RaftInv', TermsGrow, CommitsStay, NEW A, NEW W, WholeLogs(W), CommitsChosen(A, W)
    PROVE  CommitsChosen(A, W)'
<1>1. \A p \in Server : SameUpTo(W[p], W[p], rf'[p].commitIndex + 1)
  BY DEF SameUpTo
<1>2. \A p \in Server : rf'[p].commitIndex <= rf[p].commitIndex
  BY DEF CommitsStay
<1>3. W \in [Server -> Seq(LogEntry)]
  BY DEF WholeLogs
<1>. QED
  BY <1>1, <1>2, <1>3, CommitsKept

\* and the calls still fit.
LEMMA CallsStayFit ==
    ASSUME RaftInv, CallsStay, led \subseteq led', NEW L, NEW A, LeaderLogs(L), CallsFit(L, A),
           RepliesAccepted(A)
    PROVE  CallsFit(L, A)' /\ RepliesAccepted(A)'
<1>1. aeCalls \subseteq AppendEntriesCall
  BY DEF RaftInv, CallInv
<1>2. CallsFit(L, A)'
  BY <1>1, CallsFitKept DEF CallsStay
<1>3. RepliesAccepted(A)'
  BY RepliesKept DEF CallsStay, SameCall
<1>. QED
  BY <1>2, <1>3

\* The same for InstallSnapshot calls.
LEMMA InstallsStayFit ==
    ASSUME RaftInv, InstallsStay, led \subseteq led', NEW L, NEW A, LeaderLogs(L), SnapshotsFit(L, A)
    PROVE  SnapshotsFit(L, A)'
<1>1. isCalls \subseteq InstallSnapshotCall
  BY DEF RaftInv, CallInv
<1>. QED
  BY <1>1, SnapshotsFitKept DEF InstallsStay

\* A step that leaves logs, commits and calls alone, and whose votes are
\* carried.
LEMMA BallotChronicle ==
    ASSUME RaftInv, RaftInv', TermsGrow, led' = led, LogsStay, MatchesStay, CommitsStay,
           CallsStay, InstallsStay, NEW L, NEW A, NEW W, Chronicle(L, A, W), VotesCarry(A, W)'
    PROVE  Chronicle(L, A, W)'
<1>0. /\ LeaderLogs(L) /\ WholeLogs(W) /\ MatchAccepted(A) /\ RepliesAccepted(A)
      /\ CommitsChosen(A, W) /\ CallsFit(L, A) /\ SnapshotsFit(L, A)
  BY DEF Chronicle
<1>1. MatchAccepted(A)' /\ CommitsChosen(A, W)'
  BY <1>0, MatchesStayAccepted, CommitsStayChosen
<1>2. CallsFit(L, A)' /\ RepliesAccepted(A)'
  BY <1>0, CallsStayFit
<1>3. SnapshotsFit(L, A)'
  BY <1>0, InstallsStayFit
<1>. QED
  BY <1>1, <1>2, <1>3, LogsStayChronicle

\* A step that leaves the votes alone as well.
LEMMA QuietChronicle ==
    ASSUME RaftInv, RaftInv', TermsGrow, led' = led, LogsStay, VotesStay, MatchesStay, CommitsStay,
           CallsStay, InstallsStay, NEW L, NEW A, NEW W, Chronicle(L, A, W)
    PROVE  Chronicle(L, A, W)'
<1>1. VotesCarry(A, W)
  BY DEF Chronicle
<1>2. VotesCarry(A, W)'
  BY <1>1, VotesStayCarry
<1>. QED
  BY <1>2, BallotChronicle

-----------------------------------------------------------------------------
(* What else a step leaves alone *)

\* From g to h log and snapshot stay, and so does the role or h follows.
Stays(g, h) ==
    /\ LogKept(g, h)
    /\ h.role # "follower" => h.role = g.role /\ h.currentTerm = g.currentTerm
    /\ g.commitIndex <= h.commitIndex \/ h.commitIndex = h.snapshotIndex

\* RequestVote calls are answered, dropped or orphaned.
AsksStay ==
    \A c \in rvCalls' : \E d \in rvCalls :
        /\ c.from = d.from /\ c.Term = d.Term
        /\ c.LastLogIndex = d.LastLogIndex /\ c.LastLogTerm = d.LastLogTerm

\* A peer that stays in this sense keeps the logs, the candidates and what
\* they ask with.
LEMMA StaysKeeps ==
    ASSUME RaftInv, NEW s \in Server, NEW g, rf' = [rf EXCEPT ![s] = g], Stays(rf[s], g), led' = led
    PROVE  /\ LogsStay
           /\ \A p \in Server : rf'[p].role = "candidate" =>
                  rf[p].role = "candidate" /\ rf'[p].currentTerm = rf[p].currentTerm
           /\ CallsAsk /\ AsksStay => CallsAsk'
<1>1. \A p \in Server : Stays(rf[p], rf'[p])
  <2>1. \A p \in Server : rf'[p] = IF p = s THEN g ELSE rf[p]
    BY DEF RaftInv, NodeInv
  <2>2. \A p \in Server : Stays(rf[p], rf[p])
    BY PeerIn DEF Stays, LogKept
  <2>. QED
    BY <2>1, <2>2
<1>2. \A p \in Server : rf'[p].role = "candidate" =>
          rf[p].role = "candidate" /\ rf'[p].currentTerm = rf[p].currentTerm
  BY <1>1 DEF Stays
<1>3. LogsStay
  BY <1>1 DEF Stays, LogsStay
<1>5. ASSUME CallsAsk, AsksStay, NEW c \in rvCalls', rf'[c.from].role = "candidate",
             rf'[c.from].currentTerm = c.Term, ~Led(c.Term)'
      PROVE  c.LastLogIndex = LastIndex(rf'[c.from]) /\ c.LastLogTerm = LastTerm(rf'[c.from])
  <2>1. PICK d \in rvCalls : /\ c.from = d.from /\ c.Term = d.Term
                             /\ c.LastLogIndex = d.LastLogIndex /\ c.LastLogTerm = d.LastLogTerm
    BY <1>5 DEF AsksStay
  <2>2. d.from \in Server
    BY DEF RaftInv, CallInv, RequestVoteCall
  <2>3. Stays(rf[d.from], rf'[d.from])
    BY <1>1, <2>2
  <2>4. rf[d.from].role = "candidate" /\ rf'[d.from].currentTerm = rf[d.from].currentTerm
    BY <1>2, <1>5, <2>1, <2>2
  <2>7. ~Led(d.Term)
    BY <1>5, <2>1 DEF Led
  <2>5. d.LastLogIndex = LastIndex(rf[d.from]) /\ d.LastLogTerm = LastTerm(rf[d.from])
    BY <1>5, <2>1, <2>4, <2>7 DEF CallsAsk
  <2>6. LastIndex(rf'[d.from]) = LastIndex(rf[d.from]) /\ LastTerm(rf'[d.from]) = LastTerm(rf[d.from])
    BY <2>3 DEF Stays, LogKept, LastIndex, LastTerm
  <2>. QED
    BY <2>1, <2>5, <2>6
<1>6. CallsAsk /\ AsksStay => CallsAsk'
  BY <1>5 DEF CallsAsk, LastIndex, LastTerm
<1>. QED
  BY <1>2, <1>3, <1>6

\* A term that was won is one its winner's disk has seen.
LEMMA WonTerm ==
    ASSUME RaftInv, TallyInv, NEW p \in Server, NEW t \in Nat, <<p, t>> \in won
    PROVE  t <= disk[p].currentTerm
<1>1. IsQuorum(Cardinality(Voters(p, t))) /\ Voters(p, t) \in SUBSET Server
  <2>1. \A w \in won : IsQuorum(Cardinality(Voters(w[1], w[2])))
    BY DEF TallyInv, WonByQuorum
  <2>2. <<p, t>>[1] = p /\ <<p, t>>[2] = t
    OBVIOUS
  <2>3. IsQuorum(Cardinality(Voters(p, t)))
    BY <2>1, <2>2
  <2>. QED
    BY <2>3 DEF Voters
<1>2. PICK q \in Server : q \in Voters(p, t)
  BY <1>1, MajoritiesMeet
<1>3. <<q, t, p>> \in granted
  BY <1>2 DEF Voters
<1>4. \A v \in granted : v[2] <= disk[v[3]].currentTerm
  BY DEF TallyInv, NoFutureTerm
<1>5. <<q, t, p>>[2] <= disk[<<q, t, p>>[3]].currentTerm
  BY <1>3, <1>4
<1>. QED
  BY <1>5

\* In a clean history a term has one winner.
LEMMA OneWinner ==
    ASSUME TallyInv, CleanHistory, NEW p \in Server, NEW q \in Server, NEW t,
           <<p, t>> \in won, <<q, t>> \in won
    PROVE  p = q
<1>1. \A w \in won : IsQuorum(Cardinality(Voters(w[1], w[2])))
  BY DEF TallyInv, WonByQuorum
<1>2. IsQuorum(Cardinality(Voters(p, t))) /\ IsQuorum(Cardinality(Voters(q, t)))
  <2>1. <<p, t>>[1] = p /\ <<p, t>>[2] = t /\ <<q, t>>[1] = q /\ <<q, t>>[2] = t
    OBVIOUS
  <2>. QED
    BY <1>1, <2>1
<1>3. Voters(p, t) \in SUBSET Server /\ Voters(q, t) \in SUBSET Server
  BY DEF Voters
<1>4. PICK x \in Server : x \in Voters(p, t) /\ x \in Voters(q, t)
  BY <1>2, <1>3, MajoritiesMeet
<1>5. <<x, t, p>> \in granted /\ <<x, t, q>> \in granted
  BY <1>4 DEF Voters
<1>6. <<x, t, p>>[3] = <<x, t, q>>[3]
  <2>1. \A v, w \in granted : v[1] = w[1] /\ v[2] = w[2] => v[3] = w[3]
    BY DEF CleanHistory
  <2>2. /\ <<x, t, p>>[1] = <<x, t, q>>[1] /\ <<x, t, p>>[2] = <<x, t, q>>[2]
    OBVIOUS
  <2>. QED
    BY <1>5, <2>1, <2>2
<1>. QED
  BY <1>6

(***************************************************************************)
(* One server changes.  If it follows in a term it won, it did so before   *)
(* or was restarted.                                                       *)
(***************************************************************************)
LEMMA LeftoversKept ==
    ASSUME RaftInv, NoLeftovers, NEW s \in Server, NEW g, rf' = [rf EXCEPT ![s] = g],
           \A p \in Server \ {s} : goroutines'[p] = goroutines[p],
           \A p \in Server \ {s} : <<p, rf[p].currentTerm>> \in won' => <<p, rf[p].currentTerm>> \in won,
           g.role = "follower" /\ <<s, g.currentTerm>> \in won' =>
               \/ \A q \in Point : goroutines'[s][q] = 0
               \/ /\ rf[s].role = "follower" /\ g.currentTerm = rf[s].currentTerm
                  /\ <<s, rf[s].currentTerm>> \in won
                  /\ goroutines'[s] = goroutines[s] \/ \E q \in Point : goroutines[s][q] # 0
    PROVE  NoLeftovers'
<1>1. ASSUME NEW p \in Server, <<p, rf'[p].currentTerm>> \in won', rf'[p].role = "follower"
      PROVE  \A q \in Point : goroutines'[p][q] = 0
  <2>1. CASE p = s
    <3>1. rf'[s] = g
      BY DEF RaftInv, NodeInv
    <3>2. g.role = "follower" /\ <<s, g.currentTerm>> \in won'
      BY <1>1, <2>1, <3>1
    <3>. QED
      BY <2>1, <3>2 DEF NoLeftovers
  <2>2. CASE p # s
    <3>1. rf'[p] = rf[p] /\ goroutines'[p] = goroutines[p]
      BY <2>2 DEF RaftInv, NodeInv
    <3>. QED
      BY <1>1, <2>2, <3>1 DEF NoLeftovers
  <2>. QED
    BY <2>1, <2>2
<1>. QED
  BY <1>1 DEF NoLeftovers

\* Services and commit indices stay.
LEMMA AppliedKept ==
    ASSUME NEW W, AppliedIsCommitted(W), service' = service,
           \A p \in Server : rf'[p].commitIndex = rf[p].commitIndex
    PROVE  AppliedIsCommitted(W)'
BY DEF AppliedIsCommitted, Applied

-----------------------------------------------------------------------------
(* Steps that neither vote, count, commit, send nor change a log *)

\* Such a step keeps the whole invariant.
LEMMA QuietKeepsCommit ==
    ASSUME RaftInv, RaftInv', CommitInv, CleanHistory, NEW s \in Server, NEW g \in RaftState,
           rf' = [rf EXCEPT ![s] = g], Stays(rf[s], g), g.commitIndex = rf[s].commitIndex,
           \A q \in Server : g.role = "leader" /\ g.matchIndex[q] >= 0 =>
               g.matchIndex[q] = rf[s].matchIndex[q],
           service' = service, TermsGrow, led' = led, granted' = granted,
           AsksStay, CallsStay, InstallsStay, NoLeftovers'
    PROVE  CommitInv'
<1>1. PICK L, A, W : Chronicle(L, A, W) /\ AppliedIsCommitted(W)
  BY DEF CommitInv
<1>2. CallsAsk
  BY DEF CommitInv
<1>3. /\ LogsStay /\ CallsAsk'
      /\ \A p \in Server : rf'[p].role = "candidate" =>
             rf[p].role = "candidate" /\ rf'[p].currentTerm = rf[p].currentTerm
  BY <1>2, StaysKeeps
<1>4. \A p \in Server : rf'[p] = IF p = s THEN g ELSE rf[p]
  BY DEF RaftInv, NodeInv
<1>5. \A p \in Server : rf'[p].commitIndex = rf[p].commitIndex
  BY <1>4
<1>6. AppliedIsCommitted(W)'
  BY <1>1, <1>5, AppliedKept
<1>7. CommitsStay
  BY <1>5, PeerIn DEF CommitsStay
<1>8. MatchesStay
  BY <1>4 DEF MatchesStay
<1>9. VotesStay
  BY <1>3 DEF VotesStay
<1>10. Chronicle(L, A, W)'
  BY <1>1, <1>3, <1>7, <1>8, <1>9, QuietChronicle
<1>. QED
  BY <1>3, <1>6, <1>10 DEF CommitInv

\* What has become of the calls that were answered, dropped or orphaned.
LEMMA AnsweredStay ==
    ASSUME RaftInv
    PROVE  /\ \A c \in rvCalls : \A r : rvCalls' = Answered(rvCalls, c, r) => AsksStay
           /\ rvCalls' \subseteq rvCalls => AsksStay
           /\ \A s : rvCalls' = Orphaned(rvCalls, s) => AsksStay
           /\ \A c \in aeCalls : \A r : aeCalls' = Answered(aeCalls, c, r) /\ ~r.Success => CallsStay
           /\ aeCalls' \subseteq aeCalls => CallsStay
           /\ \A s : aeCalls' = Orphaned(aeCalls, s) => CallsStay
           /\ \A c \in isCalls : \A r : isCalls' = Answered(isCalls, c, r) => InstallsStay
           /\ isCalls' \subseteq isCalls => InstallsStay
           /\ \A s : isCalls' = Orphaned(isCalls, s) => InstallsStay
<1>1. /\ rvCalls \subseteq RequestVoteCall /\ aeCalls \subseteq AppendEntriesCall
      /\ isCalls \subseteq InstallSnapshotCall
  BY DEF RaftInv, CallInv
<1>2. ASSUME NEW c \in rvCalls, NEW r, rvCalls' = Answered(rvCalls, c, r) PROVE AsksStay
  <2>. DEFINE a == [c EXCEPT !.done = TRUE, !.reply = r]
  <2>1. /\ a.from = c.from /\ a.Term = c.Term
        /\ a.LastLogIndex = c.LastLogIndex /\ a.LastLogTerm = c.LastLogTerm
    BY <1>1 DEF RequestVoteCall
  <2>2. \A d \in rvCalls' : d \in rvCalls \/ d = a
    BY <1>2 DEF Answered
  <2>. HIDE DEF a
  <2>. QED
    BY <2>1, <2>2 DEF AsksStay
<1>3. ASSUME rvCalls' \subseteq rvCalls PROVE AsksStay
  BY <1>3 DEF AsksStay
<1>4. ASSUME NEW s, rvCalls' = Orphaned(rvCalls, s) PROVE AsksStay
  <2>. DEFINE Orphan(d) == [d EXCEPT !.live = FALSE]
  <2>1. \A d \in rvCalls : /\ Orphan(d).from = d.from /\ Orphan(d).Term = d.Term
                           /\ Orphan(d).LastLogIndex = d.LastLogIndex
                           /\ Orphan(d).LastLogTerm = d.LastLogTerm
    BY <1>1 DEF RequestVoteCall
  <2>2. \A c \in rvCalls' : c \in rvCalls \/ \E d \in rvCalls : c = Orphan(d)
    BY <1>4 DEF Orphaned
  <2>. HIDE DEF Orphan
  <2>. QED
    BY <2>1, <2>2 DEF AsksStay
<1>5. ASSUME NEW c \in aeCalls, NEW r, aeCalls' = Answered(aeCalls, c, r), ~r.Success PROVE CallsStay
  <2>. DEFINE a == [c EXCEPT !.done = TRUE, !.reply = r]
  <2>1. SameCall(a, c) /\ ~a.reply.Success
    BY <1>1, <1>5 DEF AppendEntriesCall, SameCall, Alike
  <2>2. \A d \in aeCalls' : d \in aeCalls \/ d = a
    BY <1>5 DEF Answered
  <2>3. \A d \in aeCalls : SameCall(d, d)
    BY DEF SameCall, Alike
  <2>. HIDE DEF a
  <2>. QED
    BY <2>1, <2>2, <2>3 DEF CallsStay
<1>6. ASSUME aeCalls' \subseteq aeCalls PROVE CallsStay
  BY <1>6 DEF CallsStay, SameCall, Alike
<1>7. ASSUME NEW s, aeCalls' = Orphaned(aeCalls, s) PROVE CallsStay
  <2>. DEFINE Orphan(d) == [d EXCEPT !.live = FALSE]
  <2>1. \A d \in aeCalls : /\ SameCall(Orphan(d), d)
                           /\ Orphan(d).done = d.done /\ Orphan(d).reply = d.reply
    BY <1>1 DEF AppendEntriesCall, SameCall, Alike
  <2>2. \A c \in aeCalls' : c \in aeCalls \/ \E d \in aeCalls : c = Orphan(d)
    BY <1>7 DEF Orphaned
  <2>3. \A d \in aeCalls : SameCall(d, d)
    BY DEF SameCall, Alike
  <2>. HIDE DEF Orphan
  <2>. QED
    BY <2>1, <2>2, <2>3 DEF CallsStay
<1>8. ASSUME isCalls' \subseteq isCalls PROVE InstallsStay
  BY <1>8 DEF InstallsStay, SameInstall
<1>9. ASSUME NEW s, isCalls' = Orphaned(isCalls, s) PROVE InstallsStay
  <2>. DEFINE Orphan(d) == [d EXCEPT !.live = FALSE]
  <2>1. \A d \in isCalls : SameInstall(Orphan(d), d)
    BY <1>1 DEF InstallSnapshotCall, SameInstall
  <2>2. \A c \in isCalls' : c \in isCalls \/ \E d \in isCalls : c = Orphan(d)
    BY <1>9 DEF Orphaned
  <2>3. \A d \in isCalls : SameInstall(d, d)
    BY DEF SameInstall
  <2>. HIDE DEF Orphan
  <2>. QED
    BY <2>1, <2>2, <2>3 DEF InstallsStay
<1>10. ASSUME NEW c \in isCalls, NEW r, isCalls' = Answered(isCalls, c, r) PROVE InstallsStay
  <2>. DEFINE a == [c EXCEPT !.done = TRUE, !.reply = r]
  <2>1. SameInstall(a, c)
    BY <1>1 DEF InstallSnapshotCall, SameInstall
  <2>2. \A d \in isCalls' : d \in isCalls \/ d = a
    BY <1>10 DEF Answered
  <2>3. \A d \in isCalls : SameInstall(d, d)
    BY DEF SameInstall
  <2>. HIDE DEF a
  <2>. QED
    BY <2>1, <2>2, <2>3 DEF InstallsStay
<1>. QED
  BY <1>2, <1>3, <1>4, <1>5, <1>6, <1>7, <1>8, <1>9, <1>10

\* Whoever steps down for a larger term follows in one it has not won.
LEMMA SteppedDown ==
    ASSUME RaftInv, TallyInv, NEW s \in Server, NEW t \in Nat, rf[s].currentTerm < t
    PROVE  <<s, t>> \notin won
<1>1. rf[s].currentTerm \in Nat /\ disk[s].currentTerm \in Nat /\ disk[s].currentTerm <= rf[s].currentTerm
  BY PeerIn
<1>. QED
  BY <1>1, WonTerm

\* From g to h the role stays, or h follows in a larger term.
KeepsRole(g, h) ==
    \/ h.role = g.role /\ h.currentTerm = g.currentTerm
    \/ h.role = "follower" /\ g.currentTerm < h.currentTerm

\* A handler that persists and has nothing to say about log or elections.
LEMMA HandlerKeepsCommit ==
    ASSUME RaftInv, RaftInv', TallyInv, CommitInv, CleanHistory, NEW s \in Server, NEW g \in RaftState,
           rf' = [rf EXCEPT ![s] = g], disk' = [disk EXCEPT ![s] = Persistent(g)],
           LogKept(rf[s], g), g.commitIndex = rf[s].commitIndex, KeepsRole(rf[s], g),
           \A q \in Server : g.role = "leader" /\ g.matchIndex[q] >= 0 =>
               g.matchIndex[q] = rf[s].matchIndex[q],
           service' = service, led' = led, granted' = granted, won' = won,
           goroutines' = goroutines, AsksStay, CallsStay, InstallsStay
    PROVE  CommitInv'
<1>1. rf[s].currentTerm \in Nat /\ g.currentTerm \in Nat
  BY PeerIn DEF RaftState
<1>2. rf[s].currentTerm <= g.currentTerm
  BY <1>1 DEF KeepsRole
<1>3. TermsGrow
  BY <1>2, SavedTermsGrow
<1>4. Stays(rf[s], g)
  BY PeerIn DEF Stays, KeepsRole
<1>5. NoLeftovers
  BY DEF CommitInv
<1>6. NoLeftovers'
  <2>1. g.role = "follower" /\ <<s, g.currentTerm>> \in won' =>
            /\ rf[s].role = "follower" /\ g.currentTerm = rf[s].currentTerm
            /\ <<s, rf[s].currentTerm>> \in won /\ goroutines'[s] = goroutines[s]
    BY <1>1, SteppedDown DEF KeepsRole
  <2>. QED
    BY <1>5, <2>1, LeftoversKept
<1>. QED
  BY <1>3, <1>4, <1>6, QuietKeepsCommit

\* toFollower and Observe, as far as elections go.
LEMMA ObserveKeepsRole ==
    ASSUME NEW g \in RaftState, NEW t \in Nat
    PROVE  /\ g.currentTerm < t => KeepsRole(g, ToFollower(g, t))
           /\ KeepsRole(g, Observe(g, t))
           /\ ToFollower(g, t).commitIndex = g.commitIndex
           /\ Observe(g, t).commitIndex = g.commitIndex
           /\ ToFollower(g, t).role = "follower"
           /\ Observe(g, t).matchIndex = g.matchIndex
           /\ Observe(g, t).role = "leader" => Observe(g, t) = g
<1>1. /\ ToFollower(g, t).role = "follower" /\ ToFollower(g, t).commitIndex = g.commitIndex
      /\ g.currentTerm < t => ToFollower(g, t).currentTerm = t
      /\ ToFollower(g, t).matchIndex = g.matchIndex
  BY DEF ToFollower, RaftState
<1>2. g.currentTerm < t => KeepsRole(g, ToFollower(g, t))
  BY <1>1 DEF KeepsRole
<1>3. KeepsRole(g, g)
  BY DEF KeepsRole
<1>4. CASE g.currentTerm < t
  <2>1. Observe(g, t) = ToFollower(g, t)
    BY <1>4 DEF Observe
  <2>. QED
    BY <1>1, <1>2, <1>4, <2>1
<1>5. CASE ~(g.currentTerm < t)
  <2>1. Observe(g, t) = g
    BY <1>5 DEF Observe
  <2>. QED
    BY <1>1, <1>3, <1>5, <2>1
<1>. QED
  BY <1>4, <1>5

\* InstallSnapshot while there is no snapshot.

\* The reply to a vote: nothing is persisted, and a winner is a candidate.
LEMMA VoteReplyKeepsCommit ==
    ASSUME RaftInv, RaftInv', TallyInv, CommitInv, CleanHistory, NEW c \in rvCalls,
           RequestVoteResponseHandler(c)
    PROVE  CommitInv'
<1>. DEFINE s == c.from
            g == AfterVoteReply(rf[s], c, c.reply)
<1>1. s \in Server /\ c.reply.Term \in Nat /\ rf[s] \in RaftState /\ rf[s].currentTerm \in Nat
  <2>1. c \in RequestVoteCall
    BY DEF RaftInv, CallInv
  <2>2. s \in Server /\ c.reply.Term \in Nat
    BY <2>1 DEF RequestVoteCall
  <2>. QED
    BY <2>2, PeerIn
<1>2. g \in RaftState /\ LogKept(rf[s], g)
  BY <1>1, AfterVoteReplyIn
<1>3. /\ rf' = [rf EXCEPT ![s] = g] /\ disk' = disk /\ aeCalls' = aeCalls /\ rvCalls' \subseteq rvCalls
      /\ isCalls' = isCalls
      /\ led' = led /\ granted' = granted /\ service' = service
      /\ won' = won \cup (IF WinsWith(rf[s], g) THEN {<<s, g.currentTerm>>} ELSE {})
      /\ goroutines' = IF WinsWith(rf[s], g) THEN [goroutines EXCEPT ![s]["toLeader"] = @ + 1]
                                             ELSE goroutines
  BY DEF RequestVoteResponseHandler
<1>4. /\ g.commitIndex = rf[s].commitIndex /\ KeepsRole(rf[s], g)
      /\ g.role = "leader" => g.matchIndex = rf[s].matchIndex
      /\ WinsWith(rf[s], g) => g.role = "candidate"
  <2>. DEFINE a == rf[s]
              h == [a EXCEPT !.voteCnt = @ + 1]
  <2>0. a \in RaftState
    BY <1>1
  <2>. HIDE DEF a
  <2>1. CASE g = a
    <3>1. ~WinsWith(a, a)
      BY <2>0 DEF WinsWith, RaftState
    <3>. HIDE DEF g
    <3>. QED
      BY <2>1, <3>1 DEF KeepsRole, a
  <2>2. CASE a.currentTerm < c.reply.Term /\ g = ToFollower(a, c.reply.Term)
    <3>1. /\ KeepsRole(a, ToFollower(a, c.reply.Term)) /\ ToFollower(a, c.reply.Term).role = "follower"
          /\ ToFollower(a, c.reply.Term).commitIndex = a.commitIndex
      BY <1>1, <2>0, <2>2, ObserveKeepsRole
    <3>2. ToFollower(a, c.reply.Term).voteCnt = a.voteCnt /\ ~(a.voteCnt > a.voteCnt)
      BY <2>0 DEF ToFollower, RaftState
    <3>. HIDE DEF g
    <3>. QED
      BY <2>2, <3>1, <3>2 DEF WinsWith, a
  <2>3. CASE a.role = "candidate" /\ g = h
    <3>1. /\ h.role = a.role /\ h.currentTerm = a.currentTerm /\ h.commitIndex = a.commitIndex
          /\ h.matchIndex = a.matchIndex
      BY <2>0 DEF RaftState
    <3>. HIDE DEF g, h
    <3>. QED
      BY <2>3, <3>1 DEF KeepsRole, a
  <2>4. \/ g = a \/ (a.currentTerm < c.reply.Term /\ g = ToFollower(a, c.reply.Term))
        \/ a.role = "candidate" /\ g = h
    BY DEF AfterVoteReply, CountsReply, a
  <2>. QED
    BY <2>1, <2>2, <2>3, <2>4
<1>. HIDE DEF g
<1>5. NoLeftovers'
  <2>1. NoLeftovers
    BY DEF CommitInv
  <2>2. \A p \in Server \ {s} : goroutines'[p] = goroutines[p]
    BY <1>1, <1>3 DEF RaftInv, RestInv
  <2>3. \A p \in Server \ {s} : <<p, rf[p].currentTerm>> \in won' => <<p, rf[p].currentTerm>> \in won
    BY <1>3
  <2>4. g.role = "follower" /\ <<s, g.currentTerm>> \in won' =>
            /\ rf[s].role = "follower" /\ g.currentTerm = rf[s].currentTerm
            /\ <<s, rf[s].currentTerm>> \in won /\ goroutines'[s] = goroutines[s]
    <3>. SUFFICES ASSUME g.role = "follower", <<s, g.currentTerm>> \in won'
                  PROVE  /\ rf[s].role = "follower" /\ g.currentTerm = rf[s].currentTerm
                         /\ <<s, rf[s].currentTerm>> \in won /\ goroutines'[s] = goroutines[s]
      OBVIOUS
    <3>1. ~WinsWith(rf[s], g)
      BY <1>4
    <3>2. won' = won /\ goroutines' = goroutines
      BY <1>3, <3>1
    <3>3. ~(rf[s].currentTerm < g.currentTerm)
      BY <1>1, <1>2, <3>2, SteppedDown DEF RaftState
    <3>. QED
      BY <1>4, <3>2, <3>3 DEF KeepsRole
  <2>. QED
    BY <1>1, <1>3, <2>1, <2>2, <2>3, <2>4, LeftoversKept
<1>6. Stays(rf[s], g)
  BY <1>1, <1>2, <1>4, PeerIn DEF Stays, KeepsRole
<1>7. TermsGrow
  BY <1>3, PeerIn DEF TermsGrow
<1>8. AsksStay /\ CallsStay /\ InstallsStay
  BY <1>3, AnsweredStay
<1>9. \A q \in Server : g.role = "leader" /\ g.matchIndex[q] >= 0 => g.matchIndex[q] = rf[s].matchIndex[q]
  BY <1>4
<1>. QED
  BY <1>1, <1>2, <1>3, <1>4, <1>5, <1>6, <1>7, <1>8, <1>9, QuietKeepsCommit

\* A goroutine of a server that follows in its term is not a winner's.
LEMMA MovedKeepsLeftovers ==
    ASSUME RaftInv, NoLeftovers, NEW s \in Server, NEW g, rf' = [rf EXCEPT ![s] = g], won' = won,
           g.role = rf[s].role, g.currentTerm = rf[s].currentTerm,
           \A p \in Server \ {s} : goroutines'[p] = goroutines[p],
           \E q \in Point : goroutines[s][q] # 0
    PROVE  NoLeftovers'
BY LeftoversKept

\* The role check of leaderTicker.
LEMMA TickerCheckKeepsCommit ==
    ASSUME RaftInv, RaftInv', CommitInv, CleanHistory, NEW s \in Server, LeaderTickerCheck(s)
    PROVE  CommitInv'
<1>1. /\ rf' = rf /\ disk' = disk /\ service' = service /\ UNCHANGED calls /\ UNCHANGED history
      /\ Move(s, "check", "commit") \/ Exit(s, "check")
      /\ goroutines[s]["check"] > 0
  BY DEF LeaderTickerCheck, node, At
<1>2. rf' = [rf EXCEPT ![s] = rf[s]] /\ rf[s] \in RaftState
  BY <1>1 DEF RaftInv, NodeInv
<1>3. \A p \in Server \ {s} : goroutines'[p] = goroutines[p]
  BY <1>1 DEF Move, Exit, RaftInv, RestInv
<1>4. NoLeftovers'
  <2>1. goroutines[s]["check"] # 0 /\ "check" \in Point
    BY <1>1 DEF Point
  <2>2. NoLeftovers /\ won' = won
    BY <1>1 DEF CommitInv, history
  <2>. QED
    BY <1>2, <1>3, <2>1, <2>2, MovedKeepsLeftovers
<1>5. Stays(rf[s], rf[s])
  BY PeerIn DEF Stays, LogKept
<1>6. TermsGrow
  BY <1>1, PeerIn DEF TermsGrow
<1>7. AsksStay /\ CallsStay /\ InstallsStay
  BY <1>1, AnsweredStay DEF calls
<1>8. led' = led /\ granted' = granted
  BY <1>1 DEF history
<1>. QED
  BY <1>1, <1>2, <1>4, <1>5, <1>6, <1>7, <1>8, QuietKeepsCommit

\* A crash and the restart: the service begins anew, from the snapshot.
LEMMA RestartKeepsCommit ==
    ASSUME RaftInv, RaftInv', CommitInv, CleanHistory, NEW s \in Server, Restart(s)
    PROVE  CommitInv'
<1>. DEFINE g == Booted(disk[s])
<1>1. /\ rf' = [rf EXCEPT ![s] = g] /\ disk' = disk /\ service' = [service EXCEPT ![s] = g.snapshot]
      /\ goroutines' = [goroutines EXCEPT ![s] = [p \in Point |-> 0]]
      /\ rvCalls' = Orphaned(rvCalls, s) /\ aeCalls' = Orphaned(aeCalls, s)
      /\ isCalls' = Orphaned(isCalls, s) /\ UNCHANGED history
  BY DEF Restart
<1>2. disk[s] \in DiskState /\ Durable(disk[s], rf[s]) /\ Covered(rf[s])
  BY DEF RaftInv, NodeInv, DurableState
<1>3. g \in RaftState /\ LogKept(rf[s], g)
  BY <1>2, BootedIn DEF LogKept, Durable
<1>4. g.role = "follower" /\ g.commitIndex = rf[s].snapshotIndex
  BY <1>2 DEF Booted, Durable
<1>. HIDE DEF g
<1>5. \A p \in Server : rf'[p] = IF p = s THEN g ELSE rf[p]
  BY <1>1 DEF RaftInv, NodeInv
<1>6. Stays(rf[s], g)
  BY <1>3, <1>4 DEF Stays, LogKept
<1>7. NoLeftovers /\ CallsAsk /\ \E L, A, W : Chronicle(L, A, W) /\ AppliedIsCommitted(W)
  BY DEF CommitInv
<1>8. AsksStay /\ CallsStay /\ InstallsStay
  BY <1>1, AnsweredStay
<1>14. led' = led /\ granted' = granted /\ won' = won
  BY <1>1 DEF history
<1>9. /\ LogsStay /\ CallsAsk'
      /\ \A p \in Server : rf'[p].role = "candidate" =>
             rf[p].role = "candidate" /\ rf'[p].currentTerm = rf[p].currentTerm
  BY <1>1, <1>6, <1>7, <1>8, <1>14, StaysKeeps
<1>10. NoLeftovers'
  <2>1. /\ \A p \in Server \ {s} : goroutines'[p] = goroutines[p]
        /\ \A q \in Point : goroutines'[s][q] = 0
    BY <1>1 DEF RaftInv, RestInv
  <2>. QED
    BY <1>1, <1>7, <1>14, <2>1, LeftoversKept
<1>11. PICK L, A, W : Chronicle(L, A, W) /\ AppliedIsCommitted(W)
  BY <1>7
<1>16. \A p \in Server : Whole(rf[p], W[p]) /\ rf[p].snapshotIndex <= rf[p].commitIndex
  BY <1>11 DEF Chronicle, WholeLogs, Whole
<1>17. AppliedIsCommitted(W)'
  <2>1. ASSUME NEW p \in Server
        PROVE  Applied(service'[p], W[p], rf'[p].commitIndex + 1)
    <3>1. CASE p = s
      <4>1. service'[s] = rf[s].snapshot /\ rf'[s].commitIndex = rf[s].snapshotIndex
        BY <1>1, <1>3, <1>4, <1>5 DEF LogKept, RaftInv, NodeInv
      <4>2. Len(rf[s].snapshot) = rf[s].snapshotIndex + 1
        BY <1>2 DEF Covered
      <4>3. Covers(rf[s].snapshot, rf[s].snapshotIndex, rf[s].snapshotTerm, W[s])
        BY <1>16 DEF Whole
      <4>4. rf[s].snapshotIndex \in Int /\ Len(W[s]) \in Nat
        <5>1. rf[s] \in RaftState /\ W[s] \in Seq(LogEntry)
          BY <1>11, PeerIn DEF Chronicle, WholeLogs
        <5>. QED
          BY <5>1 DEF RaftState, LogIndex
      <4>5. Applied(rf[s].snapshot, W[s], rf[s].snapshotIndex + 1)
        BY <4>2, <4>3, <4>4 DEF Covers, Applied
      <4>. QED
        BY <3>1, <4>1, <4>5
    <3>2. CASE p # s
      <4>1. service'[p] = service[p] /\ rf'[p] = rf[p]
        BY <1>1, <1>5, <3>2 DEF RaftInv, NodeInv
      <4>. QED
        BY <1>11, <4>1 DEF AppliedIsCommitted
    <3>. QED
      BY <3>1, <3>2
  <2>. QED
    BY <2>1 DEF AppliedIsCommitted, Applied
<1>12. CommitsStay
  BY <1>4, <1>5, <1>16, PeerIn DEF CommitsStay
<1>13. MatchesStay
  BY <1>4, <1>5 DEF MatchesStay
<1>18. VotesStay
  BY <1>9, <1>14 DEF VotesStay
<1>15. TermsGrow
  BY <1>1, PeerIn DEF TermsGrow
<1>19. Chronicle(L, A, W)'
  BY <1>8, <1>9, <1>11, <1>12, <1>13, <1>14, <1>15, <1>18, QuietChronicle
<1>. QED
  BY <1>9, <1>10, <1>17, <1>19 DEF CommitInv

-----------------------------------------------------------------------------
(* Elections *)


-----------------------------------------------------------------------------
(* Elections *)

\* Votes are old ones for the same candidacy, or given to one who has what
\* the voter accepted.
LEMMA VotesCarryNew ==
    ASSUME RaftInv, RaftInv', TermsGrow, led' = led, NEW A, NEW W, VotesCarry(A, W),
           \A v \in granted' :
               rf'[v[3]].role = "candidate" /\ rf'[v[3]].currentTerm = v[2] /\ ~Led(v[2]) =>
                   \/ /\ v \in granted /\ rf[v[3]].role = "candidate" /\ rf[v[3]].currentTerm = v[2]
                   \/ \A x \in Filled :
                         HasAccepted(A, v[1], x) /\ TermOf(x) < v[2] /\ Choosable(A, x) =>
                             Begins(x, W[v[3]])
    PROVE  VotesCarry(A, W)'
<1>1. ASSUME NEW v \in granted', rf'[v[3]].role = "candidate", rf'[v[3]].currentTerm = v[2],
             ~Led(v[2]),
             NEW x \in Filled, HasAccepted(A, v[1], x), TermOf(x) < v[2], Choosable(A, x)'
      PROVE  Begins(x, W[v[3]])
  <2>1. Grows(A, A)
    BY DEF Grows
  <2>2. Choosable(A, x)
    BY <1>1, <2>1, ChoosableBefore
  <2>. QED
    BY <1>1, <2>2 DEF VotesCarry
<1>2. \A p, x : HasAccepted(A, p, x)' <=> HasAccepted(A, p, x)
  BY DEF HasAccepted, TermOf, Begins
<1>3. \A x \in Filled : TermOf(x)' = TermOf(x)
  BY DEF TermOf
<1>4. ASSUME NEW v \in granted', rf'[v[3]].role = "candidate" /\ rf'[v[3]].currentTerm = v[2],
             ~Led(v[2])', NEW x \in Filled,
             HasAccepted(A, v[1], x)' /\ TermOf(x)' < v[2] /\ Choosable(A, x)'
      PROVE  Begins(x, W[v[3]])'
  <2>0. ~Led(v[2])
    BY <1>4 DEF Led
  <2>1. Begins(x, W[v[3]])
    BY <1>1, <1>2, <1>3, <1>4, <2>0
  <2>. QED
    BY <2>1 DEF Begins
<1>. QED
  BY <1>4 DEF VotesCarry

\* toCandidate: the candidate's vote is its own, and it has what it accepted.
LEMMA ToCandidateKeepsCommit ==
    ASSUME RaftInv, RaftInv', TallyInv, CommitInv, CleanHistory, NEW s \in Server, ToCandidate(s)
    PROVE  CommitInv'
<1>. DEFINE g == Candidate(rf[s], s)
            t == rf[s].currentTerm + 1
<1>1. /\ g \in RaftState /\ g.currentTerm = t /\ LogKept(rf[s], g)
  BY PeerIn, CandidateIn
<1>2. g.role = "candidate" /\ g.commitIndex = rf[s].commitIndex
  BY PeerIn DEF Candidate, RaftState
<1>3. /\ Save(s, g) /\ aeCalls' = aeCalls /\ isCalls' = isCalls
      /\ led' = led /\ won' = won /\ goroutines' = goroutines
      /\ granted' = granted \cup {<<s, t, s>>}
  BY <1>1 DEF ToCandidate
<1>4. \A c \in rvCalls' : \/ c \in rvCalls
                          \/ /\ c.from = s /\ c.LastLogIndex = LastIndex(g)
                             /\ c.LastLogTerm = LastTerm(g)
  BY DEF ToCandidate
<1>. HIDE DEF g
<1>5. /\ rf' = [rf EXCEPT ![s] = g] /\ disk' = [disk EXCEPT ![s] = Persistent(g)] /\ service' = service
  BY <1>3 DEF Save
<1>6. \A p \in Server : rf'[p] = IF p = s THEN g ELSE rf[p]
  BY <1>5 DEF RaftInv, NodeInv
<1>7. /\ rf[s].currentTerm \in Nat /\ disk[s].currentTerm \in Nat /\ disk[s].currentTerm <= rf[s].currentTerm
      /\ t \in Nat /\ rf[s].currentTerm <= g.currentTerm /\ disk[s].currentTerm < t
  BY <1>1, PeerIn
<1>8. TermsGrow
  BY <1>1, <1>5, <1>7, SavedTermsGrow
<1>. HIDE DEF t
<1>9. NoLeftovers /\ CallsAsk
  BY DEF CommitInv
<1>10. LogsStay
  <2>1. \A p \in Server : /\ LogKept(rf[p], rf'[p]) /\ rf[p].commitIndex <= rf'[p].commitIndex
                          /\ rf'[p].role = "leader" => rf'[p] = rf[p]
    BY <1>1, <1>2, <1>6, PeerIn DEF LogKept
  <2>. QED
    BY <2>1 DEF LogsStay
<1>12. CallsAsk'
  <2>1. ASSUME NEW c \in rvCalls', rf'[c.from].role = "candidate", rf'[c.from].currentTerm = c.Term,
               ~Led(c.Term)'
        PROVE  c.LastLogIndex = LastIndex(rf'[c.from]) /\ c.LastLogTerm = LastTerm(rf'[c.from])
    <3>1. CASE c \in rvCalls
      <4>1. c.from \in Server /\ c.Term \in Nat
        BY <3>1 DEF RaftInv, CallInv, RequestVoteCall
      <4>2. c.Term <= disk[c.from].currentTerm
        BY <3>1 DEF TallyInv, NoFutureTerm
      <4>3. c.from # s
        BY <1>1, <1>6, <1>7, <2>1, <4>1, <4>2
      <4>4. rf'[c.from] = rf[c.from]
        BY <1>6, <4>1, <4>3
      <4>5. ~Led(c.Term)
        BY <1>3, <2>1 DEF Led
      <4>. QED
        BY <1>9, <2>1, <3>1, <4>4, <4>5 DEF CallsAsk
    <3>2. CASE c.from = s /\ c.LastLogIndex = LastIndex(g) /\ c.LastLogTerm = LastTerm(g)
      BY <1>6, <3>2
    <3>. QED
      BY <1>4, <3>1, <3>2
  <2>. QED
    BY <2>1 DEF CallsAsk, LastIndex, LastTerm
<1>13. NoLeftovers'
  BY <1>2, <1>3, <1>5, <1>9, LeftoversKept
<1>14. \A p \in Server : rf'[p].commitIndex = rf[p].commitIndex
  BY <1>2, <1>6
<1>16. CommitsStay
  BY <1>14, PeerIn DEF CommitsStay
<1>17. MatchesStay
  BY <1>2, <1>6 DEF MatchesStay
<1>18. CallsStay /\ InstallsStay
  BY <1>3, AnsweredStay
<1>19. PICK L, A, W : Chronicle(L, A, W) /\ AppliedIsCommitted(W)
  BY DEF CommitInv
<1>15. AppliedIsCommitted(W)'
  BY <1>5, <1>14, <1>19, AppliedKept
<1>20. VotesCarry(A, W)'
  <2>1. VotesCarry(A, W) /\ AcceptedStays(A, W)
    BY <1>19 DEF Chronicle
  <2>2. ASSUME NEW v \in granted', rf'[v[3]].role = "candidate", rf'[v[3]].currentTerm = v[2]
        PROVE  \/ /\ v \in granted /\ rf[v[3]].role = "candidate" /\ rf[v[3]].currentTerm = v[2]
               \/ \A x \in Filled :
                     HasAccepted(A, v[1], x) /\ TermOf(x) < v[2] /\ Choosable(A, x) =>
                         Begins(x, W[v[3]])
    <3>1. CASE v = <<s, t, s>>
      <4>1. v[1] = s /\ v[3] = s
        BY <3>1
      <4>3. \A x \in Filled : HasAccepted(A, s, x) /\ Choosable(A, x) => Begins(x, W[s])
        BY <2>1 DEF AcceptedStays
      <4>. QED
        BY <4>1, <4>3
    <3>2. CASE v \in granted
      <4>1. v[3] \in Server /\ v[2] \in Nat
        BY <3>2 DEF RaftInv, VoteInv
      <4>2. v[2] <= disk[v[3]].currentTerm
        BY <3>2 DEF TallyInv, NoFutureTerm
      <4>3. v[3] # s
        BY <1>1, <1>6, <1>7, <2>2, <4>1, <4>2
      <4>4. rf'[v[3]] = rf[v[3]]
        BY <1>6, <4>1, <4>3
      <4>. QED
        BY <2>2, <3>2, <4>4
    <3>. QED
      BY <1>3, <3>1, <3>2
  <2>. QED
    BY <1>3, <1>8, <2>1, <2>2, VotesCarryNew
<1>21. Chronicle(L, A, W)'
  BY <1>3, <1>8, <1>10, <1>16, <1>17, <1>18, <1>19, <1>20, BallotChronicle
<1>. QED
  BY <1>12, <1>13, <1>15, <1>21 DEF CommitInv

\* What the end of a peer's log tells of the whole one.
LEMMA LastOfWhole ==
    ASSUME NEW g \in RaftState, NEW w \in Seq(LogEntry), Whole(g, w)
    PROVE  /\ LastIndex(g) = Len(w) - 1 /\ LastTerm(g) \in Nat
           /\ w = <<>> => LastTerm(g) = 0
           /\ w # <<>> => LastTerm(g) = TermOf(w)
<1>. DEFINE log == g.log
            n   == g.snapshotIndex
<1>1. /\ log \in Seq(LogEntry) /\ Len(log) \in Nat /\ n \in Int /\ n >= -1 /\ g.snapshotTerm \in Nat
      /\ Len(w) \in Nat
  BY DEF RaftState, LogIndex
<1>2. /\ Follows(w, -1) /\ Len(log) = Len(w) - (n + 1)
      /\ \A i \in 1..Len(log) : log[i] = w[n + 1 + i]
      /\ g.snapshotTerm = IF n = -1 THEN 0 ELSE w[n + 1].Term
  BY DEF Whole, Covers
<1>3. LastIndex(g) = LastLogIndex(log, n) /\ LastTerm(g) = LastLogTerm(log, g.snapshotTerm)
  BY DEF LastIndex, LastTerm
<1>. HIDE DEF log, n
<1>4. CASE log = <<>>
  <2>1. Len(log) = 0
    BY <1>4
  <2>2. Len(w) = n + 1 /\ LastIndex(g) = n /\ LastTerm(g) = g.snapshotTerm
    BY <1>1, <1>2, <1>3, <1>4, <2>1 DEF LastLogIndex, LastLogTerm
  <2>3. w = <<>> => n = -1
    BY <1>1, <2>2
  <2>4. w # <<>> => n # -1
    BY <1>1, <2>2, EmptySeq
  <2>. QED
    BY <1>1, <1>2, <2>2, <2>3, <2>4 DEF TermOf
<1>5. CASE log # <<>>
  <2>1. Len(log) \in 1..Len(log) /\ Len(log) >= 1
    BY <1>1, <1>5, EmptySeq
  <2>2. log[Len(log)] = w[Len(w)] /\ Len(w) \in DOMAIN w /\ Len(w) \in 1..Len(w)
    <3>1. n + 1 + Len(log) = Len(w) /\ Len(w) >= 1
      BY <1>1, <1>2, <2>1
    <3>2. log[Len(log)] = w[n + 1 + Len(log)]
      BY <1>2, <2>1
    <3>. QED
      BY <1>1, <3>1, <3>2
  <2>3. w[Len(w)].Index = -1 + Len(w)
    BY <1>2, <2>2 DEF Follows
  <2>4. LastIndex(g) = w[Len(w)].Index /\ LastTerm(g) = w[Len(w)].Term
    BY <1>3, <1>5, <2>2 DEF LastLogIndex, LastLogTerm
  <2>5. w # <<>> /\ w[Len(w)] \in LogEntry
    BY <2>2, ElementOfSeq
  <2>6. w[Len(w)].Term \in Nat
    BY <2>5 DEF LogEntry
  <2>. QED
    BY <1>1, <2>3, <2>4, <2>5, <2>6 DEF TermOf
<1>. QED
  BY <1>4, <1>5

(***************************************************************************)
(* A vote for a candidate: its log is not behind, so it has what the voter *)
(* accepted and can still be chosen.                                       *)
(***************************************************************************)
LEMMA VoteIsSafe ==
    ASSUME RaftInv, NEW L, NEW A, NEW W, Chronicle(L, A, W),
           NEW s \in Server, NEW p \in Server, NEW args,
           args.LastLogIndex = LastIndex(rf[p]), args.LastLogTerm = LastTerm(rf[p]),
           LogUpToDate(rf[s], args), NEW x \in Filled, HasAccepted(A, s, x), Choosable(A, x)
    PROVE  Begins(x, W[p])
<1>. DEFINE mine == W[s]
            other == W[p]
            t == LastTerm(rf[p])
<1>1. /\ LeaderLogs(L) /\ LogsRooted(L, W) /\ AcceptedFits(L, A) /\ AcceptedStays(A, W)
      /\ LaterLeadersHave(L, A) /\ WholeLogs(W)
  BY DEF Chronicle
<1>2. Begins(x, mine)
  BY <1>1 DEF AcceptedStays
<1>3. mine \in Seq(LogEntry) /\ other \in Seq(LogEntry) /\ Whole(rf[s], mine) /\ Whole(rf[p], other)
  BY <1>1 DEF WholeLogs
<1>4. rf[s] \in RaftState /\ rf[p] \in RaftState
  BY PeerIn
<1>5. mine \in Filled
  <2>1. Len(x) >= 1 /\ Len(x) \in Nat /\ Len(x) <= Len(mine) /\ Len(mine) \in Nat
    BY <1>2, <1>3, FilledIn DEF Begins
  <2>2. Len(<<>>) = 0
    OBVIOUS
  <2>. HIDE DEF mine
  <2>3. mine # <<>>
    BY <2>1, <2>2
  <2>. QED
    BY <1>3, <2>3 DEF Filled
<1>6. LastIndex(rf[s]) = Len(mine) - 1 /\ LastIndex(rf[p]) = Len(other) - 1
  BY <1>3, <1>4, LastOfWhole
<1>7. LastTerm(rf[s]) = TermOf(mine)
  BY <1>3, <1>4, <1>5, LastOfWhole DEF Filled
<1>8. t \in Nat /\ (other = <<>> => t = 0) /\ (other # <<>> => t = TermOf(other))
  BY <1>3, <1>4, LastOfWhole
<1>10. Rooted(L, mine) /\ Rooted(L, other)
  BY <1>1 DEF LogsRooted
<1>11. \/ LastTerm(rf[s]) < t
       \/ LastTerm(rf[s]) = t /\ LastIndex(rf[s]) <= LastIndex(rf[p])
  BY DEF LogUpToDate
<1>12. Len(mine) \in Nat /\ Len(other) \in Nat
  BY <1>3
<1>. HIDE DEF mine, other, t
<1>13. TermOf(mine) < t \/ (TermOf(mine) = t /\ Len(mine) <= Len(other))
  BY <1>6, <1>7, <1>11, <1>12
<1>14. Begins(x, other)
  BY <1>1, <1>2, <1>3, <1>5, <1>8, <1>10, <1>13, UpToDateHas
<1>. QED
  BY <1>14 DEF other

\* A RequestVote request: whoever votes gives its vote to a log that is not
\* behind its own.
LEMMA VoteRequestKeepsCommit ==
    ASSUME RaftInv, RaftInv', TallyInv, CommitInv, CleanHistory, NEW c \in rvCalls,
           RequestVoteRequestHandler(c)
    PROVE  CommitInv'
<1>. DEFINE s == c.to
            h == Observe(rf[s], c.Term)
            grant == GrantsVote(h, c)
            g == [h EXCEPT !.votedFor = IF grant THEN c.from ELSE @]
<1>1. s \in Server /\ c.from \in Server /\ c.Term \in Nat /\ rf[s] \in RaftState
  BY PeerIn DEF RaftInv, CallInv, RequestVoteCall
<1>2. /\ h \in RaftState /\ LogKept(rf[s], h) /\ KeepsRole(rf[s], h) /\ h.commitIndex = rf[s].commitIndex
      /\ h.matchIndex = rf[s].matchIndex /\ h.currentTerm >= c.Term
  BY <1>1, ObserveIn, ObserveKeepsRole, ObserveTerm
<1>3. /\ g \in RaftState /\ g.currentTerm = h.currentTerm /\ g.role = h.role /\ g.log = h.log
      /\ g.snapshot = h.snapshot /\ g.snapshotIndex = h.snapshotIndex /\ g.snapshotTerm = h.snapshotTerm
      /\ g.commitIndex = h.commitIndex /\ g.matchIndex = h.matchIndex
  <2>. HIDE DEF h, grant
  <2>. QED
    BY <1>1, <1>2 DEF RaftState
<1>4. /\ Save(s, g) /\ aeCalls' = aeCalls /\ isCalls' = isCalls
      /\ led' = led /\ won' = won /\ goroutines' = goroutines
      /\ granted' = granted \cup (IF grant THEN {<<s, h.currentTerm, c.from>>} ELSE {})
      /\ \E r : rvCalls' = Answered(rvCalls, c, r)
  BY DEF RequestVoteRequestHandler
<1>5. grant => h.currentTerm <= c.Term /\ LogUpToDate(h, c)
  BY DEF GrantsVote
<1>. HIDE DEF grant, g
<1>6. /\ rf' = [rf EXCEPT ![s] = g] /\ disk' = [disk EXCEPT ![s] = Persistent(g)] /\ service' = service
  BY <1>4 DEF Save
<1>7. AsksStay /\ CallsStay /\ InstallsStay
  BY <1>4, AnsweredStay
<1>8. LogKept(rf[s], g) /\ KeepsRole(rf[s], g) /\ g.commitIndex = rf[s].commitIndex
      /\ g.matchIndex = rf[s].matchIndex
  BY <1>2, <1>3 DEF LogKept, KeepsRole
<1>9. CASE ~grant
  <2>1. granted' = granted
    BY <1>4, <1>9
  <2>. QED
    BY <1>1, <1>3, <1>4, <1>6, <1>7, <1>8, <2>1, HandlerKeepsCommit
<1>10. CASE grant
  <2>0. h.currentTerm \in Nat /\ g.currentTerm \in Nat /\ rf[s].currentTerm \in Nat
    BY <1>1, <1>2, <1>3, PeerIn DEF RaftState
  <2>1. h.currentTerm = c.Term
    BY <1>1, <1>2, <1>5, <1>10, <2>0
  <2>2. rf[s].currentTerm <= g.currentTerm
    BY <1>8, <2>0 DEF KeepsRole
  <2>3. TermsGrow
    BY <1>1, <1>3, <1>6, <2>2, SavedTermsGrow
  <2>4. NoLeftovers /\ CallsAsk
    BY DEF CommitInv
  <2>5. Stays(rf[s], g)
    BY <1>1, <1>8, PeerIn DEF Stays, KeepsRole
  <2>6. \A p \in Server : rf'[p] = IF p = s THEN g ELSE rf[p]
    BY <1>6 DEF RaftInv, NodeInv
  <2>7. /\ LogsStay /\ CallsAsk'
        /\ \A p \in Server : rf'[p].role = "candidate" =>
               rf[p].role = "candidate" /\ rf'[p].currentTerm = rf[p].currentTerm
    BY <1>1, <1>4, <1>6, <1>7, <2>4, <2>5, StaysKeeps
  <2>8. NoLeftovers'
    <3>1. g.role = "follower" /\ <<s, g.currentTerm>> \in won' =>
              /\ rf[s].role = "follower" /\ g.currentTerm = rf[s].currentTerm
              /\ <<s, rf[s].currentTerm>> \in won /\ goroutines'[s] = goroutines[s]
      BY <1>1, <1>3, <1>4, <1>8, SteppedDown DEF KeepsRole, RaftState
    <3>. QED
      BY <1>1, <1>4, <1>6, <2>4, <3>1, LeftoversKept
  <2>9. \A p \in Server : rf'[p].commitIndex = rf[p].commitIndex
    BY <1>8, <2>6
  <2>11. CommitsStay
    BY <2>9, PeerIn DEF CommitsStay
  <2>12. MatchesStay
    BY <1>8, <2>6 DEF MatchesStay
  <2>13. PICK L, A, W : Chronicle(L, A, W) /\ AppliedIsCommitted(W)
    BY DEF CommitInv
  <2>10. AppliedIsCommitted(W)'
    BY <1>6, <2>9, <2>13, AppliedKept
  <2>14. VotesCarry(A, W)'
    <3>1. VotesCarry(A, W)
      BY <2>13 DEF Chronicle
    <3>2. LogUpToDate(rf[s], c)
      BY <1>2, <1>5, <1>10 DEF LogUpToDate, LastTerm, LastIndex, LogKept
    <3>3. ASSUME NEW v \in granted', rf'[v[3]].role = "candidate", rf'[v[3]].currentTerm = v[2],
                 ~Led(v[2])
          PROVE  \/ /\ v \in granted /\ rf[v[3]].role = "candidate" /\ rf[v[3]].currentTerm = v[2]
                 \/ \A x \in Filled :
                       HasAccepted(A, v[1], x) /\ TermOf(x) < v[2] /\ Choosable(A, x) =>
                           Begins(x, W[v[3]])
      <4>0. v[3] \in Server
        BY DEF RaftInv, VoteInv
      <4>1. rf[v[3]].role = "candidate" /\ rf[v[3]].currentTerm = v[2]
        BY <2>7, <3>3, <4>0
      <4>2. CASE v = <<s, h.currentTerm, c.from>>
        <5>1. v[1] = s /\ v[3] = c.from /\ v[2] = c.Term
          BY <2>1, <4>2
        <5>2. c.LastLogIndex = LastIndex(rf[c.from]) /\ c.LastLogTerm = LastTerm(rf[c.from])
          BY <2>4, <3>3, <4>1, <5>1 DEF CallsAsk
        <5>3. \A x \in Filled : HasAccepted(A, s, x) /\ Choosable(A, x) => Begins(x, W[c.from])
          BY <1>1, <2>13, <3>2, <5>2, VoteIsSafe
        <5>. QED
          BY <4>1, <5>1, <5>3
      <4>. QED
        BY <1>4, <1>10, <4>1, <4>2
    <3>. QED
      BY <1>4, <2>3, <3>1, <3>3, VotesCarryNew
  <2>15. Chronicle(L, A, W)'
    BY <1>4, <1>7, <2>3, <2>7, <2>11, <2>12, <2>13, <2>14, BallotChronicle
  <2>. QED
    BY <2>7, <2>8, <2>10, <2>15 DEF CommitInv
<1>. QED
  BY <1>9, <1>10

-----------------------------------------------------------------------------
(* Replies *)

\* leaderHandleLog changes nextIndex and matchIndex of one peer only.
LEMMA LeaderHandleLogFields ==
    ASSUME NEW g \in RaftState, NEW c \in AppendEntriesCall, NEW r
    PROVE  LET h == LeaderHandleLog(g, c, r)
           IN  /\ h.role = g.role /\ h.currentTerm = g.currentTerm /\ h.commitIndex = g.commitIndex
               /\ \A q \in Server : \/ h.matchIndex[q] = g.matchIndex[q]
                                    \/ /\ q = c.to /\ r.Success
                                       /\ h.matchIndex[q] = c.PrevLogIndex + Len(c.Entries)
<1>. DEFINE next == IF r.Success THEN c.PrevLogIndex + Len(c.Entries) + 1
                                 ELSE BackedUpNextIndex(g.log, r)
            k == [g EXCEPT !.nextIndex[c.to]  = next,
                           !.matchIndex[c.to] = IF r.Success THEN next - 1 ELSE @]
<1>1. LeaderHandleLog(g, c, r) = g \/ LeaderHandleLog(g, c, r) = k
  BY DEF LeaderHandleLog
<1>2. /\ k.role = g.role /\ k.currentTerm = g.currentTerm /\ k.commitIndex = g.commitIndex
      /\ k.matchIndex = [g.matchIndex EXCEPT ![c.to] = IF r.Success THEN next - 1 ELSE @]
  <2>. HIDE DEF next
  <2>. QED
    BY DEF RaftState
<1>3. g.matchIndex \in [Server -> Int] /\ c.PrevLogIndex \in Int /\ Len(c.Entries) \in Nat
  BY DEF RaftState, AppendEntriesCall
<1>4. r.Success => next - 1 = c.PrevLogIndex + Len(c.Entries)
  BY <1>3
<1>. HIDE DEF next, k
<1>5. \A q \in Server : \/ k.matchIndex[q] = g.matchIndex[q]
                        \/ /\ q = c.to /\ r.Success
                           /\ k.matchIndex[q] = c.PrevLogIndex + Len(c.Entries)
  <2>1. \A q \in Server : k.matchIndex[q] =
            IF q = c.to THEN IF r.Success THEN next - 1 ELSE g.matchIndex[q] ELSE g.matchIndex[q]
    BY <1>2, <1>3
  <2>. QED
    BY <1>4, <2>1
<1>. QED
  BY <1>1, <1>2, <1>5

\* A step that counts: the peer stays, but what it newly counts as a leader
\* was accepted.
LEMMA CountKeepsCommit ==
    ASSUME RaftInv, RaftInv', TallyInv, CommitInv, CleanHistory, NEW s \in Server, NEW g \in RaftState,
           rf' = [rf EXCEPT ![s] = g], disk' = [disk EXCEPT ![s] = Persistent(g)],
           LogKept(rf[s], g), g.commitIndex = rf[s].commitIndex, KeepsRole(rf[s], g),
           \A L, A : RepliesAccepted(A) /\ SnapshotsFit(L, A) =>
               \A q \in Server : g.role = "leader" /\ g.matchIndex[q] >= 0 =>
                   \/ g.matchIndex[q] = rf[s].matchIndex[q]
                   \/ AcceptedUpTo(A, q, g.currentTerm, g.matchIndex[q]),
           service' = service, led' = led, granted' = granted, won' = won,
           goroutines' = goroutines, AsksStay, CallsStay, InstallsStay
    PROVE  CommitInv'
<1>1. rf[s].currentTerm \in Nat /\ g.currentTerm \in Nat
  BY PeerIn DEF RaftState
<1>2. rf[s].currentTerm <= g.currentTerm
  BY <1>1 DEF KeepsRole
<1>3. TermsGrow
  BY <1>2, SavedTermsGrow
<1>4. Stays(rf[s], g)
  BY PeerIn DEF Stays, KeepsRole
<1>5. NoLeftovers /\ CallsAsk
  BY DEF CommitInv
<1>6. NoLeftovers'
  <2>1. g.role = "follower" /\ <<s, g.currentTerm>> \in won' =>
            /\ rf[s].role = "follower" /\ g.currentTerm = rf[s].currentTerm
            /\ <<s, rf[s].currentTerm>> \in won /\ goroutines'[s] = goroutines[s]
    BY <1>1, SteppedDown DEF KeepsRole
  <2>. QED
    BY <1>5, <2>1, LeftoversKept
<1>7. \A p \in Server : rf'[p] = IF p = s THEN g ELSE rf[p]
  BY DEF RaftInv, NodeInv
<1>8. /\ LogsStay /\ CallsAsk'
      /\ \A p \in Server : rf'[p].role = "candidate" =>
             rf[p].role = "candidate" /\ rf'[p].currentTerm = rf[p].currentTerm
  BY <1>4, <1>5, StaysKeeps
<1>9. PICK L, A, W : Chronicle(L, A, W) /\ AppliedIsCommitted(W)
  BY DEF CommitInv
<1>10. \A p \in Server : rf'[p].commitIndex = rf[p].commitIndex
  BY <1>7
<1>11. AppliedIsCommitted(W)'
  BY <1>9, <1>10, AppliedKept
<1>12. CommitsStay
  BY <1>10, PeerIn DEF CommitsStay
<1>13. VotesStay
  BY <1>8 DEF VotesStay
<1>14. /\ LeaderLogs(L) /\ WholeLogs(W) /\ MatchAccepted(A) /\ VotesCarry(A, W) /\ RepliesAccepted(A)
       /\ CommitsChosen(A, W) /\ CallsFit(L, A) /\ SnapshotsFit(L, A)
  BY <1>9 DEF Chronicle
<1>15. MatchAccepted(A)'
  <2>1. \A q \in Server : g.role = "leader" /\ g.matchIndex[q] >= 0 =>
            \/ g.matchIndex[q] = rf[s].matchIndex[q]
            \/ AcceptedUpTo(A, q, g.currentTerm, g.matchIndex[q])
    BY <1>14
  <2>2. ASSUME NEW p \in Server, NEW q \in Server, rf'[p].role = "leader", rf'[p].matchIndex[q] >= 0
        PROVE  \/ /\ rf[p].role = "leader" /\ rf'[p].currentTerm = rf[p].currentTerm
                  /\ rf'[p].matchIndex[q] = rf[p].matchIndex[q]
               \/ AcceptedUpTo(A, q, rf'[p].currentTerm, rf'[p].matchIndex[q])
    <3>1. rf[p].role = "leader" /\ rf'[p].currentTerm = rf[p].currentTerm
      BY <1>8, <2>2 DEF LogsStay
    <3>2. CASE p = s
      <4>1. rf'[p] = g
        BY <1>7, <3>2
      <4>. QED
        BY <2>1, <2>2, <3>1, <3>2, <4>1
    <3>3. CASE p # s
      BY <1>7, <3>1, <3>3
    <3>. QED
      BY <3>2, <3>3
  <2>. QED
    BY <1>14, <2>2, MatchKept
<1>16. VotesCarry(A, W)' /\ CommitsChosen(A, W)'
  BY <1>3, <1>12, <1>13, <1>14, VotesStayCarry, CommitsStayChosen
<1>17. CallsFit(L, A)' /\ RepliesAccepted(A)' /\ SnapshotsFit(L, A)'
  BY <1>14, CallsStayFit, InstallsStayFit
<1>18. Chronicle(L, A, W)'
  BY <1>3, <1>8, <1>9, <1>15, <1>16, <1>17, LogsStayChronicle
<1>. QED
  BY <1>6, <1>8, <1>11, <1>18 DEF CommitInv

\* A reply: what the leader newly counts, the follower accepted in its term.
LEMMA AppendReplyKeepsCommit ==
    ASSUME RaftInv, RaftInv', TallyInv, LeadInv, CommitInv, CleanHistory, NEW c \in aeCalls,
           NEW r \in Returns(c, NoAnswer), AppendEntriesResponseHandler(c, r)
    PROVE  CommitInv'
<1>. DEFINE s == c.from
            g == AfterAppendReply(rf[s], c, r)
<1>1. /\ s \in Server /\ c.to \in Server /\ c.Term \in Nat /\ rf[s] \in RaftState
      /\ c \in AppendEntriesCall /\ rf[s].currentTerm \in Nat
  BY PeerIn DEF RaftInv, CallInv, AppendEntriesCall
<1>2. r.Term \in Nat /\ r.XIndex \in Int /\ (r.Success => c.done /\ c.reply.Success)
  BY <1>1 DEF AppendEntriesCall, NoAnswer, Refusal, Returns
<1>3. g \in RaftState /\ LogKept(rf[s], g)
  BY <1>1, <1>2, AfterAppendReplyIn
<1>4. /\ Save(s, g) /\ UNCHANGED history /\ goroutines' = goroutines
      /\ aeCalls' \subseteq aeCalls /\ rvCalls' = rvCalls /\ isCalls' = isCalls
  BY DEF AppendEntriesResponseHandler
<1>5. c.Term <= rf[s].currentTerm
  <2>1. <<s, c.Term>> \in led
    BY DEF CommitInv, Chronicle, CallsFit, Sent
  <2>2. \A a \in led : a[2] <= disk[a[1]].currentTerm
    BY DEF LeadInv, LeadsOwnTerm
  <2>3. c.Term <= disk[s].currentTerm
    BY <2>1, <2>2
  <2>. QED
    BY <1>1, <2>3, PeerIn
<1>6. /\ KeepsRole(rf[s], g) /\ g.commitIndex = rf[s].commitIndex
      /\ g.role = "leader" => \A q \in Server :
             \/ g.matchIndex[q] = rf[s].matchIndex[q]
             \/ /\ q = c.to /\ r.Success /\ g.currentTerm = c.Term
                /\ g.matchIndex[q] = c.PrevLogIndex + Len(c.Entries)
  <2>. DEFINE h == LeaderHandleLog(rf[s], c, r)
  <2>1. CASE g = rf[s]
    BY <2>1 DEF KeepsRole
  <2>2. CASE rf[s].currentTerm < r.Term /\ g = ToFollower(rf[s], r.Term)
    <3>1. /\ KeepsRole(rf[s], ToFollower(rf[s], r.Term)) /\ ToFollower(rf[s], r.Term).role = "follower"
          /\ ToFollower(rf[s], r.Term).commitIndex = rf[s].commitIndex
      BY <1>1, <1>2, <2>2, ObserveKeepsRole
    <3>. HIDE DEF g
    <3>. QED
      BY <2>2, <3>1
  <2>3. CASE g = h /\ rf[s].currentTerm <= c.Term
    <3>1. rf[s].currentTerm = c.Term
      BY <1>1, <1>5, <2>3
    <3>2. /\ h.role = rf[s].role /\ h.currentTerm = rf[s].currentTerm /\ h.commitIndex = rf[s].commitIndex
          /\ \A q \in Server : \/ h.matchIndex[q] = rf[s].matchIndex[q]
                               \/ /\ q = c.to /\ r.Success
                                  /\ h.matchIndex[q] = c.PrevLogIndex + Len(c.Entries)
      BY <1>1, LeaderHandleLogFields
    <3>. HIDE DEF g, h
    <3>. QED
      BY <2>3, <3>1, <3>2 DEF KeepsRole
  <2>4. \/ g = rf[s] \/ (rf[s].currentTerm < r.Term /\ g = ToFollower(rf[s], r.Term))
        \/ (g = h /\ rf[s].currentTerm <= c.Term)
    BY <1>1 DEF AfterAppendReply
  <2>. QED
    BY <2>1, <2>2, <2>3, <2>4
<1>. HIDE DEF g
<1>7. /\ rf' = [rf EXCEPT ![s] = g] /\ disk' = [disk EXCEPT ![s] = Persistent(g)] /\ service' = service
      /\ led' = led /\ won' = won /\ granted' = granted
  BY <1>4 DEF Save, history
<1>8. AsksStay /\ CallsStay /\ InstallsStay
  BY <1>4, AnsweredStay
<1>9. ASSUME NEW A, RepliesAccepted(A), NEW q \in Server, g.role = "leader", g.matchIndex[q] >= 0
      PROVE  \/ g.matchIndex[q] = rf[s].matchIndex[q]
             \/ AcceptedUpTo(A, q, g.currentTerm, g.matchIndex[q])
  <2>1. r.Success => AcceptedUpTo(A, c.to, c.Term, c.PrevLogIndex + Len(c.Entries))
    BY <1>2, <1>9 DEF RepliesAccepted
  <2>. QED
    BY <1>6, <1>9, <2>1
<1>. QED
  BY <1>1, <1>3, <1>4, <1>6, <1>7, <1>8, <1>9, CountKeepsCommit

\* A reply to InstallSnapshot: what the snapshot covers is chosen, whatever
\* the follower did with it.
LEMMA InstallReplyKeepsCommit ==
    ASSUME RaftInv, RaftInv', TallyInv, CommitInv, CleanHistory, NEW c \in isCalls,
           NEW r \in Returns(c, NoInstall), InstallSnapshotResponseHandler(c, r)
    PROVE  CommitInv'
<1>. DEFINE s == c.from
            g == AfterInstallReply(rf[s], c, r)
<1>1. /\ s \in Server /\ c.to \in Server /\ c.Term \in Nat /\ rf[s] \in RaftState
      /\ c \in InstallSnapshotCall /\ rf[s].currentTerm \in Nat /\ c.LastIncludedIndex \in Int
      /\ rf[s].matchIndex \in [Server -> Int]
  BY PeerIn DEF RaftInv, CallInv, InstallSnapshotCall, LogIndex
<1>2. r \in [Term : Nat] /\ r.Term \in Nat /\ ((r = c.reply /\ c.done) \/ r.Term = 0)
  BY <1>1 DEF InstallSnapshotCall, NoInstall, Returns
<1>3. g \in RaftState /\ LogKept(rf[s], g)
  BY <1>1, <1>2, AfterInstallReplyIn
<1>4. /\ Save(s, g) /\ UNCHANGED history /\ goroutines' = goroutines
      /\ aeCalls' = aeCalls /\ rvCalls' = rvCalls /\ isCalls' \subseteq isCalls
  BY DEF InstallSnapshotResponseHandler
<1>6. /\ KeepsRole(rf[s], g) /\ g.commitIndex = rf[s].commitIndex
      /\ g.role = "leader" => \A q \in Server :
             \/ g.matchIndex[q] = rf[s].matchIndex[q]
             \/ /\ q = c.to /\ r.Term = c.Term /\ g.currentTerm = c.Term
                /\ g.matchIndex[q] = c.LastIncludedIndex
  <2>. DEFINE h == [rf[s] EXCEPT !.nextIndex[c.to] = c.LastIncludedIndex + 1,
                                 !.matchIndex[c.to] = c.LastIncludedIndex]
  <2>1. CASE g = rf[s]
    BY <2>1 DEF KeepsRole
  <2>2. CASE rf[s].currentTerm < r.Term /\ g = ToFollower(rf[s], r.Term)
    <3>1. /\ KeepsRole(rf[s], ToFollower(rf[s], r.Term)) /\ ToFollower(rf[s], r.Term).role = "follower"
          /\ ToFollower(rf[s], r.Term).commitIndex = rf[s].commitIndex
      BY <1>1, <1>2, <2>2, ObserveKeepsRole
    <3>. HIDE DEF g
    <3>. QED
      BY <2>2, <3>1
  <2>3. CASE g = h /\ rf[s].currentTerm = c.Term /\ rf[s].currentTerm = r.Term
    <3>2. /\ h.role = rf[s].role /\ h.currentTerm = rf[s].currentTerm /\ h.commitIndex = rf[s].commitIndex
          /\ \A q \in Server : h.matchIndex[q] = IF q = c.to THEN c.LastIncludedIndex
                                                              ELSE rf[s].matchIndex[q]
      BY <1>1 DEF RaftState
    <3>. HIDE DEF g, h
    <3>. QED
      BY <2>3, <3>2 DEF KeepsRole
  <2>4. \/ g = rf[s] \/ (rf[s].currentTerm < r.Term /\ g = ToFollower(rf[s], r.Term))
        \/ (g = h /\ rf[s].currentTerm = c.Term /\ rf[s].currentTerm = r.Term)
    BY <1>1, <1>2 DEF AfterInstallReply
  <2>. QED
    BY <2>1, <2>2, <2>3, <2>4
<1>. HIDE DEF g
<1>7. /\ rf' = [rf EXCEPT ![s] = g] /\ disk' = [disk EXCEPT ![s] = Persistent(g)] /\ service' = service
      /\ led' = led /\ won' = won /\ granted' = granted
  BY <1>4 DEF Save, history
<1>8. AsksStay /\ CallsStay /\ InstallsStay
  BY <1>4, AnsweredStay
<1>9. ASSUME NEW L, NEW A, SnapshotsFit(L, A), NEW q \in Server, g.role = "leader", g.matchIndex[q] >= 0
      PROVE  \/ g.matchIndex[q] = rf[s].matchIndex[q]
             \/ AcceptedUpTo(A, q, g.currentTerm, g.matchIndex[q])
  <2>1. c.LastIncludedIndex >= 0 => AcceptedUpTo(A, c.to, c.Term, c.LastIncludedIndex)
    BY <1>1, <1>9, SnapshotUpTo
  <2>. QED
    BY <1>6, <1>9, <2>1
<1>. QED
  BY <1>1, <1>3, <1>4, <1>6, <1>7, <1>8, <1>9, CountKeepsCommit

-----------------------------------------------------------------------------
(* Leaders *)

\* In a clean history whoever has a goroutine and leads its term has the role.
LEMMA LedIsLeader ==
    ASSUME RaftInv, LeadInv, CommitInv, CleanHistory, NEW s \in Server, NEW q \in Point,
           goroutines[s][q] # 0, <<s, rf[s].currentTerm>> \in led
    PROVE  rf[s].role = "leader"
<1>1. rf[s].role \in Role
  BY PeerIn
<1>2. rf[s].role # "candidate"
  BY DEF LeadInv, LeadsOwnTerm
<1>3. <<s, rf[s].currentTerm>> \in won
  BY DEF CleanHistory
<1>4. rf[s].role # "follower"
  BY <1>3 DEF CommitInv, NoLeftovers
<1>. QED
  BY <1>1, <1>2, <1>4 DEF Role

\* The log of a peer is the end of the whole one, and has no gaps.
LEMMA WholeTail ==
    ASSUME NEW g \in RaftState, NEW w \in Seq(LogEntry), Whole(g, w)
    PROVE  /\ g.log \in Seq(LogEntry) /\ Len(g.log) \in Nat /\ Len(w) \in Nat
           /\ g.snapshotIndex \in Int /\ g.snapshotIndex >= -1
           /\ Len(w) = g.snapshotIndex + 1 + Len(g.log)
           /\ \A i \in 1..Len(g.log) : g.log[i] = w[g.snapshotIndex + 1 + i]
           /\ Follows(g.log, g.snapshotIndex)
<1>. DEFINE log == g.log
            n   == g.snapshotIndex
<1>1. log \in Seq(LogEntry) /\ Len(log) \in Nat /\ n \in Int /\ n >= -1 /\ Len(w) \in Nat
  BY DEF RaftState, LogIndex
<1>2. Len(log) = Len(w) - (n + 1) /\ \A i \in 1..Len(log) : log[i] = w[n + 1 + i]
  BY DEF Whole
<1>3. \A i \in DOMAIN w : w[i].Index = -1 + i
  BY DEF Whole, Follows
<1>. HIDE DEF log, n
<1>4. ASSUME NEW i \in DOMAIN log PROVE log[i].Index = n + i
  <2>1. i \in 1..Len(log) /\ i \in Nat /\ n + 1 + i \in 1..Len(w)
    BY <1>1, <1>2
  <2>2. w[n + 1 + i].Index = -1 + (n + 1 + i)
    BY <1>3, <2>1
  <2>3. -1 + (n + 1 + i) = n + i
    BY <1>1, <2>1
  <2>. QED
    BY <1>2, <2>1, <2>2, <2>3
<1>5. Follows(log, n)
  BY <1>4 DEF Follows
<1>6. Len(w) = n + 1 + Len(log)
  BY <1>1, <1>2
<1>. QED
  BY <1>1, <1>2, <1>5, <1>6 DEF log, n

\* What a leader sends is the rest of its log, and the term before it.
LEMMA SendIsWhole ==
    ASSUME NEW g \in RaftState, NEW s, NEW p \in Server, NEW w \in Seq(LogEntry), Whole(g, w),
           ~(Prev(g, p) < g.snapshotIndex), CanSend(g.log, g.snapshotIndex, Prev(g, p))
    PROVE  LET c == AppendEntriesTo(g, s, p)
           IN  Carries(c, w) /\ Len(w) = c.PrevLogIndex + 1 + Len(c.Entries)
<1>. DEFINE log  == g.log
            n    == g.snapshotIndex
            prev == Prev(g, p)
            c    == AppendEntriesTo(g, s, p)
<1>1. /\ log \in Seq(LogEntry) /\ Len(log) \in Nat /\ Len(w) \in Nat /\ n \in Int /\ n >= -1
      /\ Len(w) = n + 1 + Len(log) /\ \A i \in 1..Len(log) : log[i] = w[n + 1 + i]
      /\ Follows(log, n)
  BY WholeTail
<1>2. prev \in Int /\ prev >= n
  BY <1>1 DEF RaftState, Prev
<1>3. n # -1 => w[n + 1].Term = g.snapshotTerm
  BY DEF Whole, Covers
<1>4. /\ c.PrevLogIndex = prev /\ c.Entries = EntriesAfter(log, n, prev)
      /\ c.PrevLogTerm = TermAt(log, n, g.snapshotTerm, prev)
      /\ CanSend(log, n, prev)
  BY DEF AppendEntriesTo
<1>. HIDE DEF log, n, prev, c
<1>5. CASE prev = n
  <2>1. c.Entries = log /\ c.PrevLogTerm = g.snapshotTerm
    BY <1>4, <1>5 DEF EntriesAfter, TermAt
  <2>2. c.PrevLogIndex >= -1 /\ c.PrevLogIndex + 1 + Len(c.Entries) = Len(w)
    <3>1. c.PrevLogIndex = n /\ Len(c.Entries) = Len(log)
      BY <1>4, <1>5, <2>1
    <3>. QED
      BY <1>1, <3>1
  <2>3. \A i \in DOMAIN c.Entries : c.Entries[i] = w[c.PrevLogIndex + 1 + i]
    <3>1. c.PrevLogIndex = n /\ c.Entries = log
      BY <1>4, <1>5, <2>1
    <3>2. DOMAIN log = 1..Len(log) /\ \A i \in 1..Len(log) : log[i] = w[n + 1 + i]
      <4>1. log \in Seq(LogEntry) /\ \A i \in 1..Len(log) : log[i] = w[n + 1 + i]
        BY <1>1
      <4>2. DOMAIN log = 1..Len(log)
        BY <4>1
      <4>. QED
        BY <4>1, <4>2
    <3>. QED
      BY <3>1, <3>2
  <2>4. c.PrevLogIndex # -1 => w[c.PrevLogIndex + 1].Term = c.PrevLogTerm
    BY <1>3, <1>4, <1>5, <2>1
  <2>5. c.PrevLogIndex + 1 + Len(c.Entries) <= Len(w)
    BY <1>1, <2>2
  <2>. QED
    BY <2>2, <2>3, <2>4, <2>5 DEF Carries, c
<1>6. CASE prev # n
  <2>. DEFINE at == FindIndex(log, prev)
  <2>1. at # 0
    BY <1>1, <1>2, <1>4, <1>6 DEF CanSend
  <2>2. at = prev - n /\ at \in 1..Len(log)
    <3>1. FindIndex(log, prev) # 0 => FindIndex(log, prev) = prev - n
      BY <1>1, <1>2, FindFollows
    <3>2. at \in 0..Len(log)
      BY <1>1, FindIndexIn
    <3>. QED
      BY <1>1, <2>1, <3>1, <3>2
  <2>3. c.Entries = SubSeq(log, at + 1, Len(log)) /\ c.PrevLogTerm = log[at].Term
    BY <1>4, <1>6 DEF EntriesAfter, TermAt
  <2>. HIDE DEF at
  <2>4. /\ Len(c.Entries) = Len(log) - at /\ DOMAIN c.Entries = 1..(Len(log) - at)
        /\ \A i \in 1..(Len(log) - at) : c.Entries[i] = log[at + i]
    <3>. DEFINE m == at + 1
                k == Len(log)
                e == SubSeq(log, m, k)
    <3>1. m \in 1..(k + 1) /\ k \in Nat /\ m \in Nat /\ k - m + 1 = k - at
      BY <1>1, <2>2
    <3>2. Len(e) = k - m + 1 /\ \A i \in 1..(k - m + 1) : e[i] = log[m + i - 1]
      <4>. HIDE DEF m
      <4>1. m \in 1..(Len(log) + 1) /\ k \in (m - 1)..Len(log)
        BY <1>1, <3>1
      <4>. QED
        BY <1>1, <3>1, <4>1, SubSeqProperties
    <3>3. \A i \in 1..(k - at) : m + i - 1 = at + i
      BY <1>1, <2>2
    <3>4. e \in Seq(LogEntry)
      BY <1>1, <2>2, SliceIn
    <3>5. c.Entries = e
      BY <2>3
    <3>. HIDE DEF m, e
    <3>6. \A i \in 1..(k - at) : e[i] = log[at + i]
      BY <3>1, <3>2, <3>3
    <3>7. Len(e) = k - at /\ DOMAIN e = 1..(k - at)
      BY <3>1, <3>2, <3>4
    <3>. QED
      BY <3>5, <3>6, <3>7
  <2>5. c.PrevLogIndex >= -1 /\ c.PrevLogIndex + 1 + Len(c.Entries) = Len(w)
    BY <1>1, <1>2, <1>4, <2>2, <2>4
  <2>6. ASSUME NEW i \in DOMAIN c.Entries PROVE c.Entries[i] = w[c.PrevLogIndex + 1 + i]
    <3>1. i \in 1..(Len(log) - at) /\ at + i \in 1..Len(log)
      BY <1>1, <2>2, <2>4
    <3>2. c.Entries[i] = log[at + i] /\ log[at + i] = w[n + 1 + (at + i)]
      BY <1>1, <2>4, <3>1
    <3>3. n + 1 + (at + i) = c.PrevLogIndex + 1 + i
      BY <1>1, <1>2, <1>4, <2>2, <3>1
    <3>. QED
      BY <3>2, <3>3
  <2>7. w[c.PrevLogIndex + 1].Term = c.PrevLogTerm
    <3>1. log[at] = w[n + 1 + at] /\ n + 1 + at = c.PrevLogIndex + 1
      BY <1>1, <1>2, <1>4, <2>2
    <3>. QED
      BY <2>3, <3>1
  <2>8. c.PrevLogIndex + 1 + Len(c.Entries) <= Len(w)
    BY <1>1, <2>5
  <2>. QED
    BY <2>5, <2>6, <2>7, <2>8 DEF Carries, c
<1>. QED
  BY <1>5, <1>6

\* A round of AppendEntries and InstallSnapshot.
LEMMA SendKeepsCommit ==
    ASSUME RaftInv, RaftInv', LeadInv, CommitInv, CleanHistory, CleanHistory',
           NEW s \in Server, LeaderSendAppendEntriesRPC(s),
           NEW q \in Point, goroutines[s][q] # 0,
           UNCHANGED <<used, granted, won, led, overlaid>>, NoLeftovers'
    PROVE  CommitInv'
<1>. DEFINE g == rf[s]
            others == Server \ {s}
            behind == {p \in others : Prev(g, p) < g.snapshotIndex}
            able   == \A p \in others : CanSend(g.log, g.snapshotIndex, Prev(g, p))
<1>0. rf' = rf /\ disk' = disk /\ service' = service /\ rvCalls' = rvCalls
  BY DEF LeaderSendAppendEntriesRPC, node, calls
<1>1. g \in RaftState /\ rf' = [rf EXCEPT ![s] = g] /\ Stays(rf[s], g)
  BY <1>0, PeerIn DEF RaftInv, NodeInv, Stays, LogKept
<1>2. TermsGrow
  BY <1>0, PeerIn DEF TermsGrow
<1>3. AsksStay
  BY <1>0, AnsweredStay
<1>4. CASE ~able
  <2>1. aeCalls' = aeCalls /\ isCalls' = isCalls
    BY <1>4 DEF LeaderSendAppendEntriesRPC, calls
  <2>2. CallsStay /\ InstallsStay
    BY <2>1, AnsweredStay
  <2>. HIDE DEF able
  <2>. QED
    BY <1>0, <1>1, <1>2, <1>3, <2>2, QuietKeepsCommit
<1>5. CASE able
  <2>1. /\ aeCalls' = aeCalls \cup {AppendEntriesTo(g, s, p) : p \in others \ behind}
        /\ isCalls' = isCalls \cup {InstallSnapshotTo(g, s, p) : p \in behind}
        /\ strayed' = strayed \cup Stray(s)
    BY <1>5 DEF LeaderSendAppendEntriesRPC
  <2>2. /\ \A p \in others : CanSend(g.log, g.snapshotIndex, Prev(g, p))
        /\ \A p \in others \ behind : p \in Server /\ p # s /\ ~(Prev(g, p) < g.snapshotIndex)
        /\ \A p \in behind : p \in Server /\ p # s
    BY <1>5
  <2>3. /\ \A c \in aeCalls' : c \in aeCalls \/ \E p \in others \ behind : c = AppendEntriesTo(g, s, p)
        /\ \A c \in isCalls' : c \in isCalls \/ \E p \in behind : c = InstallSnapshotTo(g, s, p)
    BY <2>1
  <2>. HIDE DEF behind, able
  <2>4. <<s, g.currentTerm>> \in led
    BY <2>1 DEF Stray, CleanHistory
  <2>5. g.role = "leader"
    BY <2>4, LedIsLeader
  <2>6. PICK L, A, W : Chronicle(L, A, W) /\ AppliedIsCommitted(W)
    BY DEF CommitInv
  <2>7. /\ LeaderLogs(L) /\ LeadersHaveTheirs(L, W) /\ VotesCarry(A, W) /\ MatchAccepted(A)
        /\ RepliesAccepted(A) /\ CommitsChosen(A, W) /\ CallsFit(L, A)
        /\ SnapshotsFit(L, A) /\ WholeLogs(W)
    BY <2>6 DEF Chronicle
  <2>. DEFINE w == W[s]
  <2>8. w \in Seq(LogEntry) /\ Whole(g, w) /\ Len(w) \in Nat
    BY <2>7 DEF WholeLogs
  <2>9. /\ g.currentTerm \in Nat /\ g.commitIndex \in Int /\ g.snapshotIndex \in Int
        /\ disk[s].currentTerm \in Nat /\ disk[s].currentTerm <= g.currentTerm
        /\ g.snapshotIndex <= g.commitIndex
        /\ Covers(g.snapshot, g.snapshotIndex, g.snapshotTerm, w)
    BY <1>1, <2>8, PeerIn, WholeTail DEF Whole
  <2>10. <<g.currentTerm, w>> \in L
    BY <2>5, <2>7 DEF LeadersHaveTheirs
  <2>11. /\ KnownChosen(A, w, g.commitIndex + 1, g.currentTerm)
         /\ KnownChosen(A, w, g.snapshotIndex + 1, g.currentTerm)
    <3>. DEFINE t == disk[s].currentTerm
                u == g.currentTerm
                k == g.commitIndex + 1
                j == g.snapshotIndex + 1
    <3>1. KnownChosen(A, w, k, t)
      BY <2>7 DEF CommitsChosen
    <3>2. k > 0 => k <= Len(w)
      BY <3>1 DEF KnownChosen
    <3>3. SameUpTo(w, w, k) /\ SameUpTo(w, w, j)
      BY DEF SameUpTo
    <3>4. k \in Int /\ j \in Int /\ j <= k /\ k <= k /\ t \in Int /\ u \in Int /\ t <= u
      BY <2>9
    <3>. HIDE DEF t, u, k, j, w
    <3>5. j > 0 => j <= Len(w)
      BY <2>8, <3>2, <3>4
    <3>6. KnownChosen(A, w, k, u)
      BY <2>8, <3>1, <3>2, <3>3, <3>4, KnownLater
    <3>7. KnownChosen(A, w, j, u)
      BY <2>8, <3>1, <3>3, <3>4, <3>5, KnownLater
    <3>. QED
      BY <3>6, <3>7 DEF k, j, u
  <2>. HIDE DEF w
  <2>12. ASSUME NEW c \in aeCalls', NEW p \in others \ behind, c = AppendEntriesTo(g, s, p)
         PROVE  Sent(c)' /\ \E l \in L :
                    /\ l[1] = c.Term /\ Carries(c, l[2])
                    /\ Len(l[2]) = c.PrevLogIndex + 1 + Len(c.Entries)
                    /\ KnownChosen(A, l[2], c.LeaderCommit + 1, c.Term)
    <3>1. p \in Server /\ p # s /\ ~(Prev(g, p) < g.snapshotIndex)
          /\ CanSend(g.log, g.snapshotIndex, Prev(g, p))
      BY <2>2
    <3>. HIDE DEF g
    <3>4. Carries(c, w) /\ Len(w) = c.PrevLogIndex + 1 + Len(c.Entries)
      BY <1>1, <2>8, <2>12, <3>1, SendIsWhole
    <3>6. c.Term = g.currentTerm /\ c.LeaderCommit = g.commitIndex /\ c.from = s /\ c.to = p
      BY <2>12 DEF AppendEntriesTo
    <3>7. <<g.currentTerm, w>>[1] = c.Term /\ <<g.currentTerm, w>>[2] = w
      BY <3>6
    <3>8. Sent(c)'
      BY <2>4, <3>1, <3>6 DEF Sent
    <3>. QED
      BY <2>10, <2>11, <3>4, <3>6, <3>7, <3>8
  <2>13. ASSUME NEW c \in isCalls', NEW p \in behind, c = InstallSnapshotTo(g, s, p)
         PROVE  Sent(c)' /\ \E l \in L :
                    /\ l[1] = c.Term
                    /\ Covers(c.Snapshot, c.LastIncludedIndex, c.LastIncludedTerm, l[2])
                    /\ KnownChosen(A, l[2], c.LastIncludedIndex + 1, c.Term)
    <3>1. p \in Server /\ p # s
      BY <2>2
    <3>. HIDE DEF g
    <3>6. /\ c.Term = g.currentTerm /\ c.LastIncludedIndex = g.snapshotIndex /\ c.from = s /\ c.to = p
          /\ c.LastIncludedTerm = g.snapshotTerm /\ c.Snapshot = g.snapshot
      BY <2>13 DEF InstallSnapshotTo
    <3>7. <<g.currentTerm, w>>[1] = c.Term /\ <<g.currentTerm, w>>[2] = w
      BY <3>6
    <3>8. Sent(c)'
      BY <2>4, <3>1, <3>6 DEF Sent
    <3>. QED
      BY <2>9, <2>10, <2>11, <3>6, <3>7, <3>8
  <2>14. /\ \A c \in aeCalls' : c.done => c \in aeCalls
         /\ \A c \in isCalls' : c.done => c \in isCalls
    <3>1. \A p : ~AppendEntriesTo(g, s, p).done /\ ~InstallSnapshotTo(g, s, p).done
      BY DEF AppendEntriesTo, InstallSnapshotTo
    <3>. QED
      BY <2>3, <3>1
  <2>15. CallsFit(L, A)' /\ RepliesAccepted(A)'
    <3>1. aeCalls \subseteq AppendEntriesCall
      BY DEF RaftInv, CallInv
    <3>2. \A d \in aeCalls : SameCall(d, d) /\ Alike(d, d)
      BY DEF SameCall, Alike
    <3>3. CallsFit(L, A)'
      BY <2>3, <2>7, <2>12, <3>1, <3>2, CallsFitKept
    <3>4. RepliesAccepted(A)'
      BY <2>7, <2>14, <3>2, RepliesKept
    <3>. QED
      BY <3>3, <3>4
  <2>16. SnapshotsFit(L, A)'
    <3>1. isCalls \subseteq InstallSnapshotCall
      BY DEF RaftInv, CallInv
    <3>2. \A d \in isCalls : SameInstall(d, d)
      BY DEF SameInstall
    <3>. QED
      BY <2>3, <2>7, <2>13, <3>1, <3>2, SnapshotsFitKept
  <2>17. LogsStay /\ CommitsStay /\ MatchesStay /\ VotesStay
    BY <1>0, PeerIn DEF LogsStay, LogKept, CommitsStay, MatchesStay, VotesStay
  <2>18. VotesCarry(A, W)' /\ MatchAccepted(A)' /\ CommitsChosen(A, W)'
    BY <1>2, <2>7, <2>17, VotesStayCarry, MatchesStayAccepted, CommitsStayChosen
  <2>19. Chronicle(L, A, W)'
    BY <1>2, <2>6, <2>15, <2>16, <2>17, <2>18, LogsStayChronicle
  <2>20. AppliedIsCommitted(W)'
    BY <1>0, <2>6, AppliedKept
  <2>21. CallsAsk'
    <3>1. CallsAsk
      BY DEF CommitInv
    <3>. QED
      BY <1>0, <3>1 DEF CallsAsk, LastIndex, LastTerm, Led
  <2>. QED
    BY <2>19, <2>20, <2>21 DEF CommitInv
<1>. QED
  BY <1>4, <1>5

\* The rounds of leaderTicker and of Start.
LEMMA RoundsKeepCommit ==
    ASSUME RaftInv, RaftInv', LeadInv, CommitInv, CleanHistory, CleanHistory', NEW s \in Server,
           LeaderTickerSend(s) \/ StartSend(s)
    PROVE  CommitInv'
<1>1. PICK q \in Point : goroutines[s][q] # 0
  BY DEF LeaderTickerSend, StartSend, At, Point
<1>2. LeaderSendAppendEntriesRPC(s) /\ UNCHANGED <<used, granted, won, led, overlaid>>
  BY DEF LeaderTickerSend, StartSend
<1>3. rf' = [rf EXCEPT ![s] = rf[s]]
  BY <1>2 DEF LeaderSendAppendEntriesRPC, node, RaftInv, NodeInv
<1>4. \A p \in Server \ {s} : goroutines'[p] = goroutines[p]
  BY DEF LeaderTickerSend, StartSend, Move, Exit, RaftInv, RestInv
<1>5. NoLeftovers /\ won' = won
  BY <1>2 DEF CommitInv
<1>6. NoLeftovers'
  BY <1>1, <1>3, <1>4, <1>5, MovedKeepsLeftovers
<1>. QED
  BY <1>1, <1>2, <1>6, SendKeepsCommit

-----------------------------------------------------------------------------
(* Commitment *)

\* The service takes the next entries of the log or none; it takes them all
\* if it had what came before.
LEMMA DeliverApplies ==
    ASSUME NEW g, NEW log \in Seq(LogEntry), Follows(log, -1), NEW svc \in Seq(Command),
           NEW prev \in Int, NEW cur \in Int, prev >= -1, prev <= cur, cur + 1 <= Len(log),
           Applied(svc, log, prev + 1), NEW batch \in Seq(LogEntry), Len(batch) = cur - prev,
           \A i \in 1..(cur - prev) : batch[i] = log[prev + 1 + i]
    PROVE  LET out == Deliver(g, svc, batch)
           IN  /\ Applied(out.service, log, cur + 1) /\ Len(svc) <= Len(out.service)
               /\ Len(svc) = prev + 1 => Len(out.service) = cur + 1 /\ out.fault = "none"
<1>. DEFINE new == svc \o [i \in DOMAIN batch |-> batch[i].Command]
<1>0. Len(svc) \in Nat /\ Len(log) \in Nat /\ Len(svc) <= prev + 1
  BY DEF Applied
<1>1. CASE ~\A i \in DOMAIN batch : batch[i].Index = Len(svc) + i - 1
  <2>1. Deliver(g, svc, batch).service = svc
    BY <1>1 DEF Deliver, Outcome
  <2>2. Applied(svc, log, cur + 1) /\ Len(svc) <= Len(svc)
    BY <1>0 DEF Applied
  <2>3. Len(svc) # prev + 1
    <3>. SUFFICES ASSUME Len(svc) = prev + 1, NEW i \in DOMAIN batch
                  PROVE  batch[i].Index = Len(svc) + i - 1
      BY <1>1
    <3>1. i \in 1..(cur - prev) /\ prev + 1 + i \in DOMAIN log
      BY <1>0
    <3>2. batch[i] = log[prev + 1 + i]
      BY <3>1
    <3>3. log[prev + 1 + i].Index = -1 + (prev + 1 + i)
      BY <3>1 DEF Follows
    <3>. QED
      BY <1>0, <3>1, <3>2, <3>3
  <2>. QED
    BY <2>1, <2>2, <2>3
<1>2. CASE \A i \in DOMAIN batch : batch[i].Index = Len(svc) + i - 1
  <2>1. Deliver(g, svc, batch).service = new /\ Deliver(g, svc, batch).fault = "none"
    BY <1>2 DEF Deliver, Outcome
  <2>2. DOMAIN batch = 1..(cur - prev)
    OBVIOUS
  <2>3. cur = prev \/ Len(svc) = prev + 1
    <3>. SUFFICES ASSUME cur # prev PROVE Len(svc) = prev + 1
      OBVIOUS
    <3>1. 1 \in DOMAIN batch /\ prev + 2 \in DOMAIN log
      BY <1>0, <2>2
    <3>2. batch[1].Index = Len(svc) + 1 - 1
      BY <1>2, <3>1
    <3>3. batch[1] = log[prev + 1 + 1]
      BY <2>2, <3>1
    <3>4. log[prev + 2].Index = -1 + (prev + 2)
      BY <3>1 DEF Follows
    <3>5. prev + 1 + 1 = prev + 2
      OBVIOUS
    <3>. QED
      BY <1>0, <3>2, <3>3, <3>4, <3>5
  <2>4. /\ Len(new) = Len(svc) + (cur - prev)
        /\ \A i \in 1..(Len(svc) + (cur - prev)) :
               new[i] = IF i <= Len(svc) THEN svc[i] ELSE batch[i - Len(svc)].Command
    <3>. DEFINE commands == [i \in DOMAIN batch |-> batch[i].Command]
    <3>1. commands \in Seq(Command) /\ Len(commands) = cur - prev
      <4>1. \A i \in 1..(cur - prev) : batch[i].Command \in Command
        <5>1. \A i \in DOMAIN batch : batch[i] \in LogEntry
          BY ElementOfSeq
        <5>. QED
          BY <2>2, <5>1 DEF LogEntry
      <4>2. commands \in [1..(cur - prev) -> Command] /\ cur - prev \in Nat
        <5>1. cur - prev \in Nat
          BY <1>0
        <5>2. commands \in [1..(cur - prev) -> Command]
          BY <2>2, <4>1
        <5>. QED
          BY <5>1, <5>2
      <4>3. commands \in Seq(Command)
        BY <4>2, SeqDef
      <4>. QED
        BY <4>2, <4>3, LenProperties
    <3>2. \A i \in 1..(cur - prev) : commands[i] = batch[i].Command
      BY <2>2
    <3>. HIDE DEF commands
    <3>3. /\ Len(svc \o commands) = Len(svc) + Len(commands)
          /\ \A i \in 1..(Len(svc) + Len(commands)) :
                 (svc \o commands)[i] = IF i <= Len(svc) THEN svc[i] ELSE commands[i - Len(svc)]
      BY <3>1, ConcatProperties
    <3>4. new = svc \o commands
      BY DEF commands
    <3>5. ASSUME NEW i \in 1..(Len(svc) + (cur - prev))
          PROVE  new[i] = IF i <= Len(svc) THEN svc[i] ELSE batch[i - Len(svc)].Command
      <4>. HIDE DEF new
      <4>1. CASE i <= Len(svc)
        BY <3>1, <3>3, <3>4, <4>1
      <4>2. CASE ~(i <= Len(svc))
        <5>1. i - Len(svc) \in 1..(cur - prev)
          BY <1>0, <4>2
        <5>2. new[i] = commands[i - Len(svc)]
          BY <3>1, <3>3, <3>4, <4>2
        <5>. QED
          BY <3>2, <4>2, <5>1, <5>2
      <4>. QED
        BY <4>1, <4>2
    <3>. HIDE DEF new
    <3>. QED
      BY <3>1, <3>3, <3>4, <3>5
  <2>. HIDE DEF new
  <2>5. Len(new) <= cur + 1 /\ Len(new) \in Nat
    BY <1>0, <2>3, <2>4
  <2>6. ASSUME NEW i \in 1..Len(new) PROVE i <= Len(log) /\ new[i] = log[i].Command
    <3>1. i \in Int /\ i <= cur + 1 /\ i <= Len(log) /\ i >= 1
      BY <1>0, <2>5
    <3>2. CASE i <= Len(svc)
      <4>1. i \in 1..Len(svc)
        BY <1>0, <3>2
      <4>2. svc[i] = log[i].Command
        BY <4>1 DEF Applied
      <4>3. new[i] = svc[i]
        BY <2>4, <3>2
      <4>. QED
        BY <3>1, <4>2, <4>3
    <3>3. CASE ~(i <= Len(svc))
      <4>1. Len(svc) = prev + 1
        BY <1>0, <2>3, <2>4, <3>3
      <4>2. i - Len(svc) \in 1..(cur - prev)
        <5>1. i <= Len(svc) + (cur - prev)
          BY <2>4
        <5>. QED
          BY <1>0, <3>1, <3>3, <5>1
      <4>3. batch[i - Len(svc)] = log[prev + 1 + (i - Len(svc))]
        BY <4>2
      <4>4. prev + 1 + (i - Len(svc)) = i
        BY <3>1, <4>1
      <4>5. new[i] = batch[i - Len(svc)].Command
        BY <2>4, <3>3
      <4>. QED
        BY <3>1, <4>3, <4>4, <4>5
    <3>. QED
      BY <3>2, <3>3
  <2>7. Applied(new, log, cur + 1)
    BY <2>5, <2>6 DEF Applied
  <2>8. Len(svc) <= Len(new) /\ (Len(svc) = prev + 1 => Len(new) = cur + 1)
    <3>1. Len(new) = Len(svc) + (cur - prev)
      BY <2>4
    <3>2. ASSUME NEW n \in Nat PROVE n <= n + (cur - prev) /\ (n = prev + 1 => n + (cur - prev) = cur + 1)
      OBVIOUS
    <3>. QED
      BY <1>0, <3>1, <3>2
  <2>. QED
    BY <2>1, <2>7, <2>8
<1>. QED
  BY <1>1, <1>2

\* The k entries after position a.
LEMMA SliceIs ==
    ASSUME NEW log \in Seq(LogEntry), NEW a \in Nat, NEW k \in Nat, a + k <= Len(log)
    PROVE  LET e == SubSeq(log, a + 1, a + k)
           IN  /\ e \in Seq(LogEntry) /\ Len(e) = k /\ DOMAIN e = 1..k
               /\ \A i \in 1..k : e[i] = log[a + i]
<1>. DEFINE m == a + 1
            n == a + k
            e == SubSeq(log, m, n)
<1>1. m \in Nat \ {0} /\ n \in Nat /\ n <= Len(log) /\ Len(log) \in Nat /\ n - m + 1 = k
  OBVIOUS
<1>2. m \in 1..(Len(log) + 1) /\ n \in (m - 1)..Len(log)
  BY <1>1
<1>3. \A i \in 1..k : m + i - 1 = a + i
  OBVIOUS
<1>. HIDE DEF m, n
<1>4. e \in Seq(LogEntry)
  BY <1>1, SliceIn
<1>5. Len(e) = n - m + 1 /\ \A i \in 1..(n - m + 1) : e[i] = log[m + i - 1]
  BY <1>1, <1>2, SubSeqProperties
<1>. HIDE DEF e
<1>6. DOMAIN e = 1..k
  BY <1>1, <1>4, <1>5
<1>7. \A i \in 1..k : e[i] = log[a + i]
  BY <1>1, <1>3, <1>5
<1>8. e = SubSeq(log, a + 1, a + k)
  BY DEF e, m, n
<1>9. Len(e) = k
  BY <1>1, <1>5
<1>. QED
  BY <1>4, <1>6, <1>7, <1>8, <1>9

\* Moving commitIndex forward within the log.
LEMMA CommitToApplies ==
    ASSUME NEW g \in RaftState, NEW w \in Seq(LogEntry), Whole(g, w), NEW svc \in Seq(Command),
           NEW cur \in Int, g.commitIndex <= cur, cur + 1 <= Len(w),
           Applied(svc, w, g.commitIndex + 1)
    PROVE  LET out == CommitTo(g, svc, cur)
           IN  /\ out.g = [g EXCEPT !.commitIndex = cur]
               /\ Applied(out.service, w, cur + 1) /\ Len(svc) <= Len(out.service)
               /\ Len(svc) = g.commitIndex + 1 => Len(out.service) = cur + 1 /\ out.fault = "none"
               /\ out.fault = "none" /\ g.commitIndex < cur => Len(svc) = g.commitIndex + 1
<1>. DEFINE log == g.log
            n == g.snapshotIndex
            prev == g.commitIndex
            h == [g EXCEPT !.commitIndex = cur]
            batch == CommittedBatch(log, n, prev, cur)
<1>1. /\ log \in Seq(LogEntry) /\ Len(log) \in Nat /\ Len(w) \in Nat /\ n \in Int /\ n >= -1
      /\ Len(w) = n + 1 + Len(log) /\ \A i \in 1..Len(log) : log[i] = w[n + 1 + i]
      /\ Follows(log, n)
  BY WholeTail
<1>2. prev \in Int /\ prev >= n /\ Follows(w, -1) /\ prev <= cur /\ cur + 1 <= Len(w)
  <2>1. prev \in Int
    BY DEF RaftState, LogIndex
  <2>2. prev >= n /\ Follows(w, -1)
    BY <1>1, <2>1 DEF Whole
  <2>. QED
    BY <2>1, <2>2
<1>3. CommitTo(g, svc, cur) = IF CanBatch(log, n, prev, cur)
                                THEN Deliver(h, svc, batch) ELSE Outcome(h, svc, "panic")
  BY DEF CommitTo
<1>4. Applied(svc, w, prev + 1)
  OBVIOUS
<1>. HIDE DEF h, log, n, prev
<1>5. /\ BatchStart(log, n, prev) = prev - n
      /\ prev = -1 \/ prev = n \/ FindIndex(log, prev) # 0
  <2>1. CASE prev = n
    BY <1>1, <2>1 DEF BatchStart
  <2>2. CASE prev # n
    <3>1. n < prev /\ prev <= n + Len(log) /\ prev # -1
      BY <1>1, <1>2, <2>2
    <3>2. FindIndex(log, prev) = prev - n /\ FindIndex(log, prev) # 0
      BY <1>1, <1>2, <3>1, FindFollows
    <3>. QED
      BY <2>2, <3>1, <3>2 DEF BatchStart
  <2>. QED
    BY <2>1, <2>2
<1>. DEFINE a == prev - n
            k == cur - prev
<1>6. a \in Nat /\ k \in Nat /\ a + k <= Len(log)
  BY <1>1, <1>2
<1>7. CanBatch(log, n, prev, cur) /\ batch = SubSeq(log, a + 1, a + k)
  BY <1>5, <1>6 DEF CanBatch, CommittedBatch
<1>. HIDE DEF batch
<1>8. /\ batch \in Seq(LogEntry) /\ Len(batch) = k
      /\ \A i \in 1..k : batch[i] = w[prev + 1 + i]
  <2>1. /\ batch \in Seq(LogEntry) /\ Len(batch) = k
        /\ \A i \in 1..k : batch[i] = log[a + i]
    <3>. HIDE DEF a, k
    <3>. QED
      BY <1>1, <1>6, <1>7, SliceIs
  <2>2. ASSUME NEW i \in 1..k PROVE batch[i] = w[prev + 1 + i]
    <3>1. a + i \in 1..Len(log) /\ n + 1 + (a + i) = prev + 1 + i
      BY <1>1, <1>2, <1>6
    <3>2. log[a + i] = w[n + 1 + (a + i)]
      BY <1>1, <3>1
    <3>. QED
      BY <2>1, <3>1, <3>2
  <2>. QED
    BY <2>1, <2>2
<1>9. LET out == Deliver(h, svc, batch)
      IN  /\ Applied(out.service, w, cur + 1) /\ Len(svc) <= Len(out.service)
          /\ Len(svc) = prev + 1 => Len(out.service) = cur + 1 /\ out.fault = "none"
  <2>1. prev >= -1
    BY <1>1, <1>2
  <2>. QED
    BY <1>2, <1>4, <1>8, <2>1, DeliverApplies
<1>10. Deliver(h, svc, batch).g = h
  BY DEF Deliver, Outcome
<1>11. ASSUME Deliver(h, svc, batch).fault = "none", prev < cur PROVE Len(svc) = prev + 1
  <2>1. \A i \in DOMAIN batch : batch[i].Index = Len(svc) + i - 1
    BY <1>11 DEF Deliver, Outcome
  <2>2. 1 \in 1..k /\ 1 \in DOMAIN batch /\ prev + 1 + 1 \in DOMAIN w
    <3>1. prev \in Int /\ prev >= -1 /\ Len(w) \in Nat /\ DOMAIN w = 1..Len(w) /\ cur + 1 <= Len(w)
      BY <1>1, <1>2
    <3>2. 1 \in 1..k /\ prev + 1 + 1 \in 1..Len(w)
      BY <1>11, <3>1
    <3>3. DOMAIN batch = 1..k
      BY <1>8
    <3>. QED
      BY <3>1, <3>2, <3>3
  <2>3. batch[1] = w[prev + 1 + 1] /\ batch[1].Index = Len(svc) + 1 - 1
    BY <1>8, <2>1, <2>2
  <2>4. w[prev + 1 + 1].Index = -1 + (prev + 1 + 1)
    BY <1>2, <2>2 DEF Follows
  <2>5. Len(svc) \in Nat
    OBVIOUS
  <2>. QED
    BY <1>2, <2>3, <2>4, <2>5
<1>. QED
  BY <1>3, <1>7, <1>9, <1>10, <1>11 DEF log, n, prev, h

\* The sorted match indices: a majority has reached the one that is taken.
LEMMA MajorityCounts ==
    ASSUME NEW m \in [Server -> Int], NEW n \in Int, IsMajorityIndex(m, n)
    PROVE  IsQuorum(Cardinality({p \in Server : m[p] >= n}))
<1>. DEFINE low == {p \in Server : m[p] < n}
            high == {p \in Server : m[p] >= n}
<1>1. IsFiniteSet(Server) /\ Cardinality(Server) \in Nat
  BY ServerAssumption, FS_CardinalityType
<1>2. high = Server \ low /\ Server \cap low = low /\ low \in SUBSET Server
  OBVIOUS
<1>3. IsFiniteSet(low) /\ Cardinality(low) \in Nat
  BY <1>1, <1>2, FS_Subset, FS_CardinalityType
<1>4. Cardinality(low) < (Cardinality(Server) + 1) \div 2
  <2>1. DOMAIN m = Server
    OBVIOUS
  <2>. QED
    BY <2>1 DEF IsMajorityIndex
<1>. HIDE DEF low, high
<1>5. Cardinality(high) = Cardinality(Server) - Cardinality(low)
  BY <1>1, <1>2, FS_Difference
<1>6. Cardinality(high) >= Cardinality(Server) \div 2 + 1
  BY <1>1, <1>3, <1>4, <1>5
<1>. QED
  BY <1>6 DEF IsQuorum, high

\* What a leader counts, up to an entry of its term, is chosen.
LEMMA CountedIsChosen ==
    ASSUME RaftInv, NEW L, NEW A, NEW W, Chronicle(L, A, W), NEW s \in Server, rf[s].role = "leader",
           NEW n \in Nat, IsMajorityIndex(rf[s].matchIndex, n),
           n + 1 <= Len(W[s]), W[s][n + 1].Term = rf[s].currentTerm
    PROVE  KnownChosen(A, W[s], n + 1, rf[s].currentTerm)
<1>. DEFINE log == W[s]
            t == rf[s].currentTerm
            x == SubSeq(log, 1, n + 1)
            Q == {p \in Server : rf[s].matchIndex[p] >= n}
<1>1. /\ log \in Seq(LogEntry) /\ Len(log) \in Nat /\ t \in Nat /\ n + 1 <= Len(log)
      /\ rf[s].matchIndex \in [Server -> Int] /\ log[n + 1].Term = t
  <2>1. W[s] \in Seq(LogEntry)
    BY DEF Chronicle, WholeLogs
  <2>. QED
    BY <2>1, PeerIn
<1>2. LeaderLogs(L) /\ LeadersHaveTheirs(L, W) /\ AcceptedFits(L, A) /\ MatchAccepted(A)
      /\ LaterLeadersHave(L, A) /\ <<t, log>> \in L
  BY DEF Chronicle, LeadersHaveTheirs
<1>3. IsQuorum(Cardinality(Q)) /\ Q \in SUBSET Server
  <2>1. n \in Int /\ Q \in SUBSET Server
    OBVIOUS
  <2>2. IsQuorum(Cardinality(Q))
    BY <1>1, <2>1, MajorityCounts
  <2>. QED
    BY <2>1, <2>2
<1>4. \A p \in Q : p \in Server /\ rf[s].matchIndex[p] >= n
  OBVIOUS
<1>5. \A l \in L : l[1] = t => Begins(l[2], log)
  BY <1>2 DEF LeadersHaveTheirs
<1>6. \A p \in Server : rf[s].matchIndex[p] >= 0 => AcceptedUpTo(A, p, t, rf[s].matchIndex[p])
  BY <1>2 DEF MatchAccepted
<1>. HIDE DEF log, t, Q
<1>7. x \in Seq(LogEntry) /\ Len(x) = n + 1 /\ \A i \in 1..(n + 1) : x[i] = log[i]
  <2>1. x \in Seq(LogEntry)
    BY <1>1, SliceIn
  <2>2. Len(x) = n + 1 /\ \A i \in 1..(n + 1) : x[i] = log[1 + i - 1]
    BY <1>1, SubSeqProperties
  <2>3. \A i \in 1..(n + 1) : 1 + i - 1 = i
    OBVIOUS
  <2>. QED
    BY <2>1, <2>2, <2>3
<1>. HIDE DEF x
<1>8. x \in Filled /\ TermOf(x) = t
  <2>1. x # <<>>
    BY <1>7, EmptySeq
  <2>2. x[Len(x)] = log[n + 1]
    BY <1>7
  <2>. QED
    BY <1>1, <1>7, <2>1, <2>2 DEF Filled, TermOf
<1>12. ASSUME NEW y \in Filled, Chosen(A, y), TermOf(y) <= t, n < Len(y)
       PROVE  KnownChosen(A, log, n + 1, t)
  <2>1. PICK p \in Server : HasAccepted(A, p, y) /\ Choosable(A, y)
    BY <1>12, ChosenChoosable
  <2>2. PICK l \in L : l[1] = t /\ l[2] = log
    BY <1>2
  <2>3. Comparable(y, log)
    BY <1>2, <1>12, <2>1, <2>2, ChoosableAgrees
  <2>4. y \in Seq(LogEntry) /\ Len(y) \in Nat
    BY FilledIn
  <2>5. n + 1 <= Len(y)
    BY <1>12, <2>4
  <2>6. SameUpTo(log, y, n + 1)
    <3>1. ASSUME NEW i \in 1..(n + 1) PROVE log[i] = y[i]
      <4>1. i \in 1..Len(y) /\ i \in 1..Len(log)
        BY <1>1, <2>4, <2>5
      <4>. QED
        BY <2>3, <4>1 DEF Comparable, Begins
    <3>. QED
      BY <3>1 DEF SameUpTo
  <2>. QED
    BY <1>1, <1>12, <2>5, <2>6 DEF KnownChosen
<1>13. CASE \E y \in Filled : Chosen(A, y) /\ TermOf(y) <= t /\ n < Len(y)
  BY <1>12, <1>13 DEF log, t
<1>. SUFFICES ASSUME ~ \E y \in Filled : Chosen(A, y) /\ TermOf(y) <= t /\ n < Len(y)
              PROVE  KnownChosen(A, W[s], n + 1, rf[s].currentTerm)
  BY <1>13
<1>9. ASSUME NEW p \in Q PROVE HasAccepted(A, p, x)
  <2>1. p \in Server /\ rf[s].matchIndex[p] >= n /\ rf[s].matchIndex[p] \in Int
    BY <1>1, <1>4
  <2>2. AcceptedUpTo(A, p, t, rf[s].matchIndex[p])
    BY <1>6, <2>1
  <2>3. PICK e \in A : e[1] = p /\ e[2] = t /\ rf[s].matchIndex[p] < Len(e[3])
    <3>1. ASSUME NEW y \in Filled, Chosen(A, y), TermOf(y) <= t, rf[s].matchIndex[p] < Len(y)
          PROVE  FALSE
      <4>1. Len(y) \in Nat
        BY FilledIn
      <4>2. n < Len(y)
        BY <2>1, <3>1, <4>1
      <4>. QED
        BY <3>1, <4>2
    <3>. QED
      BY <2>2, <3>1 DEF AcceptedUpTo
  <2>4. e[3] \in Seq(LogEntry) /\ \E l \in L : l[1] = e[2] /\ Begins(e[3], l[2])
    BY <1>2 DEF AcceptedFits
  <2>5. PICK l \in L : l[1] = t /\ Begins(e[3], l[2])
    BY <2>3, <2>4
  <2>6. l[2] \in Seq(LogEntry)
    BY <1>2 DEF LeaderLogs
  <2>7. Begins(e[3], log)
    BY <1>1, <1>5, <2>4, <2>5, <2>6, BeginsTrans
  <2>8. n + 1 <= Len(e[3]) /\ Len(e[3]) \in Nat
    <3>1. Len(e[3]) \in Nat
      BY <2>4
    <3>. QED
      BY <2>1, <2>3, <3>1
  <2>9. Begins(x, e[3])
    <3>1. ASSUME NEW i \in 1..Len(x) PROVE x[i] = e[3][i]
      <4>1. i \in 1..(n + 1) /\ i \in 1..Len(e[3])
        BY <1>7, <2>8
      <4>. QED
        BY <1>7, <2>7, <4>1 DEF Begins
    <3>. QED
      BY <1>7, <2>8, <3>1 DEF Begins
  <2>. QED
    BY <1>8, <2>3, <2>9 DEF HasAccepted
<1>10. Chosen(A, x)
  BY <1>3, <1>9 DEF Chosen
<1>11. KnownChosen(A, log, n + 1, t)
  <2>1. SameUpTo(log, x, n + 1)
    BY <1>7 DEF SameUpTo
  <2>2. TermOf(x) <= t /\ n + 1 <= Len(x)
    BY <1>1, <1>7, <1>8
  <2>. QED
    BY <1>1, <1>8, <1>10, <2>1, <2>2 DEF KnownChosen
<1>. QED
  BY <1>11 DEF log, t

\* leaderUpdateCommitIndex: what a leader newly commits is chosen.
LEMMA CommitCheckKeepsCommit ==
    ASSUME RaftInv, RaftInv', LeadInv, CommitInv, CleanHistory, CleanHistory',
           NEW s \in Server, LeaderUpdateCommitIndex(s)
    PROVE  CommitInv'
<1>. DEFINE g == rf[s]
            svc == service[s]
<1>1. /\ g \in RaftState /\ svc \in Seq(Command) /\ g.log \in Seq(LogEntry) /\ Len(g.log) \in Nat
      /\ g.commitIndex \in Int /\ g.commitIndex >= -1 /\ g.currentTerm \in Nat
      /\ g.matchIndex \in [Server -> Int]
      /\ rf \in [Server -> RaftState] /\ service \in [Server -> Seq(Command)]
  BY PeerIn DEF RaftInv, NodeInv
<1>2. /\ goroutines[s]["commit"] # 0 /\ "commit" \in Point
      /\ Move(s, "commit", "send") /\ UNCHANGED <<calls, used, granted, won, led, overlaid>>
      /\ strayed' = IF rf'[s].commitIndex = rf[s].commitIndex THEN strayed ELSE strayed \cup Stray(s)
  BY DEF LeaderUpdateCommitIndex, At, Point
<1>3. PICK n \in {g.matchIndex[p] : p \in Server} :
          IsMajorityIndex(g.matchIndex, n) /\ Finish(s, AfterCommitCheck(g, svc, n))
  BY DEF LeaderUpdateCommitIndex
<1>4. n \in Int
  BY <1>1, <1>3
<1>5. \A p \in Server \ {s} : goroutines'[p] = goroutines[p]
  BY <1>2 DEF Move, RaftInv, RestInv
<1>6. NoLeftovers /\ CallsAsk
  BY DEF CommitInv
<1>7. AsksStay /\ CallsStay /\ InstallsStay
  BY <1>2, AnsweredStay DEF calls
<1>. DEFINE out == AfterCommitCheck(g, svc, n)
<1>9. CASE out.g = g /\ out.service = svc
  <2>. HIDE DEF out
  <2>1. rf' = [rf EXCEPT ![s] = g] /\ service' = service /\ disk' = [disk EXCEPT ![s] = Persistent(g)]
    BY <1>1, <1>3, <1>9 DEF Finish, out
  <2>2. TermsGrow
    <3>1. rf[s].currentTerm <= g.currentTerm
      BY <1>1
    <3>. QED
      BY <1>1, <2>1, <3>1, SavedTermsGrow
  <2>3. NoLeftovers'
    BY <1>2, <1>5, <1>6, <2>1, MovedKeepsLeftovers
  <2>4. Stays(rf[s], g)
    BY <1>1 DEF Stays, LogKept
  <2>. QED
    BY <1>1, <1>2, <1>7, <2>1, <2>2, <2>3, <2>4, QuietKeepsCommit
<1>10. CASE /\ MayCommit(g, n) /\ FindIndex(g.log, n) # 0
            /\ g.log[FindIndex(g.log, n)].Term = g.currentTerm /\ out = CommitTo(g, svc, n)
  <2>. DEFINE h == [g EXCEPT !.commitIndex = n]
  <2>1. n > g.commitIndex /\ n \in Nat
    BY <1>1, <1>4, <1>10 DEF MayCommit
  <2>15. PICK L, A, W : Chronicle(L, A, W) /\ AppliedIsCommitted(W)
    BY DEF CommitInv
  <2>21. /\ W \in [Server -> Seq(LogEntry)] /\ W[s] \in Seq(LogEntry) /\ Whole(g, W[s])
         /\ WholeLogs(W)
    BY <2>15 DEF Chronicle, WholeLogs
  <2>2. n + 1 <= Len(W[s]) /\ W[s][n + 1] = g.log[FindIndex(g.log, n)]
    <3>. DEFINE k == g.snapshotIndex
                at == FindIndex(g.log, n)
    <3>1. /\ g.log \in Seq(LogEntry) /\ Len(g.log) \in Nat /\ Len(W[s]) \in Nat
          /\ k \in Int /\ Len(W[s]) = k + 1 + Len(g.log) /\ Follows(g.log, k)
          /\ \A i \in 1..Len(g.log) : g.log[i] = W[s][k + 1 + i]
      BY <1>1, <2>21, WholeTail
    <3>2. at = n - k /\ k < n /\ n <= k + Len(g.log)
      BY <1>4, <1>10, <3>1, FindFollows
    <3>. HIDE DEF at, k
    <3>3. at \in 1..Len(g.log) /\ k + 1 + at = n + 1 /\ n + 1 <= Len(W[s])
      BY <1>4, <3>1, <3>2
    <3>. QED
      BY <3>1, <3>3 DEF at
  <2>3. W[s][n + 1].Term = g.currentTerm
    BY <1>10, <2>2
  <2>4. Applied(svc, W[s], g.commitIndex + 1)
    BY <2>15 DEF AppliedIsCommitted
  <2>5. out.g = h /\ Applied(out.service, W[s], n + 1)
    <3>1. g.commitIndex <= n
      BY <1>1, <2>1
    <3>. HIDE DEF g, svc
    <3>2. /\ g \in RaftState /\ W[s] \in Seq(LogEntry) /\ Whole(g, W[s])
          /\ svc \in Seq(Command) /\ n \in Int
          /\ g.commitIndex <= n /\ n + 1 <= Len(W[s])
      BY <1>1, <1>4, <2>2, <2>21, <3>1
    <3>3. LET made == CommitTo(g, svc, n)
          IN  /\ made.g = [g EXCEPT !.commitIndex = n]
              /\ Applied(made.service, W[s], n + 1) /\ Len(svc) <= Len(made.service)
              /\ Len(svc) = g.commitIndex + 1 => Len(made.service) = n + 1 /\ made.fault = "none"
      BY <2>4, <3>2, CommitToApplies
    <3>. QED
      BY <1>10, <3>3
  <2>6. /\ h \in RaftState /\ LogKept(g, h) /\ h.role = g.role /\ h.currentTerm = g.currentTerm
        /\ h.commitIndex = n /\ h.matchIndex = g.matchIndex
    <3>1. n \in LogIndex
      BY <2>1 DEF LogIndex
    <3>. HIDE DEF g
    <3>. QED
      BY <1>1, <3>1 DEF RaftState, LogKept
  <2>. DEFINE applied == out.service
  <2>7. /\ rf' = [rf EXCEPT ![s] = h] /\ disk' = [disk EXCEPT ![s] = Persistent(h)]
        /\ service' = [service EXCEPT ![s] = applied] /\ Applied(applied, W[s], n + 1)
    BY <1>3, <2>5 DEF Finish
  <2>. HIDE DEF out, applied, h
  <2>8. /\ \A p \in Server : rf'[p] = IF p = s THEN h ELSE rf[p]
        /\ \A p \in Server : service'[p] = IF p = s THEN applied ELSE service[p]
    BY <1>1, <2>7
  <2>9. g.role = "leader"
    <3>1. rf'[s].commitIndex # rf[s].commitIndex
      BY <1>1, <1>4, <2>1, <2>6, <2>8
    <3>2. <<s, g.currentTerm>> \in led
      BY <1>2, <3>1 DEF Stray, CleanHistory
    <3>. QED
      BY <1>2, <3>2, LedIsLeader
  <2>10. TermsGrow /\ disk'[s].currentTerm = g.currentTerm
    <3>1. rf[s].currentTerm <= h.currentTerm
      BY <1>1, <2>6
    <3>. QED
      BY <2>6, <2>7, <3>1, SavedTermsGrow
  <2>11. NoLeftovers'
    BY <1>2, <1>5, <1>6, <2>6, <2>7, MovedKeepsLeftovers
  <2>12. Stays(rf[s], h)
    <3>1. g.commitIndex <= h.commitIndex
      BY <1>1, <1>4, <2>1, <2>6
    <3>. QED
      BY <2>6, <3>1 DEF Stays, LogKept
  <2>22. led' = led
    BY <1>2
  <2>13. /\ LogsStay /\ CallsAsk'
         /\ \A p \in Server : rf'[p].role = "candidate" =>
                rf[p].role = "candidate" /\ rf'[p].currentTerm = rf[p].currentTerm
    BY <1>6, <1>7, <2>7, <2>12, <2>22, StaysKeeps
  <2>14. AppliedIsCommitted(W)'
    <3>1. ASSUME NEW p \in Server PROVE Applied(service'[p], W[p], rf'[p].commitIndex + 1)
      <4>1. CASE p = s
        BY <2>6, <2>7, <2>8, <4>1
      <4>2. CASE p # s
        BY <2>8, <2>15, <4>2 DEF AppliedIsCommitted
      <4>. QED
        BY <4>1, <4>2
    <3>. QED
      BY <3>1 DEF AppliedIsCommitted, Applied
  <2>16. /\ LeaderLogs(L) /\ MatchAccepted(A) /\ VotesCarry(A, W) /\ SnapshotsFit(L, A)
         /\ RepliesAccepted(A) /\ CommitsChosen(A, W) /\ CallsFit(L, A)
    BY <2>15 DEF Chronicle
  <2>17. CommitsChosen(A, W)'
    <3>1. KnownChosen(A, W[s], n + 1, g.currentTerm)
      BY <1>3, <2>1, <2>2, <2>3, <2>9, <2>15, CountedIsChosen
    <3>2. KnownChosen(A, W[s], rf'[s].commitIndex + 1, disk'[s].currentTerm)
      BY <2>6, <2>8, <2>10, <3>1
    <3>3. ASSUME NEW p \in Server, p # s
          PROVE  /\ rf'[p].commitIndex <= rf[p].commitIndex
                 /\ SameUpTo(W[p], W[p], rf'[p].commitIndex + 1)
      <4>1. rf'[p] = rf[p]
        BY <2>8, <3>3
      <4>. QED
        BY <4>1, PeerIn DEF SameUpTo
    <3>. QED
      BY <2>10, <2>16, <2>21, <3>2, <3>3, CommitsKept
  <2>18. MatchesStay
    BY <2>6, <2>8 DEF MatchesStay
  <2>19. VotesStay
    BY <1>2, <2>13 DEF VotesStay
  <2>20. Chronicle(L, A, W)'
    <3>1. VotesCarry(A, W)' /\ MatchAccepted(A)'
      BY <2>10, <2>13, <2>16, <2>18, <2>19, <2>22, VotesStayCarry, MatchesStayAccepted
    <3>2. CallsFit(L, A)' /\ RepliesAccepted(A)' /\ SnapshotsFit(L, A)'
      BY <1>7, <2>16, <2>22, CallsStayFit, InstallsStayFit
    <3>. QED
      BY <2>10, <2>13, <2>15, <2>17, <2>22, <3>1, <3>2, LogsStayChronicle
  <2>. QED
    BY <2>11, <2>13, <2>14, <2>20 DEF CommitInv
<1>11. \/ (out.g = g /\ out.service = svc)
       \/ /\ MayCommit(g, n) /\ FindIndex(g.log, n) # 0
          /\ g.log[FindIndex(g.log, n)].Term = g.currentTerm /\ out = CommitTo(g, svc, n)
  BY DEF AfterCommitCheck, Outcome
<1>. HIDE DEF out
<1>. QED
  BY <1>9, <1>10, <1>11

-----------------------------------------------------------------------------
(* Snapshot *)

\* Compaction moves the boundary between log and snapshot and nothing else.
LEMMA CompactedWhole ==
    ASSUME NEW g \in RaftState, NEW w \in Seq(LogEntry), Whole(g, w), NEW snapshot \in Seq(Command),
           NEW n \in Nat, FindIndex(g.log, n) # 0, n <= g.commitIndex,
           \A i \in 1..(n + 1) : snapshot[i] = w[i].Command
    PROVE  LET h == Compacted(g, FindIndex(g.log, n), snapshot)
           IN  /\ Whole(h, w) /\ h.snapshot = snapshot /\ h.snapshotIndex = n
               /\ h.log \in Seq(LogEntry)
               /\ h.commitIndex = g.commitIndex /\ h.role = g.role /\ h.currentTerm = g.currentTerm
               /\ h.matchIndex = g.matchIndex /\ n + 1 <= Len(w) /\ n > g.snapshotIndex
               /\ g.log[FindIndex(g.log, n)] = w[n + 1]
<1>. DEFINE log == g.log
            k == g.snapshotIndex
            at == FindIndex(log, n)
            h == Compacted(g, at, snapshot)
            rest == SubSeq(log, at + 1, Len(log))
<1>1. /\ log \in Seq(LogEntry) /\ Len(log) \in Nat /\ Len(w) \in Nat /\ k \in Int /\ k >= -1
      /\ Len(w) = k + 1 + Len(log) /\ \A i \in 1..Len(log) : log[i] = w[k + 1 + i]
      /\ Follows(log, k)
  BY WholeTail
<1>2. Follows(w, -1)
  BY DEF Whole
<1>3. at = n - k /\ k < n /\ n <= k + Len(log)
  BY <1>1, FindFollows
<1>4. /\ h.snapshot = snapshot /\ h.snapshotIndex = log[at].Index /\ h.snapshotTerm = log[at].Term
      /\ h.log = rest /\ h.commitIndex = g.commitIndex /\ h.role = g.role
      /\ h.currentTerm = g.currentTerm /\ h.matchIndex = g.matchIndex
  BY DEF Compacted, RaftState
<1>5. log[at].Index = n
  BY <1>1, FindIndexIn
<1>. HIDE DEF h, at, log, k
<1>6. at \in 1..Len(log) /\ k + 1 + at = n + 1 /\ n + 1 <= Len(w)
  <2>1. /\ Len(log) \in Nat /\ Len(w) \in Nat /\ k \in Int /\ Len(w) = k + 1 + Len(log)
        /\ at = n - k /\ k < n /\ n <= k + Len(log)
    BY <1>1, <1>3
  <2>. QED
    BY <2>1
<1>7. log[at] = w[n + 1]
  BY <1>1, <1>6
<1>. DEFINE m == Len(log) - at
<1>8. at \in Nat /\ m \in Nat /\ at + m = Len(log) /\ m = Len(w) - (n + 1)
  BY <1>1, <1>3, <1>6
<1>9. rest \in Seq(LogEntry) /\ Len(rest) = m /\ \A i \in 1..m : rest[i] = log[at + i]
  <2>. HIDE DEF m
  <2>1. at + m <= Len(log)
    BY <1>1, <1>8
  <2>2. LET e == SubSeq(log, at + 1, at + m)
        IN  /\ e \in Seq(LogEntry) /\ Len(e) = m /\ DOMAIN e = 1..m
            /\ \A i \in 1..m : e[i] = log[at + i]
    BY <1>1, <1>8, <2>1, SliceIs
  <2>. QED
    BY <1>8, <2>2
<1>. HIDE DEF rest
<1>10. ASSUME NEW i \in 1..m PROVE rest[i] = w[n + 1 + i]
  <2>1. at + i \in 1..Len(log) /\ k + 1 + (at + i) = n + 1 + i
    BY <1>1, <1>6, <1>8
  <2>. QED
    BY <1>1, <1>9, <2>1
<1>11. Covers(snapshot, n, log[at].Term, w)
  BY <1>6, <1>7 DEF Covers
<1>12. Whole(h, w)
  <2>1. Covers(h.snapshot, h.snapshotIndex, h.snapshotTerm, w)
    BY <1>4, <1>5, <1>11
  <2>2. Len(h.log) = Len(w) - (h.snapshotIndex + 1) /\ 1..Len(h.log) = 1..m
    BY <1>4, <1>5, <1>8, <1>9
  <2>. HIDE DEF m
  <2>3. \A i \in 1..Len(h.log) : h.log[i] = w[h.snapshotIndex + 1 + i]
    BY <1>4, <1>5, <1>10, <2>2
  <2>4. h.snapshotIndex <= h.commitIndex
    BY <1>4, <1>5
  <2>. QED
    BY <1>2, <2>1, <2>2, <2>3, <2>4 DEF Whole
<1>. QED
  BY <1>3, <1>4, <1>5, <1>6, <1>7, <1>9, <1>12 DEF h, at, log, k

\* Snapshot gives the service the snapshot and the committed rest.
LEMMA SnapshotApplies ==
    ASSUME NEW g \in RaftState, NEW w \in Seq(LogEntry), Whole(g, w), NEW svc \in Seq(Command),
           Applied(svc, w, g.commitIndex + 1), g.commitIndex + 1 <= Len(w),
           NEW n \in Nat, n + 1 <= Len(svc), FindIndex(g.log, n) # 0
    PROVE  LET out == AfterSnapshot(g, svc, n)
           IN  /\ Whole(out.g, w) /\ out.g.snapshotIndex = n
               /\ out.g.commitIndex = g.commitIndex /\ out.g.role = g.role
               /\ out.g.currentTerm = g.currentTerm /\ out.g.matchIndex = g.matchIndex
               /\ Applied(out.service, w, g.commitIndex + 1)
               /\ Len(out.service) = g.commitIndex + 1 /\ out.fault = "none"
<1>. DEFINE snapshot == SubSeq(svc, 1, n + 1)
            h == Compacted(g, FindIndex(g.log, n), snapshot)
            cur == g.commitIndex
            rest == IF h.commitIndex > h.snapshotIndex
                      THEN SubSeq(h.log, 1, FindIndex(h.log, h.commitIndex)) ELSE <<>>
<1>1. /\ Len(svc) \in Nat /\ Len(w) \in Nat /\ cur \in Int /\ Len(svc) <= cur + 1
      /\ \A i \in 1..Len(svc) : svc[i] = w[i].Command
      /\ Follows(w, -1) /\ cur + 1 <= Len(w)
  <2>1. cur \in Int
    BY DEF RaftState, LogIndex
  <2>. QED
    BY <2>1 DEF Applied, Whole
<1>. HIDE DEF cur
<1>2. /\ snapshot \in Seq(Command) /\ Len(snapshot) = n + 1
      /\ \A i \in 1..(n + 1) : snapshot[i] = svc[i]
  <2>1. snapshot \in Seq(Command)
    BY <1>1, SliceIn
  <2>2. Len(snapshot) = n + 1 /\ \A i \in 1..(n + 1) : snapshot[i] = svc[1 + i - 1]
    BY <1>1, SubSeqProperties
  <2>. HIDE DEF snapshot
  <2>3. \A i \in 1..(n + 1) : 1 + i - 1 = i
    OBVIOUS
  <2>. QED
    BY <2>1, <2>2, <2>3
<1>. HIDE DEF snapshot
<1>3. \A i \in 1..(n + 1) : snapshot[i] = w[i].Command
  BY <1>1, <1>2
<1>4. n <= g.commitIndex
  BY <1>1 DEF cur
<1>5. /\ Whole(h, w) /\ h.snapshot = snapshot /\ h.snapshotIndex = n /\ h.log \in Seq(LogEntry)
      /\ h.commitIndex = g.commitIndex /\ h.role = g.role /\ h.currentTerm = g.currentTerm
      /\ h.matchIndex = g.matchIndex /\ n + 1 <= Len(w)
  BY <1>2, <1>3, <1>4, CompactedWhole
<1>6. AfterSnapshot(g, svc, n) = Deliver(h, h.snapshot, rest)
  BY DEF AfterSnapshot, snapshot
<1>. HIDE DEF h
<1>7. h.commitIndex = cur /\ n <= cur
  BY <1>4, <1>5 DEF cur
<1>8. /\ Len(h.log) = Len(w) - (n + 1)
      /\ \A i \in 1..Len(h.log) : h.log[i] = w[n + 1 + i]
      /\ Len(h.log) \in Nat
  BY <1>5 DEF Whole
<1>9. Follows(h.log, n)
  <2>1. ASSUME NEW i \in DOMAIN h.log PROVE h.log[i].Index = n + i
    <3>1. i \in 1..Len(h.log) /\ n + 1 + i \in DOMAIN w /\ -1 + (n + 1 + i) = n + i
      BY <1>1, <1>5, <1>8
    <3>2. w[n + 1 + i].Index = -1 + (n + 1 + i)
      BY <1>1, <3>1 DEF Follows
    <3>. QED
      BY <1>8, <3>1, <3>2
  <2>. QED
    BY <2>1 DEF Follows
<1>10. /\ rest \in Seq(LogEntry) /\ Len(rest) = cur - n
       /\ \A i \in 1..(cur - n) : rest[i] = w[n + 1 + i]
  <2>1. CASE cur = n
    <3>1. rest = <<>>
      BY <1>5, <1>7, <2>1
    <3>2. cur - n = 0 /\ 1..(cur - n) = {}
      BY <1>1, <2>1
    <3>. HIDE DEF rest
    <3>. QED
      BY <3>1, <3>2
  <2>2. CASE cur > n
    <3>1. FindIndex(h.log, cur) = cur - n
      <4>1. n < cur /\ cur <= n + Len(h.log)
        BY <1>1, <1>8, <2>2
      <4>. QED
        BY <1>1, <1>5, <1>9, <4>1, FindFollows
    <3>. DEFINE z == 0
                k == cur - n
    <3>2. z \in Nat /\ k \in Nat /\ z + k <= Len(h.log) /\ z + 1 = 1 /\ z + k = k
      BY <1>1, <1>7, <1>8
    <3>3. rest = SubSeq(h.log, z + 1, z + k)
      BY <1>5, <1>7, <2>2, <3>1, <3>2
    <3>. HIDE DEF z, k, rest
    <3>4. LET e == SubSeq(h.log, z + 1, z + k)
          IN  /\ e \in Seq(LogEntry) /\ Len(e) = k /\ DOMAIN e = 1..k
              /\ \A i \in 1..k : e[i] = h.log[z + i]
      BY <1>5, <3>2, SliceIs
    <3>5. ASSUME NEW i \in 1..k PROVE rest[i] = w[n + 1 + i]
      <4>1. z + i = i /\ i \in 1..Len(h.log)
        BY <1>8, <3>2 DEF z
      <4>. QED
        BY <1>8, <3>3, <3>4, <4>1
    <3>. QED
      BY <3>3, <3>4, <3>5 DEF k
  <2>. QED
    BY <1>1, <1>7, <2>1, <2>2
<1>. HIDE DEF rest
<1>11. Applied(snapshot, w, n + 1)
  BY <1>1, <1>2, <1>3, <1>5 DEF Applied
<1>12. LET out == Deliver(h, snapshot, rest)
       IN  /\ Applied(out.service, w, cur + 1) /\ Len(snapshot) <= Len(out.service)
           /\ Len(snapshot) = n + 1 => Len(out.service) = cur + 1 /\ out.fault = "none"
  <2>1. n \in Int /\ n >= -1
    OBVIOUS
  <2>. QED
    BY <1>1, <1>2, <1>7, <1>10, <1>11, <2>1, DeliverApplies
<1>13. Deliver(h, snapshot, rest).g = h
  BY DEF Deliver, Outcome
<1>. QED
  BY <1>2, <1>5, <1>6, <1>12, <1>13 DEF cur

\* One server s becomes h.  It asks with the end of its log as before, or
\* asks no more.
LEMMA AsksKept ==
    ASSUME RaftInv, NEW s \in Server, NEW h, rf' = [rf EXCEPT ![s] = h], CallsAsk, AsksStay,
           led \subseteq led',
           h.role = "candidate" =>
               /\ rf[s].role = "candidate" /\ h.currentTerm = rf[s].currentTerm
               /\ \/ LastIndex(h) = LastIndex(rf[s]) /\ LastTerm(h) = LastTerm(rf[s])
                  \/ Led(rf[s].currentTerm)
    PROVE  CallsAsk'
<1>1. \A p \in Server : rf'[p] = IF p = s THEN h ELSE rf[p]
  BY DEF RaftInv, NodeInv
<1>2. ASSUME NEW c \in rvCalls', rf'[c.from].role = "candidate",
             rf'[c.from].currentTerm = c.Term, ~Led(c.Term)'
      PROVE  c.LastLogIndex = LastIndex(rf'[c.from]) /\ c.LastLogTerm = LastTerm(rf'[c.from])
  <2>1. PICK d \in rvCalls : /\ c.from = d.from /\ c.Term = d.Term
                             /\ c.LastLogIndex = d.LastLogIndex /\ c.LastLogTerm = d.LastLogTerm
    BY <1>2 DEF AsksStay
  <2>2. d.from \in Server
    BY DEF RaftInv, CallInv, RequestVoteCall
  <2>3. ~Led(c.Term)
    BY <1>2 DEF Led
  <2>4. CASE d.from # s
    <3>1. rf'[c.from] = rf[d.from]
      BY <1>1, <2>1, <2>2, <2>4
    <3>. QED
      BY <1>2, <2>1, <2>3, <3>1 DEF CallsAsk
  <2>5. CASE d.from = s
    <3>1. rf'[c.from] = h
      BY <1>1, <2>1, <2>5
    <3>2. rf[s].role = "candidate" /\ rf[s].currentTerm = c.Term
      BY <1>2, <3>1
    <3>3. LastIndex(h) = LastIndex(rf[s]) /\ LastTerm(h) = LastTerm(rf[s])
      BY <1>2, <2>3, <3>1, <3>2
    <3>4. d.LastLogIndex = LastIndex(rf[s]) /\ d.LastLogTerm = LastTerm(rf[s])
      BY <2>1, <2>3, <2>5, <3>2 DEF CallsAsk
    <3>. QED
      BY <2>1, <3>1, <3>3, <3>4
  <2>. QED
    BY <2>4, <2>5
<1>. QED
  BY <1>2 DEF CallsAsk, LastIndex, LastTerm

\* A step that moves the boundary between a log and its snapshot, or nothing,
\* keeps the chronicle.
LEMMA BoundaryChronicle ==
    ASSUME RaftInv, RaftInv', TermsGrow, led' = led, NEW L, NEW A, NEW W,
           Chronicle(L, A, W), WholeLogs(W)', VotesStay, CallsStay, InstallsStay,
           \A p \in Server : rf'[p].commitIndex = rf[p].commitIndex /\ rf'[p].role = rf[p].role
                             /\ rf'[p].currentTerm = rf[p].currentTerm
                             /\ rf'[p].matchIndex = rf[p].matchIndex
    PROVE  Chronicle(L, A, W)'
<1>0. /\ LeaderLogs(L) /\ WholeLogs(W) /\ LeadersHaveTheirs(L, W) /\ LogsRooted(L, W)
      /\ AcceptedFits(L, A) /\ AcceptedStays(A, W) /\ LaterLeadersHave(L, A)
      /\ VotesCarry(A, W) /\ MatchAccepted(A) /\ RepliesAccepted(A)
      /\ CommitsChosen(A, W) /\ CallsFit(L, A) /\ SnapshotsFit(L, A)
      /\ W \in [Server -> Seq(LogEntry)]
  BY DEF Chronicle, WholeLogs
<1>1. Grows(A, A)
  BY DEF Grows
<1>2. LeaderLogs(L)'
  BY <1>0, LeaderLogsKept
<1>3. LeadersHaveTheirs(L, W)'
  BY <1>0, TheirsKept
<1>4. LogsRooted(L, W)'
  BY <1>0, LogsRootedKept
<1>5. AcceptedFits(L, A)'
  <2>1. A \subseteq Server \X Nat \X Seq(LogEntry)
    BY <1>0 DEF AcceptedFits
  <2>. QED
    BY <1>0, <2>1, FitsKept
<1>6. AcceptedStays(A, W)'
  BY <1>0, <1>1, StaysKept
<1>7. LaterLeadersHave(L, A)'
  BY <1>0, <1>1, LaterKept
<1>8. VotesCarry(A, W)'
  BY <1>0, VotesStayCarry
<1>9. MatchAccepted(A)'
  BY <1>0, MatchKept
<1>10. CommitsChosen(A, W)'
  <2>1. CommitsStay
    BY PeerIn DEF CommitsStay
  <2>. QED
    BY <1>0, <2>1, CommitsStayChosen
<1>11. CallsFit(L, A)' /\ RepliesAccepted(A)' /\ SnapshotsFit(L, A)'
  BY <1>0, CallsStayFit, InstallsStayFit
<1>. QED
  BY <1>2, <1>3, <1>4, <1>5, <1>6, <1>7, <1>8, <1>9, <1>10, <1>11 DEF Chronicle

\* The committed part of a log is there.
LEMMA CommitsWithin ==
    ASSUME RaftInv, NEW L, NEW A, NEW W, Chronicle(L, A, W), NEW s \in Server
    PROVE  /\ rf[s].commitIndex + 1 <= Len(W[s]) /\ W[s] \in Seq(LogEntry) /\ Len(W[s]) \in Nat
           /\ Whole(rf[s], W[s])
<1>1. KnownChosen(A, W[s], rf[s].commitIndex + 1, disk[s].currentTerm)
  BY DEF Chronicle, CommitsChosen
<1>2. W[s] \in Seq(LogEntry) /\ Whole(rf[s], W[s])
  BY DEF Chronicle, WholeLogs
<1>3. rf[s].commitIndex \in Int /\ Len(W[s]) \in Nat
  BY <1>2, PeerIn
<1>4. rf[s].commitIndex + 1 > 0 => rf[s].commitIndex + 1 <= Len(W[s])
  BY <1>1 DEF KnownChosen
<1>5. rf[s].commitIndex + 1 <= Len(W[s])
  BY <1>3, <1>4
<1>. QED
  BY <1>2, <1>3, <1>5

\* Snapshot.
LEMMA SnapshotKeepsCommit ==
    ASSUME RaftInv, RaftInv', TallyInv, CommitInv, CleanHistory, NEW s \in Server,
           NEW n \in Nat, Snapshot(s, n)
    PROVE  CommitInv'
<1>. DEFINE g == rf[s]
            svc == service[s]
            out == AfterSnapshot(g, svc, n)
            h == out.g
<1>1. /\ rf' = [rf EXCEPT ![s] = h] /\ disk' = [disk EXCEPT ![s] = Persistent(h)]
      /\ service' = [service EXCEPT ![s] = out.service]
      /\ n + 1 <= Len(svc) /\ UNCHANGED <<calls, goroutines, history>>
  BY DEF Snapshot, Finish
<1>2. /\ g \in RaftState /\ svc \in Seq(Command) /\ rf \in [Server -> RaftState]
      /\ service \in [Server -> Seq(Command)] /\ Covered(g)
  BY PeerIn DEF RaftInv, NodeInv
<1>3. /\ AsksStay /\ CallsStay /\ InstallsStay
      /\ led' = led /\ granted' = granted /\ won' = won /\ goroutines' = goroutines
  BY <1>1, AnsweredStay DEF calls, history
<1>4. CASE FindIndex(g.log, n) = 0
  <2>1. h = g /\ out.service = svc
    BY <1>4 DEF AfterSnapshot, Outcome
  <2>2. service' = service
    BY <1>1, <1>2, <2>1
  <2>3. LogKept(rf[s], h) /\ h.commitIndex = rf[s].commitIndex /\ KeepsRole(rf[s], h)
    BY <2>1 DEF LogKept, KeepsRole
  <2>4. h \in RaftState /\ h.matchIndex = rf[s].matchIndex
    BY <1>2, <2>1
  <2>. HIDE DEF h
  <2>. QED
    BY <1>1, <1>3, <2>2, <2>3, <2>4, HandlerKeepsCommit
<1>5. CASE FindIndex(g.log, n) # 0
  <2>1. PICK L, A, W : Chronicle(L, A, W) /\ AppliedIsCommitted(W)
    BY DEF CommitInv
  <2>2. NoLeftovers /\ CallsAsk
    BY DEF CommitInv
  <2>3. /\ g.commitIndex + 1 <= Len(W[s]) /\ W[s] \in Seq(LogEntry)
        /\ Whole(g, W[s]) /\ Applied(svc, W[s], g.commitIndex + 1)
    <3>1. Applied(svc, W[s], g.commitIndex + 1)
      BY <2>1 DEF AppliedIsCommitted
    <3>. QED
      BY <2>1, <3>1, CommitsWithin
  <2>4. /\ Whole(h, W[s]) /\ h.commitIndex = g.commitIndex /\ h.role = g.role
        /\ h.currentTerm = g.currentTerm /\ h.matchIndex = g.matchIndex
        /\ Applied(out.service, W[s], g.commitIndex + 1)
    <3>. HIDE DEF g, svc
    <3>. QED
      BY <1>1, <1>2, <1>5, <2>3, SnapshotApplies
  <2>5. h \in RaftState
    BY <1>1, <1>2, AfterSnapshotIn DEF OutcomeState
  <2>. DEFINE given == out.service
  <2>6. service' = [service EXCEPT ![s] = given] /\ Applied(given, W[s], g.commitIndex + 1)
    BY <1>1, <2>4
  <2>. HIDE DEF h, given, out
  <2>7. /\ \A p \in Server : rf'[p] = IF p = s THEN h ELSE rf[p]
        /\ \A p \in Server : service'[p] = IF p = s THEN given ELSE service[p]
    BY <1>1, <1>2, <2>6
  <2>8. \A p \in Server : /\ rf'[p].commitIndex = rf[p].commitIndex /\ rf'[p].role = rf[p].role
                          /\ rf'[p].currentTerm = rf[p].currentTerm
                          /\ rf'[p].matchIndex = rf[p].matchIndex
    BY <2>4, <2>7
  <2>9. TermsGrow
    <3>1. rf[s].currentTerm <= h.currentTerm
      BY <2>4, PeerIn
    <3>. QED
      BY <1>1, <2>5, <3>1, SavedTermsGrow
  <2>10. WholeLogs(W)'
    <3>1. W \in [Server -> Seq(LogEntry)] /\ \A p \in Server : Whole(rf[p], W[p])
      BY <2>1 DEF Chronicle, WholeLogs
    <3>2. \A p \in Server : Whole(rf'[p], W[p])
      BY <2>4, <2>7, <3>1
    <3>. QED
      BY <3>1, <3>2 DEF WholeLogs, Whole, Follows, Covers
  <2>11. VotesStay
    BY <1>3, <2>8 DEF VotesStay
  <2>12. Chronicle(L, A, W)'
    BY <1>3, <2>1, <2>8, <2>9, <2>10, <2>11, BoundaryChronicle
  <2>13. AppliedIsCommitted(W)'
    <3>1. ASSUME NEW p \in Server PROVE Applied(service'[p], W[p], rf'[p].commitIndex + 1)
      <4>1. CASE p = s
        BY <2>6, <2>7, <2>8, <4>1
      <4>2. CASE p # s
        BY <2>1, <2>7, <4>2 DEF AppliedIsCommitted
      <4>. QED
        BY <4>1, <4>2
    <3>. QED
      BY <3>1 DEF AppliedIsCommitted, Applied
  <2>14. CallsAsk'
    <3>1. /\ LastIndex(g) = Len(W[s]) - 1 /\ LastIndex(h) = Len(W[s]) - 1
          /\ W[s] = <<>> => LastTerm(g) = 0 /\ LastTerm(h) = 0
          /\ W[s] # <<>> => LastTerm(g) = TermOf(W[s]) /\ LastTerm(h) = TermOf(W[s])
      <4>. HIDE DEF g
      <4>. QED
        BY <1>2, <2>3, <2>4, <2>5, LastOfWhole
    <3>2. LastIndex(h) = LastIndex(g) /\ LastTerm(h) = LastTerm(g)
      BY <3>1
    <3>3. led \subseteq led'
      BY <1>3
    <3>. QED
      BY <1>1, <1>3, <2>2, <2>4, <3>2, <3>3, AsksKept
  <2>15. NoLeftovers'
    BY <1>3, <2>2, <2>8 DEF NoLeftovers
  <2>. QED
    BY <2>12, <2>13, <2>14, <2>15 DEF CommitInv
<1>. QED
  BY <1>4, <1>5

-----------------------------------------------------------------------------
(* Becoming leader, and Start *)

(***************************************************************************)
(* A server leads its term with a log that extends the one it had, and all *)
(* that leaders of the term had, and that has whatever can still be chosen *)
(* in an earlier term.  It accepts its own log.                            *)
(***************************************************************************)
LEMMA LeaderChronicle ==
    ASSUME RaftInv, RaftInv', LeadInv', OneLeaderPerTerm', NEW L, NEW A, NEW W, Chronicle(L, A, W),
           NEW s \in Server, NEW g \in RaftState, NEW V \in [Server -> Seq(LogEntry)],
           WholeLogs(V)', \A p \in Server : p # s => V[p] = W[p],
           rf' = [rf EXCEPT ![s] = g], disk' = [disk EXCEPT ![s] = Persistent(g)],
           g.role = "leader", g.currentTerm = rf[s].currentTerm, g.commitIndex = rf[s].commitIndex,
           led' = led \cup {<<s, g.currentTerm>>}, granted' = granted, aeCalls' = aeCalls,
           isCalls' = isCalls,
           Begins(W[s], V[s]), \A l \in L : l[1] = g.currentTerm => Begins(l[2], V[s]),
           Ordered(<<g.currentTerm, V[s]>>), Rooted(L \cup {<<g.currentTerm, V[s]>>}, V[s]),
           \A x \in Filled : Choosable(A, x) /\ TermOf(x) < g.currentTerm => Begins(x, V[s]),
           \A q \in Server : g.matchIndex[q] >= 0 =>
               \/ rf[s].role = "leader" /\ g.matchIndex[q] = rf[s].matchIndex[q]
               \/ q = s /\ g.matchIndex[q] < Len(V[s])
    PROVE  Chronicle(L \cup {<<g.currentTerm, V[s]>>}, A \cup {<<s, g.currentTerm, V[s]>>}, V)'
<1>. DEFINE t == g.currentTerm
            new == V[s]
            nl == <<t, new>>
            ne == <<s, t, new>>
            M == L \cup {nl}
            B == A \cup {ne}
<1>1. /\ LeaderLogs(L) /\ LeadersHaveTheirs(L, W) /\ LogsRooted(L, W)
      /\ AcceptedFits(L, A) /\ AcceptedStays(A, W) /\ LaterLeadersHave(L, A)
      /\ VotesCarry(A, W) /\ MatchAccepted(A) /\ RepliesAccepted(A)
      /\ CommitsChosen(A, W) /\ CallsFit(L, A) /\ SnapshotsFit(L, A)
      /\ W \in [Server -> Seq(LogEntry)]
  BY DEF Chronicle, WholeLogs
<1>2. /\ t \in Nat /\ new \in Seq(LogEntry) /\ Len(new) \in Nat /\ t = rf[s].currentTerm
      /\ disk[s].currentTerm \in Nat /\ disk[s].currentTerm <= t /\ W[s] \in Seq(LogEntry)
      /\ Len(W[s]) \in Nat
  <2>1. W[s] \in Seq(LogEntry)
    BY <1>1
  <2>. QED
    BY <2>1, PeerIn
<1>3. \A p \in Server : rf'[p] = IF p = s THEN g ELSE rf[p]
  BY DEF RaftInv, NodeInv
<1>4. TermsGrow /\ disk'[s].currentTerm = t
  <2>1. rf[s].currentTerm <= g.currentTerm
    BY <1>2
  <2>. QED
    BY <2>1, SavedTermsGrow
<1>5. /\ nl[1] = t /\ nl[2] = new /\ ne[1] = s /\ ne[2] = t /\ ne[3] = new
      /\ nl \in M /\ ne \in B /\ L \subseteq M /\ A \subseteq B
      /\ \A l \in M : l \in L \/ l = nl
      /\ \A e \in B : e \in A \/ e = ne
  OBVIOUS
<1>6. /\ led' = led \cup {<<s, t>>} /\ Begins(W[s], new) /\ (\A l \in L : l[1] = t => Begins(l[2], new))
      /\ Ordered(nl) /\ Rooted(M, new)
      /\ \A x \in Filled : Choosable(A, x) /\ TermOf(x) < t => Begins(x, new)
  OBVIOUS
<1>7. M \subseteq Nat \X Seq(LogEntry) /\ B \subseteq Server \X Nat \X Seq(LogEntry)
  BY <1>1, <1>2 DEF LeaderLogs, AcceptedFits
<1>8. \A p \in Server : rf'[p].role = "leader" /\ rf'[p].currentTerm = t => p = s
  <2>. SUFFICES ASSUME NEW p \in Server, rf'[p].role = "leader", rf'[p].currentTerm = t
                PROVE  p = s
    OBVIOUS
  <2>1. <<p, t>> \in led'
    BY DEF LeadInv, LeadsOwnTerm
  <2>2. <<p, t>>[2] = <<s, t>>[2] => <<p, t>>[1] = <<s, t>>[1]
    BY <2>1 DEF OneLeaderPerTerm
  <2>. QED
    BY <2>2
<1>9. rf'[s] = g /\ V[s] = new /\ \A p \in Server : p # s => V[p] = W[p]
  BY <1>3
<1>10. Begins(new, new)
  BY <1>2, BeginsSelf
<1>11. Grows(A, B)
  BY <1>2, <1>5 DEF Grows
<1>12. /\ g.role = "leader" /\ g.commitIndex = rf[s].commitIndex
       /\ \A q \in Server : g.matchIndex[q] >= 0 =>
              \/ rf[s].role = "leader" /\ g.matchIndex[q] = rf[s].matchIndex[q]
              \/ q = s /\ g.matchIndex[q] < Len(new)
  OBVIOUS
<1>13. V[s] = new /\ g.currentTerm = t /\ led \subseteq led'
  OBVIOUS
<1>. HIDE DEF t, new, nl, ne, M, B
<1>14. LeaderLogs(M)'
  <2>1. ASSUME NEW l \in M
        PROVE  (\E p \in Server : <<p, l[1]>> \in led') /\ Ordered(l) /\ Rooted(M, l[2])
    <3>1. CASE l \in L
      <4>1. (\E p \in Server : <<p, l[1]>> \in led) /\ Ordered(l) /\ Rooted(L, l[2])
        BY <1>1, <3>1 DEF LeaderLogs
      <4>2. Rooted(M, l[2])
        BY <1>5, <4>1 DEF Rooted
      <4>. QED
        BY <1>6, <4>1, <4>2
    <3>2. CASE l = nl
      BY <1>5, <1>6, <3>2
    <3>. QED
      BY <1>5, <3>1, <3>2
  <2>2. ASSUME NEW l \in M, NEW m \in M, l[1] = m[1] PROVE Begins(l[2], m[2]) \/ Begins(m[2], l[2])
    <3>1. CASE l \in L /\ m \in L
      BY <1>1, <2>2, <3>1 DEF LeaderLogs
    <3>2. CASE l = nl /\ m \in L
      BY <1>5, <1>6, <2>2, <3>2
    <3>3. CASE m = nl /\ l \in L
      BY <1>5, <1>6, <2>2, <3>3
    <3>4. CASE l = nl /\ m = nl
      BY <1>5, <1>10, <3>4
    <3>. QED
      BY <1>5, <3>1, <3>2, <3>3, <3>4
  <2>3. ASSUME NEW l \in M PROVE Ordered(l)' /\ Rooted(M, l[2])'
    BY <2>1 DEF Ordered, Rooted, SameUpTo
  <2>4. \A l, m \in M : l[1] = m[1] => Begins(l[2], m[2])' \/ Begins(m[2], l[2])'
    BY <2>2 DEF Begins
  <2>. QED
    BY <1>7, <2>1, <2>3, <2>4 DEF LeaderLogs
<1>15. LeadersHaveTheirs(M, V)'
  <2>1. ASSUME NEW p \in Server, rf'[p].role = "leader"
        PROVE  /\ <<rf'[p].currentTerm, V[p]>> \in M
               /\ \A l \in M : l[1] = rf'[p].currentTerm => Begins(l[2], V[p])
    <3>1. CASE p = s
      <4>1. rf'[p].currentTerm = t /\ V[p] = new
        BY <1>9, <1>13, <3>1
      <4>2. <<t, new>> \in M
        BY <1>5 DEF nl
      <4>3. \A l \in M : l[1] = t => Begins(l[2], new)
        BY <1>5, <1>6, <1>10
      <4>. QED
        BY <4>1, <4>2, <4>3
    <3>2. CASE p # s
      <4>1. rf'[p] = rf[p] /\ V[p] = W[p]
        BY <1>3, <1>9, <3>2
      <4>2. /\ <<rf[p].currentTerm, W[p]>> \in L
            /\ \A l \in L : l[1] = rf[p].currentTerm => Begins(l[2], W[p])
        BY <1>1, <2>1, <4>1 DEF LeadersHaveTheirs
      <4>3. rf[p].currentTerm # t
        BY <1>8, <2>1, <3>2, <4>1
      <4>. QED
        BY <1>5, <4>1, <4>2, <4>3
    <3>. QED
      BY <3>1, <3>2
  <2>. QED
    BY <2>1 DEF LeadersHaveTheirs, Begins
<1>16. LogsRooted(M, V)'
  <2>1. ASSUME NEW n \in DOMAIN new PROVE new[n].Term <= t
    <3>1. nl[2][n].Term <= nl[1]
      <4>1. n \in DOMAIN nl[2] /\ n <= n
        BY <1>2, <1>5
      <4>. QED
        BY <1>6, <4>1 DEF Ordered
    <3>. QED
      BY <1>5, <3>1
  <2>2. Rooted(M, V[s]) /\ \A n \in DOMAIN V[s] : V[s][n].Term <= disk'[s].currentTerm
    BY <1>4, <1>6, <1>9, <1>13, <2>1
  <2>3. \A p \in Server : p = s \/ V[p] = W[p]
    BY <1>9
  <2>. QED
    <3>1. /\ L \subseteq M /\ LogsRooted(L, W) /\ TermsGrow /\ W \in [Server -> Seq(LogEntry)]
          /\ \A p \in Server :
                 \/ V[p] = W[p]
                 \/ /\ Rooted(M, V[p])
                    /\ \A n \in DOMAIN V[p] : V[p][n].Term <= disk'[p].currentTerm
      BY <1>1, <1>4, <1>5, <2>2, <2>3
    <3>. QED
      BY <3>1, LogsRootedKept
<1>17. AcceptedFits(M, B)'
  <2>1. ASSUME NEW e \in B
        PROVE  \/ e \in A
               \/ /\ e[2] <= disk'[e[1]].currentTerm
                  /\ \E l \in M : l[1] = e[2] /\ Begins(e[3], l[2])
    <3>1. CASE e = ne
      <4>1. t <= disk'[s].currentTerm
        BY <1>2, <1>4
      <4>. QED
        BY <1>5, <1>10, <3>1, <4>1
    <3>. QED
      BY <1>5, <3>1
  <2>. QED
    <3>1. /\ L \subseteq M /\ AcceptedFits(L, A) /\ TermsGrow
          /\ B \subseteq Server \X Nat \X Seq(LogEntry)
      BY <1>1, <1>4, <1>5, <1>7
    <3>. QED
      BY <2>1, <3>1, FitsKept
<1>18. AcceptedStays(B, V)'
  <2>1. \A e \in B : e \in A \/ (e[3] \in Seq(LogEntry) /\ Begins(e[3], V[e[1]]))
    BY <1>2, <1>5, <1>9, <1>10, <1>13
  <2>2. ASSUME NEW p \in Server, NEW x \in Filled, Begins(x, W[p]) PROVE Begins(x, V[p])
    <3>1. CASE p = s
      <4>1. x \in Seq(LogEntry)
        BY FilledIn
      <4>2. Begins(x, new)
        BY <1>2, <1>6, <2>2, <3>1, <4>1, BeginsTrans
      <4>. QED
        BY <1>9, <1>13, <3>1, <4>2
    <3>2. CASE p # s
      BY <1>9, <2>2, <3>2
    <3>. QED
      BY <3>1, <3>2
  <2>. QED
    BY <1>1, <1>4, <1>11, <2>1, <2>2, StaysKept
<1>19. LaterLeadersHave(M, B)'
  <2>1. \A l \in M : l \in L \/ \A x \in Filled :
            Choosable(A, x) /\ TermOf(x) < l[1] => Begins(x, l[2])
    BY <1>5, <1>6
  <2>. QED
    BY <1>1, <1>4, <1>11, <2>1, LaterKept
<1>20. VotesCarry(B, V)'
  <2>1. \A p \in Server : rf'[p].role = "candidate" =>
            /\ rf[p].role = "candidate" /\ rf'[p].currentTerm = rf[p].currentTerm
            /\ V[p] = W[p]
    BY <1>3, <1>9, <1>12
  <2>. QED
    BY <1>1, <1>4, <1>11, <1>13, <2>1, VotesCarryKept
<1>21. MatchAccepted(B)'
  <2>1. ASSUME NEW p \in Server, NEW q \in Server, rf'[p].role = "leader", rf'[p].matchIndex[q] >= 0
        PROVE  \/ /\ rf[p].role = "leader" /\ rf'[p].currentTerm = rf[p].currentTerm
                  /\ rf'[p].matchIndex[q] = rf[p].matchIndex[q]
               \/ AcceptedUpTo(B, q, rf'[p].currentTerm, rf'[p].matchIndex[q])
    <3>1. CASE p # s
      BY <1>3, <2>1, <3>1
    <3>2. CASE p = s
      <4>1. rf'[p] = g
        BY <1>9, <3>2
      <4>2. CASE rf[s].role = "leader" /\ g.matchIndex[q] = rf[s].matchIndex[q]
        BY <1>2, <1>13, <3>2, <4>1, <4>2
      <4>3. CASE q = s /\ g.matchIndex[q] < Len(new)
        <5>1. AcceptedUpTo(B, s, t, g.matchIndex[s])
          BY <1>5, <4>3 DEF AcceptedUpTo
        <5>. QED
          BY <1>13, <4>1, <4>3, <5>1
      <4>. QED
        BY <1>12, <2>1, <4>1, <4>2, <4>3
    <3>. QED
      BY <3>1, <3>2
  <2>. QED
    BY <1>1, <1>5, <2>1, MatchKept
<1>22. RepliesAccepted(B)'
  <2>1. \A c \in aeCalls : Alike(c, c)
    BY DEF Alike
  <2>. QED
    BY <1>1, <1>5, <2>1, RepliesKept
<1>23. CommitsChosen(B, V)'
  <2>1. ASSUME NEW p \in Server
        PROVE  /\ rf'[p].commitIndex <= rf[p].commitIndex
               /\ rf'[p].commitIndex + 1 <= Len(V[p])
                     \/ V[p] = W[p] \/ rf'[p].commitIndex = -1
               /\ SameUpTo(V[p], W[p], rf'[p].commitIndex + 1)
    <3>1. CASE p # s
      <4>1. rf'[p] = rf[p] /\ V[p] = W[p]
        BY <1>3, <1>9, <3>1
      <4>. QED
        BY <4>1, PeerIn DEF SameUpTo
    <3>2. CASE p = s
      <4>1. /\ rf'[p].commitIndex = rf[p].commitIndex /\ V[p] = new
            /\ rf[p].commitIndex \in Int /\ rf[p].commitIndex >= -1
        BY <1>9, <1>12, <1>13, <3>2, PeerIn
      <4>2. KnownChosen(A, W[p], rf[p].commitIndex + 1, disk[p].currentTerm)
        BY <1>1 DEF CommitsChosen
      <4>3. rf[p].commitIndex + 1 > 0 => rf[p].commitIndex + 1 <= Len(W[p])
        BY <4>2 DEF KnownChosen
      <4>4. rf[p].commitIndex + 1 <= Len(W[p])
        BY <1>2, <3>2, <4>1, <4>3
      <4>5. Len(W[p]) <= Len(new) /\ \A i \in 1..Len(W[p]) : W[p][i] = new[i]
        BY <1>6, <3>2 DEF Begins
      <4>6. \A i \in 1..(rf[p].commitIndex + 1) : new[i] = W[p][i]
        BY <1>2, <3>2, <4>1, <4>4, <4>5
      <4>7. rf[p].commitIndex + 1 <= Len(new)
        BY <1>2, <3>2, <4>1, <4>4, <4>5
      <4>. QED
        BY <4>1, <4>6, <4>7 DEF SameUpTo
    <3>. QED
      BY <3>1, <3>2
  <2>. QED
    BY <1>1, <1>4, <1>5, <2>1, CommitsKept
<1>24. CallsFit(M, B)'
  <2>1. aeCalls \subseteq AppendEntriesCall
    BY DEF RaftInv, CallInv
  <2>2. \A c \in aeCalls : SameCall(c, c)
    BY DEF SameCall, Alike
  <2>. QED
    BY <1>1, <1>5, <1>13, <2>1, <2>2, CallsFitKept
<1>26. SnapshotsFit(M, B)'
  <2>1. isCalls \subseteq InstallSnapshotCall
    BY DEF RaftInv, CallInv
  <2>2. \A c \in isCalls : SameInstall(c, c)
    BY DEF SameInstall
  <2>. QED
    BY <1>1, <1>5, <1>13, <2>1, <2>2, SnapshotsFitKept
<1>27. WholeLogs(V)'
  OBVIOUS
<1>25. Chronicle(M, B, V)'
  BY <1>14, <1>15, <1>16, <1>17, <1>18, <1>19, <1>20, <1>21, <1>22, <1>23, <1>24,
     <1>26, <1>27 DEF Chronicle
<1>. QED
  BY <1>25 DEF M, B, nl, ne, t, new

\* A candidate that has won has whatever can be chosen in an earlier term.
LEMMA WinnerHas ==
    ASSUME RaftInv, TallyInv, NEW A, NEW W, VotesCarry(A, W), NEW s \in Server, rf[s].role = "candidate",
           <<s, rf[s].currentTerm>> \in won, ~Led(rf[s].currentTerm), NEW x \in Filled, Choosable(A, x),
           TermOf(x) < rf[s].currentTerm
    PROVE  Begins(x, W[s])
<1>. DEFINE t == rf[s].currentTerm
<1>1. t \in Nat /\ TermOf(x) \in Nat
  BY PeerIn, FilledIn
<1>2. IsQuorum(Cardinality(Voters(s, t))) /\ Voters(s, t) \in SUBSET Server
  <2>1. \A w \in won : IsQuorum(Cardinality(Voters(w[1], w[2])))
    BY DEF TallyInv, WonByQuorum
  <2>2. <<s, t>>[1] = s /\ <<s, t>>[2] = t
    OBVIOUS
  <2>3. IsQuorum(Cardinality(Voters(s, t)))
    BY <2>1, <2>2
  <2>. QED
    BY <2>3 DEF Voters
<1>3. PICK Q \in SUBSET Server :
          /\ IsQuorum(Cardinality(Q))
          /\ \A p \in Q : HasAccepted(A, p, x) \/ disk[p].currentTerm <= TermOf(x)
  BY DEF Choosable
<1>4. PICK p \in Server : p \in Voters(s, t) /\ p \in Q
  BY <1>2, <1>3, MajoritiesMeet
<1>. DEFINE v == <<p, t, s>>
<1>5. v \in granted
  BY <1>4 DEF Voters
<1>6. v[1] = p /\ v[2] = t /\ v[3] = s
  OBVIOUS
<1>7. v[2] <= disk[v[1]].currentTerm
  BY <1>5 DEF RaftInv, VoteInv, VoteRemembered
<1>8. ~(disk[p].currentTerm <= TermOf(x))
  BY <1>1, <1>6, <1>7, PeerIn
<1>9. HasAccepted(A, v[1], x) /\ TermOf(x) < v[2]
  BY <1>3, <1>4, <1>6, <1>8
<1>. HIDE DEF v
<1>10. Begins(x, W[v[3]])
  BY <1>5, <1>6, <1>9 DEF VotesCarry
<1>. QED
  BY <1>6, <1>10

\* toLeader
LEMMA ToLeaderKeepsCommit ==
    ASSUME RaftInv, RaftInv', TallyInv, LeadInv, LeadInv', CleanElectionSafety',
           CommitInv, CleanHistory, CleanHistory', NEW s \in Server, ToLeader(s)
    PROVE  CommitInv'
<1>0. PICK L, A, W : Chronicle(L, A, W) /\ AppliedIsCommitted(W)
  BY DEF CommitInv
<1>. DEFINE g == Leader(rf[s], s)
            t == rf[s].currentTerm
            log == W[s]
<1>1. /\ g \in RaftState /\ LogKept(rf[s], g) /\ g.currentTerm = t
  BY PeerIn, LeaderIn
<1>2. /\ g.role = "leader" /\ g.commitIndex = rf[s].commitIndex
      /\ g.matchIndex = [p \in Server |-> IF p = s THEN LastIndex(rf[s]) ELSE -1]
  BY PeerIn DEF Leader, RaftState
<1>3. /\ goroutines[s]["toLeader"] # 0 /\ "toLeader" \in Point
      /\ rf' = [rf EXCEPT ![s] = g] /\ disk' = [disk EXCEPT ![s] = Persistent(g)] /\ service' = service
      /\ led' = led \cup {<<s, t>>} /\ aeCalls' = aeCalls /\ rvCalls' = rvCalls /\ isCalls' = isCalls
      /\ granted' = granted /\ won' = won
  BY DEF ToLeader, Save, At, Point, calls
<1>4. \A p \in Server \ {s} : goroutines'[p] = goroutines[p]
  BY DEF ToLeader, Move, RaftInv, RestInv
<1>5. NoLeftovers /\ CallsAsk
  BY DEF CommitInv
<1>6. /\ rf[s].role \in Role /\ t \in Nat /\ log \in Seq(LogEntry) /\ Len(log) \in Nat
      /\ disk[s].currentTerm \in Nat /\ disk[s].currentTerm <= t
  <2>1. W \in [Server -> Seq(LogEntry)]
    BY <1>0 DEF Chronicle, WholeLogs
  <2>. QED
    BY <2>1, PeerIn
<1>7. OneLeaderPerTerm'
  BY DEF CleanElectionSafety, CleanHistory
<1>8. <<s, t>> \in won
  BY <1>3 DEF CleanHistory
<1>9. rf[s].role \in {"candidate", "leader"}
  BY <1>3, <1>5, <1>6, <1>8 DEF NoLeftovers, Role
<1>10. LastIndex(rf[s]) = Len(log) - 1
  <2>1. Whole(rf[s], W[s])
    BY <1>0 DEF Chronicle, WholeLogs
  <2>. QED
    BY <1>6, <2>1, PeerIn, LastOfWhole
<1>. HIDE DEF g
<1>11. \A p \in Server : rf'[p] = IF p = s THEN g ELSE rf[p]
  BY <1>3 DEF RaftInv, NodeInv
<1>13. /\ LeaderLogs(L) /\ LeadersHaveTheirs(L, W) /\ LogsRooted(L, W)
       /\ AcceptedFits(L, A) /\ LaterLeadersHave(L, A) /\ VotesCarry(A, W)
       /\ WholeLogs(W) /\ W \in [Server -> Seq(LogEntry)]
  BY <1>0 DEF Chronicle, WholeLogs
<1>24. rf[s].role = "candidate" => ~Led(t)
  <2>. SUFFICES ASSUME rf[s].role = "candidate", Led(t) PROVE FALSE
    OBVIOUS
  <2>1. PICK p \in Server : <<p, t>> \in led
    BY DEF Led
  <2>2. <<s, t>> \notin led
    BY DEF LeadInv, LeadsOwnTerm
  <2>3. <<p, t>> \in led' /\ <<s, t>> \in led'
    BY <1>3, <2>1
  <2>4. <<p, t>>[2] = <<s, t>>[2] => <<p, t>>[1] = <<s, t>>[1]
    BY <1>7, <2>3 DEF OneLeaderPerTerm
  <2>. QED
    BY <2>1, <2>2, <2>4
<1>14. \A l \in L : l[1] = t => Begins(l[2], log)
  <2>1. CASE rf[s].role = "leader"
    BY <1>13, <2>1 DEF LeadersHaveTheirs
  <2>2. CASE rf[s].role = "candidate"
    BY <1>13, <1>24, <2>2 DEF LeaderLogs, Led
  <2>. QED
    BY <1>9, <2>1, <2>2
<1>15. \A x \in Filled : Choosable(A, x) /\ TermOf(x) < t => Begins(x, log)
  <2>1. CASE rf[s].role = "leader"
    <3>1. <<t, log>> \in L
      BY <1>13, <2>1 DEF LeadersHaveTheirs
    <3>2. <<t, log>>[1] = t /\ <<t, log>>[2] = log
      OBVIOUS
    <3>. QED
      BY <1>13, <3>1, <3>2 DEF LaterLeadersHave
  <2>2. CASE rf[s].role = "candidate"
    BY <1>8, <1>13, <1>24, <2>2, WinnerHas
  <2>. QED
    BY <1>9, <2>1, <2>2
<1>16. Ordered(<<t, log>>)
  <2>0. <<t, log>>[1] = t /\ <<t, log>>[2] = log
    OBVIOUS
  <2>1. ASSUME NEW i \in DOMAIN log, NEW j \in DOMAIN log, i <= j
        PROVE  log[i].Term <= log[j].Term /\ log[j].Term <= t
    <3>1. Rooted(L, log)
      BY <1>13 DEF LogsRooted
    <3>2. log[i].Term <= log[j].Term
      BY <1>6, <1>13, <2>1, <3>1, RootedOrdered
    <3>3. log[j].Term <= disk[s].currentTerm
      BY <1>13 DEF LogsRooted
    <3>4. log[j] \in LogEntry
      BY <1>6, ElementOfSeq
    <3>5. log[j].Term \in Nat
      BY <3>4 DEF LogEntry
    <3>6. log[j].Term <= t
      BY <1>6, <3>3, <3>5
    <3>. QED
      BY <3>2, <3>6
  <2>. QED
    BY <2>0, <2>1 DEF Ordered
<1>17. Rooted(L \cup {<<t, log>>}, log)
  BY <1>13 DEF LogsRooted, Rooted
<1>18. g.currentTerm = rf[s].currentTerm /\ Begins(log, log)
  BY <1>1, <1>6, BeginsSelf
<1>19. \A q \in Server : g.matchIndex[q] >= 0 =>
           \/ rf[s].role = "leader" /\ g.matchIndex[q] = rf[s].matchIndex[q]
           \/ q = s /\ g.matchIndex[q] < Len(log)
  <2>1. \A q \in Server : g.matchIndex[q] = IF q = s THEN Len(log) - 1 ELSE -1
    BY <1>2, <1>10
  <2>2. ~(-1 >= 0) /\ Len(log) - 1 < Len(log)
    BY <1>6
  <2>. HIDE DEF log
  <2>. QED
    BY <2>1, <2>2
<1>25. WholeLogs(W)'
  <2>1. \A p \in Server : Whole(rf[p], W[p])
    BY <1>13 DEF WholeLogs
  <2>2. ASSUME NEW p \in Server PROVE Whole(rf'[p], W[p])
    <3>1. CASE p = s
      BY <1>1, <1>2, <1>11, <2>1, <3>1 DEF Whole, LogKept
    <3>2. CASE p # s
      BY <1>11, <2>1, <3>2
    <3>. QED
      BY <3>1, <3>2
  <2>. QED
    BY <1>13, <2>2 DEF WholeLogs, Whole, Follows, Covers
<1>20. \E M, B : Chronicle(M, B, W)'
  <2>1. PICK h \in RaftState : h = g
    BY <1>1
  <2>2. /\ h.role = "leader" /\ h.currentTerm = rf[s].currentTerm
        /\ h.commitIndex = rf[s].commitIndex /\ Begins(W[s], W[s])
        /\ rf' = [rf EXCEPT ![s] = h] /\ disk' = [disk EXCEPT ![s] = Persistent(h)]
        /\ granted' = granted /\ aeCalls' = aeCalls /\ led' = led \cup {<<s, h.currentTerm>>}
        /\ isCalls' = isCalls
    BY <1>2, <1>3, <1>18, <2>1
  <2>3. /\ \A l \in L : l[1] = h.currentTerm => Begins(l[2], W[s])
        /\ Ordered(<<h.currentTerm, W[s]>>) /\ Rooted(L \cup {<<h.currentTerm, W[s]>>}, W[s])
        /\ \A x \in Filled : Choosable(A, x) /\ TermOf(x) < h.currentTerm => Begins(x, W[s])
    BY <1>14, <1>15, <1>16, <1>17, <1>18, <2>1
  <2>4. \A q \in Server : h.matchIndex[q] >= 0 =>
            \/ rf[s].role = "leader" /\ h.matchIndex[q] = rf[s].matchIndex[q]
            \/ q = s /\ h.matchIndex[q] < Len(W[s])
    BY <1>19, <2>1
  <2>5. Chronicle(L \cup {<<h.currentTerm, W[s]>>}, A \cup {<<s, h.currentTerm, W[s]>>}, W)'
    <3>1. W \in [Server -> Seq(LogEntry)] /\ WholeLogs(W)' /\ Chronicle(L, A, W)
      BY <1>0, <1>13, <1>25
    <3>. QED
      BY <1>7, <2>2, <2>3, <2>4, <3>1, LeaderChronicle
  <2>. QED
    BY <2>5
<1>21. NoLeftovers'
  BY <1>2, <1>3, <1>4, <1>5, LeftoversKept
<1>22. CallsAsk'
  <2>1. AsksStay /\ led \subseteq led'
    BY <1>3, AnsweredStay
  <2>. QED
    BY <1>2, <1>3, <1>5, <2>1, AsksKept
<1>23. AppliedIsCommitted(W)'
  <2>1. \A p \in Server : rf'[p].commitIndex = rf[p].commitIndex
    BY <1>2, <1>11
  <2>. QED
    BY <1>0, <1>3, <2>1, AppliedKept
<1>. QED
  BY <1>20, <1>21, <1>22, <1>23 DEF CommitInv

\* An entry at the end of the log is one at the end of the whole log.
LEMMA AppendWhole ==
    ASSUME NEW g \in RaftState, NEW w \in Seq(LogEntry), Whole(g, w), NEW e \in LogEntry,
           e.Index = Len(w), NEW h, h.log = Append(g.log, e), LogKept([g EXCEPT !.log = h.log], h),
           h.commitIndex = g.commitIndex, NEW new, new = Append(w, e)
    PROVE  Whole(h, new)
<1>. DEFINE short == g.log
            n == g.snapshotIndex
<1>1. /\ short \in Seq(LogEntry) /\ Len(short) \in Nat /\ n \in Int /\ n >= -1
      /\ Len(w) = n + 1 + Len(short) /\ \A i \in 1..Len(short) : short[i] = w[n + 1 + i]
      /\ Len(w) \in Nat
  BY WholeTail
<1>2. /\ Follows(w, -1) /\ Covers(g.snapshot, n, g.snapshotTerm, w) /\ n <= g.commitIndex
  BY DEF Whole
<1>3. /\ new \in Seq(LogEntry) /\ Len(new) = Len(w) + 1 /\ DOMAIN new = 1..(Len(w) + 1)
      /\ \A i \in 1..Len(w) : new[i] = w[i]
      /\ new[Len(w) + 1] = e /\ DOMAIN w = 1..Len(w)
  OBVIOUS
<1>4. /\ Len(h.log) = Len(short) + 1 /\ \A i \in 1..Len(short) : h.log[i] = short[i]
      /\ h.log[Len(short) + 1] = e
  BY <1>1
<1>5. /\ h.snapshot = g.snapshot /\ h.snapshotIndex = n /\ h.snapshotTerm = g.snapshotTerm
  BY DEF LogKept, RaftState
<1>. HIDE DEF short, n
<1>6. Follows(new, -1)
  <2>1. ASSUME NEW i \in DOMAIN new PROVE new[i].Index = -1 + i
    <3>1. CASE i \in 1..Len(w)
      BY <1>2, <1>3, <3>1 DEF Follows
    <3>2. CASE i = Len(w) + 1
      BY <1>1, <1>3, <3>2
    <3>. QED
      BY <1>1, <1>3, <3>1, <3>2
  <2>. QED
    BY <2>1 DEF Follows
<1>7. Covers(g.snapshot, n, g.snapshotTerm, new)
  <2>1. n + 1 <= Len(w) /\ n + 1 <= Len(new)
    BY <1>1, <1>3
  <2>2. \A i \in 1..(n + 1) : new[i] = w[i]
    BY <1>1, <1>3, <2>1
  <2>3. n # -1 => new[n + 1] = w[n + 1]
    BY <1>1, <2>2
  <2>. QED
    BY <1>2, <2>1, <2>2, <2>3 DEF Covers
<1>8. Len(h.log) = Len(new) - (n + 1)
  BY <1>1, <1>3, <1>4
<1>9. ASSUME NEW i \in 1..Len(h.log) PROVE h.log[i] = new[n + 1 + i]
  <2>1. CASE i \in 1..Len(short)
    <3>1. n + 1 + i \in 1..Len(w)
      BY <1>1, <2>1
    <3>. QED
      BY <1>1, <1>3, <1>4, <2>1, <3>1
  <2>2. CASE i = Len(short) + 1
    <3>1. n + 1 + i = Len(w) + 1
      BY <1>1, <2>2
    <3>. QED
      BY <1>3, <1>4, <2>2, <3>1
  <2>. QED
    BY <1>1, <1>4, <2>1, <2>2
<1>. QED
  BY <1>2, <1>5, <1>6, <1>7, <1>8, <1>9 DEF Whole

\* Start
LEMMA StartKeepsCommit ==
    ASSUME RaftInv, RaftInv', LeadInv, LeadInv', CleanElectionSafety',
           CommitInv, CleanHistory, CleanHistory', NEW s \in Server, NEW command \in Command, Start(s, command)
    PROVE  CommitInv'
<1>15. PICK L, A, W : Chronicle(L, A, W) /\ AppliedIsCommitted(W)
  BY DEF CommitInv
<1>. DEFINE log == W[s]
            t   == rf[s].currentTerm
            e   == [Term |-> t, Index |-> LastIndex(rf[s]) + 1, Command |-> command]
            new == Append(log, e)
            nl  == <<t, new>>
<1>1. /\ rf[s] \in RaftState /\ t \in Nat /\ log \in Seq(LogEntry) /\ Len(log) \in Nat
      /\ disk[s].currentTerm \in Nat /\ disk[s].currentTerm <= t
  <2>1. W \in [Server -> Seq(LogEntry)]
    BY <1>15 DEF Chronicle, WholeLogs
  <2>. QED
    BY <2>1, PeerIn
<1>2. WithCommand(rf[s], s, command) \in RaftState
  BY <1>1, WithCommandIn
<1>3. PICK h \in RaftState : h = WithCommand(rf[s], s, command)
  BY <1>2
<1>4. /\ h.log = Append(rf[s].log, e) /\ h.currentTerm = t /\ h.role = rf[s].role
      /\ h.commitIndex = rf[s].commitIndex /\ h.snapshotTerm = rf[s].snapshotTerm
      /\ h.snapshot = rf[s].snapshot /\ h.snapshotIndex = rf[s].snapshotIndex
      /\ h.matchIndex = [rf[s].matchIndex EXCEPT ![s] = LastIndex(rf[s]) + 1]
  BY <1>1, <1>3 DEF WithCommand, RaftState
<1>5. LastIndex(rf[s]) + 1 = Len(log)
  <2>1. Whole(rf[s], W[s])
    BY <1>15 DEF Chronicle, WholeLogs
  <2>2. LastIndex(rf[s]) = Len(log) - 1
    BY <1>1, <2>1, LastOfWhole
  <2>. HIDE DEF log
  <2>. QED
    BY <1>1, <2>2
<1>6. /\ rf' = [rf EXCEPT ![s] = h] /\ disk' = [disk EXCEPT ![s] = Persistent(h)]
      /\ aeCalls' = aeCalls /\ rvCalls' = rvCalls /\ isCalls' = isCalls /\ service' = service
      /\ led' = led /\ granted' = granted /\ won' = won /\ rf[s].role = "leader"
  BY <1>3 DEF Start, Save, calls, IsLeader, history
<1>7. \A p \in Server \ {s} : goroutines'[p] = goroutines[p]
  BY DEF Start, Spawn, RaftInv, RestInv
<1>8. NoLeftovers /\ CallsAsk
  BY DEF CommitInv
<1>9. OneLeaderPerTerm'
  BY DEF CleanElectionSafety, CleanHistory
<1>10. e \in LogEntry /\ e.Term = t /\ e.Index = Len(log)
  BY <1>1, <1>5 DEF LogEntry
<1>11. led' = led \cup {<<s, t>>}
  BY <1>6 DEF LeadInv, LeadsOwnTerm
<1>12. \A q \in Server : rf'[q] = IF q = s THEN h ELSE rf[q]
  BY <1>6 DEF RaftInv, NodeInv
<1>. HIDE DEF e
<1>13. /\ new \in Seq(LogEntry) /\ Len(new) = Len(log) + 1 /\ DOMAIN new = 1..(Len(log) + 1)
       /\ \A i \in 1..Len(log) : new[i] = log[i]
       /\ new[Len(log) + 1] = e /\ DOMAIN log = 1..Len(log)
  BY <1>1, <1>10
<1>. HIDE DEF new
<1>0. \A i \in DOMAIN new : (i \in 1..Len(log) /\ i \in DOMAIN log) \/ i = Len(log) + 1
  <2>. HIDE DEF log
  <2>. QED
    BY <1>1, <1>13
<1>14. Begins(log, new)
  BY <1>1, <1>13 DEF Begins
<1>16. /\ LeaderLogs(L) /\ LeadersHaveTheirs(L, W) /\ LogsRooted(L, W) /\ LaterLeadersHave(L, A)
       /\ L \subseteq Nat \X Seq(LogEntry)
       /\ WholeLogs(W) /\ W \in [Server -> Seq(LogEntry)]
  BY <1>15 DEF Chronicle, LeaderLogs, WholeLogs
<1>17. <<t, log>> \in L /\ <<t, log>>[1] = t /\ <<t, log>>[2] = log
  BY <1>6, <1>16 DEF LeadersHaveTheirs
<1>18. ASSUME NEW l \in L, l[1] = t PROVE Begins(l[2], new)
  <2>1. Begins(l[2], log) /\ l[2] \in Seq(LogEntry)
    BY <1>6, <1>16, <1>18 DEF LeadersHaveTheirs
  <2>. QED
    BY <1>1, <1>13, <1>14, <2>1, BeginsTrans
<1>19. ASSUME NEW x \in Filled, Choosable(A, x), TermOf(x) < t PROVE Begins(x, new)
  <2>1. Begins(x, log)
    BY <1>16, <1>17, <1>19 DEF LaterLeadersHave
  <2>2. x \in Seq(LogEntry)
    BY FilledIn
  <2>. QED
    BY <1>1, <1>13, <1>14, <2>1, <2>2, BeginsTrans
<1>20. Rooted(L, log) /\ \A n \in DOMAIN log : log[n].Term <= t /\ log[n].Term \in Nat
  <2>1. Rooted(L, log) /\ \A n \in DOMAIN log : log[n].Term <= disk[s].currentTerm
    BY <1>16 DEF LogsRooted
  <2>2. ASSUME NEW n \in DOMAIN log PROVE log[n].Term <= t /\ log[n].Term \in Nat
    <3>1. log[n] \in LogEntry
      BY <1>1, ElementOfSeq
    <3>2. log[n].Term \in Nat
      BY <3>1 DEF LogEntry
    <3>. QED
      BY <1>1, <2>1, <3>2
  <2>. QED
    BY <2>1, <2>2
<1>21. Ordered(nl)
  <2>1. ASSUME NEW i \in DOMAIN new, NEW j \in DOMAIN new, i <= j
        PROVE  new[i].Term <= new[j].Term /\ new[j].Term <= t
    <3>0. i \in Int /\ j \in Int
      BY <1>1, <1>13
    <3>1. CASE j \in 1..Len(log)
      <4>1. i \in 1..Len(log) /\ i \in DOMAIN log /\ j \in DOMAIN log
        BY <1>1, <1>13, <2>1, <3>0, <3>1
      <4>2. log[i].Term <= log[j].Term
        BY <1>1, <1>16, <1>20, <2>1, <4>1, RootedOrdered
      <4>. QED
        BY <1>13, <1>20, <4>1, <4>2
    <3>2. CASE j = Len(log) + 1
      <4>1. new[j].Term = t
        BY <1>10, <1>13, <3>2
      <4>2. CASE i \in 1..Len(log)
        <5>1. i \in DOMAIN log /\ new[i] = log[i]
          BY <1>13, <4>2
        <5>2. log[i].Term <= t
          BY <1>20, <5>1
        <5>. QED
          BY <1>1, <4>1, <5>1, <5>2
      <4>3. CASE i = Len(log) + 1
        BY <1>1, <1>10, <1>13, <4>1, <4>3
      <4>. QED
        BY <1>0, <4>2, <4>3
    <3>. QED
      BY <1>0, <3>1, <3>2
  <2>2. nl[1] = t /\ nl[2] = new
    OBVIOUS
  <2>. QED
    BY <2>1, <2>2 DEF Ordered
<1>22. Rooted(L \cup {nl}, new)
  <2>1. ASSUME NEW n \in DOMAIN new
        PROVE  \E l \in L \cup {nl} : l[1] = new[n].Term /\ n <= Len(l[2]) /\ SameUpTo(new, l[2], n)
    <3>1. CASE n \in 1..Len(log)
      <4>1. n \in DOMAIN log /\ new[n] = log[n]
        BY <1>13, <3>1
      <4>2. PICK l \in L : l[1] = log[n].Term /\ n <= Len(l[2]) /\ SameUpTo(log, l[2], n)
        BY <1>20, <4>1 DEF Rooted
      <4>3. SameUpTo(new, l[2], n)
        <5>1. \A i \in 1..n : i \in 1..Len(log)
          BY <1>1, <3>1
        <5>. QED
          BY <1>13, <4>2, <5>1 DEF SameUpTo
      <4>. QED
        BY <4>1, <4>2, <4>3
    <3>2. CASE n = Len(log) + 1
      <4>1. nl[1] = new[n].Term /\ n <= Len(nl[2]) /\ SameUpTo(new, nl[2], n)
        BY <1>1, <1>10, <1>13, <3>2 DEF SameUpTo
      <4>. QED
        BY <4>1
    <3>. QED
      BY <1>0, <3>1, <3>2
  <2>. QED
    BY <2>1 DEF Rooted
<1>23. ASSUME NEW q \in Server, h.matchIndex[q] >= 0
       PROVE  \/ rf[s].role = "leader" /\ h.matchIndex[q] = rf[s].matchIndex[q]
              \/ q = s /\ h.matchIndex[q] < Len(new)
  <2>1. rf[s].matchIndex \in [Server -> Int]
    BY <1>1 DEF RaftState
  <2>2. h.matchIndex[q] = IF q = s THEN Len(log) ELSE rf[s].matchIndex[q]
    <3>. HIDE DEF log
    <3>. QED
      BY <1>4, <1>5, <2>1
  <2>3. Len(log) < Len(new)
    BY <1>1, <1>13
  <2>. QED
    BY <1>6, <2>2, <2>3
<1>28. PICK V : V = [W EXCEPT ![s] = new]
  OBVIOUS
<1>29. V \in [Server -> Seq(LogEntry)] /\ V[s] = new /\ \A p \in Server : p # s => V[p] = W[p]
  BY <1>13, <1>16, <1>28
<1>30. Whole(h, new)
  <2>1. Whole(rf[s], log) /\ LogKept([rf[s] EXCEPT !.log = h.log], h)
    BY <1>1, <1>4, <1>16 DEF WholeLogs, LogKept, RaftState
  <2>2. PICK g \in RaftState : g = rf[s]
    BY <1>1
  <2>. HIDE DEF log
  <2>. QED
    BY <1>1, <1>4, <1>10, <2>1, <2>2, AppendWhole DEF new
<1>31. WholeLogs(V)'
  <2>1. \A p \in Server : Whole(rf[p], W[p])
    BY <1>16 DEF WholeLogs
  <2>2. \A p \in Server : Whole(rf'[p], V[p])
    BY <1>12, <1>29, <1>30, <2>1
  <2>. QED
    BY <1>29, <2>2 DEF WholeLogs, Whole, Follows, Covers
<1>24. \E M, B : Chronicle(M, B, V)'
  <2>1. /\ h.role = "leader" /\ h.currentTerm = rf[s].currentTerm
        /\ h.commitIndex = rf[s].commitIndex /\ Begins(W[s], V[s])
        /\ led' = led \cup {<<s, h.currentTerm>>}
    BY <1>4, <1>6, <1>11, <1>14, <1>29
  <2>2. /\ \A l \in L : l[1] = h.currentTerm => Begins(l[2], V[s])
        /\ Ordered(<<h.currentTerm, V[s]>>) /\ Rooted(L \cup {<<h.currentTerm, V[s]>>}, V[s])
        /\ \A x \in Filled : Choosable(A, x) /\ TermOf(x) < h.currentTerm => Begins(x, V[s])
    BY <1>4, <1>18, <1>19, <1>21, <1>22, <1>29
  <2>3. \A q \in Server : h.matchIndex[q] >= 0 =>
            \/ rf[s].role = "leader" /\ h.matchIndex[q] = rf[s].matchIndex[q]
            \/ q = s /\ h.matchIndex[q] < Len(V[s])
    BY <1>23, <1>29
  <2>4. Chronicle(L \cup {<<h.currentTerm, V[s]>>}, A \cup {<<s, h.currentTerm, V[s]>>}, V)'
    <3>1. /\ V \in [Server -> Seq(LogEntry)] /\ WholeLogs(V)' /\ Chronicle(L, A, W)
          /\ \A p \in Server : p # s => V[p] = W[p]
      BY <1>15, <1>29, <1>31
    <3>. QED
      BY <1>6, <1>9, <2>1, <2>2, <2>3, <3>1, LeaderChronicle
  <2>. QED
    BY <2>4
<1>25. NoLeftovers'
  BY <1>4, <1>6, <1>7, <1>8, LeftoversKept
<1>26. CallsAsk'
  <2>1. AsksStay /\ led \subseteq led'
    BY <1>6, AnsweredStay
  <2>. QED
    BY <1>4, <1>6, <1>8, <2>1, AsksKept
<1>27. AppliedIsCommitted(V)'
  <2>1. ASSUME NEW p \in Server PROVE Applied(service'[p], V[p], rf'[p].commitIndex + 1)
    <3>1. Applied(service[p], W[p], rf[p].commitIndex + 1)
      BY <1>15 DEF AppliedIsCommitted
    <3>2. rf'[p].commitIndex = rf[p].commitIndex /\ service'[p] = service[p]
      BY <1>4, <1>6, <1>12
    <3>3. CASE p = s
      <4>1. Len(service[p]) \in Nat
        BY PeerIn
      <4>2. ASSUME NEW i \in 1..Len(service[p]) PROVE i <= Len(new) /\ service[p][i] = new[i].Command
        <5>1. i <= Len(log) /\ service[p][i] = log[i].Command
          BY <3>1, <3>3 DEF Applied
        <5>2. i \in 1..Len(log)
          BY <1>1, <4>1, <5>1
        <5>. QED
          BY <1>1, <1>13, <5>1, <5>2
      <4>. QED
        BY <1>29, <3>1, <3>2, <3>3, <4>2 DEF Applied
    <3>4. CASE p # s
      BY <1>29, <3>1, <3>2, <3>4
    <3>. QED
      BY <3>3, <3>4
  <2>. QED
    BY <2>1 DEF AppliedIsCommitted, Applied
<1>. QED
  BY <1>24, <1>25, <1>26, <1>27 DEF CommitInv

-----------------------------------------------------------------------------
(* followerHandleLog *)

\* The entries that follow the match at position at, where b goes on with
\* them and ends, are merged into the log.
LEMMA MergeJoins ==
    ASSUME NEW log \in Seq(LogEntry), NEW b \in Seq(LogEntry), NEW entries \in Seq(LogEntry),
           NEW at \in 0..Len(log), at + Len(entries) = Len(b), PartOf(entries, b, at),
           SameUpTo(log, b, at), Matching(log, b)
    PROVE  Merged(log, b, MergeEntries(log, at, entries))
<1>. DEFINE new == MergeEntries(log, at, entries)
<1>9. Len(log) \in Nat /\ at \in 0..Len(log) /\ at \in Int
  OBVIOUS
<1>8. new = MergeEntries(log, at, entries)
  OBVIOUS
<1>. HIDE DEF new
<1>1. /\ at + Len(entries) = Len(b) /\ \A i \in DOMAIN entries : entries[i] = b[at + i]
  BY DEF PartOf
<1>0. /\ entries \in Seq(LogEntry) /\ Len(entries) \in Nat /\ DOMAIN entries = 1..Len(entries)
      /\ Len(b) \in Nat /\ DOMAIN b = 1..Len(b) /\ DOMAIN log = 1..Len(log)
  OBVIOUS
<1>2. ASSUME NEW n \in Nat, n <= Len(log), n <= Len(b), n # 0 => log[n].Term = b[n].Term
      PROVE  \A i \in 1..n : log[i] = b[i]
  <2>1. CASE n = 0
    BY <2>1
  <2>2. CASE n # 0
    <3>1. n \in DOMAIN log \cap DOMAIN b /\ log[n].Term = b[n].Term
      BY <1>0, <1>2, <2>2
    <3>. QED
      BY <3>1 DEF Matching
  <2>. QED
    BY <2>1, <2>2
<1>3. \A i \in 1..at : log[i] = b[i]
  BY DEF SameUpTo
<1>. DEFINE differ == {i \in DOMAIN entries :
                         at + i <= Len(log) /\ log[at + i].Term # entries[i].Term}
<1>4. CASE Len(log) - at <= Len(entries)
  <2>1. new = SubSeq(log, 1, at) \o entries
    BY <1>8, <1>4 DEF MergeEntries
  <2>2. entries = SubSeq(entries, 1, Len(entries))
    BY <1>0, SubSeqFull
  <2>3. Begins(SubSeq(log, 1, at) \o SubSeq(entries, 1, Len(entries)), b)
    <3>1. at \in Nat /\ at <= Len(log) /\ 1 \in Nat \ {0} /\ 1 <= Len(entries) + 1
          /\ at = at + 1 - 1 /\ at + Len(entries) <= Len(b)
      BY <1>9, <1>0, <1>1
    <3>2. SameUpTo(log, b, at) /\ PartOf(entries, b, at) /\ entries \in Seq(LogEntry)
      BY <1>0, <1>1, <1>3 DEF SameUpTo, PartOf
    <3>. QED
      BY <3>1, <3>2, JoinBegins
  <2>4. Len(new) = Len(b)
    <3>1. SubSeq(log, 1, at) \in Seq(LogEntry) /\ Len(SubSeq(log, 1, at)) = at
      BY <1>9, CutShort
    <3>2. Len(SubSeq(log, 1, at) \o entries) = at + Len(entries)
      BY <1>0, <3>1, JoinedAt
    <3>. QED
      BY <1>1, <2>1, <3>2
  <2>5. Begins(new, b)
    BY <2>1, <2>2, <2>3
  <2>6. Begins(b, new)
    BY <1>0, <2>4, <2>5 DEF Begins
  <2>7. Len(log) <= Len(b)
    BY <1>9, <1>0, <1>1, <1>4
  <2>. QED
    BY <1>8, <2>5, <2>6, <2>7 DEF Merged
<1>5. CASE ~(Len(log) - at <= Len(entries)) /\ differ = {}
  <2>1. new = log
    BY <1>8, <1>5 DEF MergeEntries
  <2>2. Len(b) \in Nat /\ Len(b) <= Len(log) /\ (Len(b) # 0 => log[Len(b)].Term = b[Len(b)].Term)
    <3>1. Len(b) <= Len(log)
      BY <1>9, <1>0, <1>1, <1>5
    <3>2. CASE Len(entries) = 0
      <4>1. at = Len(b)
        BY <1>9, <1>0, <1>1, <3>2
      <4>2. at # 0 => at \in 1..at
        BY <1>9
      <4>. QED
        BY <1>0, <1>3, <3>1, <4>1, <4>2
    <3>3. CASE Len(entries) # 0
      <4>. DEFINE i == Len(entries)
      <4>1. i \in DOMAIN entries /\ at + i = Len(b) /\ i \notin differ
        BY <1>0, <1>1, <1>5, <3>3
      <4>. HIDE DEF i
      <4>2. log[at + i].Term = entries[i].Term
        BY <3>1, <4>1
      <4>. QED
        BY <1>0, <1>1, <3>1, <4>1, <4>2
    <3>. QED
      BY <3>2, <3>3
  <2>3. \A i \in 1..Len(b) : log[i] = b[i]
    BY <1>2, <2>2
  <2>4. Begins(b, log)
    BY <2>2, <2>3 DEF Begins
  <2>. QED
    BY <1>8, <2>1, <2>4 DEF Merged
<1>6. CASE ~(Len(log) - at <= Len(entries)) /\ differ # {}
  <2>. DEFINE m == First(differ)
              k == at + m - 1
  <2>1. new = SubSeq(log, 1, k) \o SubSeq(entries, m, Len(entries))
    BY <1>8, <1>6 DEF MergeEntries
  <2>2. differ \in SUBSET Nat
    BY <1>0
  <2>3. m \in differ /\ \A i \in differ : m <= i
    BY <1>6, <2>2, FirstIn
  <2>4. m \in 1..Len(entries) /\ at + m <= Len(log) /\ log[at + m].Term # entries[m].Term
    BY <1>0, <2>3
  <2>5. ASSUME m # 1 PROVE log[k].Term = b[k].Term
    <3>. DEFINE i == m - 1
    <3>1. i \in DOMAIN entries /\ at + i <= Len(log) /\ ~(m <= i) /\ k = at + i
      BY <1>9, <1>0, <2>4, <2>5
    <3>2. i \notin differ
      BY <2>3, <3>1
    <3>. HIDE DEF i, k, m
    <3>3. log[at + i].Term = entries[i].Term
      BY <3>1, <3>2
    <3>. QED
      BY <1>1, <3>1, <3>3
  <2>. HIDE DEF m, differ
  <2>6. \A i \in 1..k : log[i] = b[i]
    <3>1. CASE m = 1
      BY <1>9, <1>3, <3>1
    <3>2. CASE m # 1
      <4>1. k \in Nat /\ k <= Len(log) /\ k <= Len(b)
        BY <1>9, <1>0, <1>1, <2>4
      <4>. QED
        BY <1>2, <2>5, <3>2, <4>1
    <3>. QED
      BY <3>1, <3>2
  <2>7. k \in Nat /\ k <= Len(log) /\ m \in Nat \ {0} /\ m <= Len(entries) + 1 /\ k = at + m - 1
        /\ at \in Nat
    BY <1>9, <1>0, <2>4
  <2>. HIDE DEF k
  <2>8. Begins(new, b)
    <3>1. SameUpTo(log, b, k) /\ PartOf(entries, b, at) /\ entries \in Seq(LogEntry)
          /\ at + Len(entries) <= Len(b)
      BY <1>0, <1>1, <2>6 DEF SameUpTo, PartOf
    <3>. QED
      BY <2>1, <2>7, <3>1, JoinBegins
  <2>9. Len(new) = Len(b)
    <3>1. SubSeq(log, 1, k) \in Seq(LogEntry) /\ Len(SubSeq(log, 1, k)) = k
      BY <2>7, CutShort
    <3>2. /\ SubSeq(entries, m, Len(entries)) \in Seq(LogEntry)
          /\ Len(SubSeq(entries, m, Len(entries))) = Len(entries) - m + 1
      <4>1. m \in 1..Len(entries)
        BY <2>4
      <4>. QED
        BY <1>0, <4>1, SliceIn, SubSeqProperties
    <3>3. Len(new) = k + (Len(entries) - m + 1)
      BY <2>1, <3>1, <3>2, JoinedAt
    <3>4. at + Len(entries) = Len(b) /\ Len(entries) \in Nat /\ Len(b) \in Nat
      BY <1>0
    <3>. QED
      BY <2>7, <3>3, <3>4
  <2>10. Begins(b, new)
    BY <1>0, <2>8, <2>9 DEF Begins
  <2>11. Differ(log, b, at + m) /\ at + m \in Nat
    <3>1. at + m \in DOMAIN log /\ at + m \in DOMAIN b /\ m \in DOMAIN entries
      BY <1>9, <1>0, <1>1, <2>4
    <3>2. entries[m] = b[at + m]
      BY <1>1, <3>1
    <3>. QED
      BY <1>9, <2>4, <3>1, <3>2 DEF Differ
  <2>. QED
    BY <1>8, <2>8, <2>10, <2>11 DEF Merged
<1>. QED
  BY <1>4, <1>5, <1>6, <1>8

\* A request of e entries after prev starts before position n of a log of
\* length z and reaches at least that far.
Reaches(n, prev, e, z) == n <= z /\ prev >= -1 /\ prev < n /\ z = prev + 1 + e

\* It has entries before that position, and k after it.
Splits(n, prev, e, z) ==
    \E a, k \in Nat : /\ a + k = e /\ a + k <= e /\ n - prev = a + 1 /\ k = z - n
                      /\ prev + 1 + a = n

\* The one says the other.
LEMMA SplitAt ==
    ASSUME NEW n \in Nat, NEW prev \in Int, NEW e \in Nat, NEW z \in Nat, Reaches(n, prev, e, z)
    PROVE  Splits(n, prev, e, z)
<1>. DEFINE a == n - prev - 1
            k == z - n
<1>1. /\ a \in Nat /\ k \in Nat /\ a + k = e /\ a + k <= e
      /\ n - prev = a + 1 /\ k = z - n /\ prev + 1 + a = n
  BY DEF Reaches
<1>. HIDE DEF a, k
<1>. QED
  BY <1>1 DEF Splits

\* A position in the part of a log after n entries, counted from its start.
LEMMA ShiftedIn ==
    ASSUME NEW n \in Nat, NEW a \in Nat, NEW k \in 1..a
    PROVE  /\ n + k \in 1..(n + a) /\ n + k \in Nat /\ k \in 1..((n + a) - n)
           /\ n + k - 1 \in Nat /\ n + k - 1 <= n + a /\ k - 1 \in Nat /\ k - 1 <= a
           /\ n + (k - 1) = n + k - 1 /\ n <= n + k - 1
OBVIOUS

\* The part of a log after its first n entries.
After(b, n) == SubSeq(b, n + 1, Len(b))

\* Its entries are those of the log.
LEMMA AfterIs ==
    ASSUME NEW b \in Seq(LogEntry), NEW n \in Nat, n <= Len(b)
    PROVE  /\ After(b, n) \in Seq(LogEntry) /\ Len(After(b, n)) = Len(b) - n
           /\ \A i \in 1..(Len(b) - n) : After(b, n)[i] = b[n + i]
<1>. DEFINE k == Len(b) - n
<1>1. k \in Nat /\ n + k = Len(b) /\ n + k <= Len(b)
  OBVIOUS
<1>. HIDE DEF k
<1>2. LET e == SubSeq(b, n + 1, n + k)
      IN  /\ e \in Seq(LogEntry) /\ Len(e) = k /\ DOMAIN e = 1..k
          /\ \A i \in 1..k : e[i] = b[n + i]
  BY <1>1, SliceIs
<1>3. /\ After(b, n) \in Seq(LogEntry) /\ Len(After(b, n)) = k
      /\ \A i \in 1..k : After(b, n)[i] = b[n + i]
  BY <1>1, <1>2 DEF After
<1>. QED
  BY <1>3 DEF k

\* Another log after the same snapshot.
LEMMA WholeAgain ==
    ASSUME NEW g \in RaftState, NEW w \in Seq(LogEntry), Whole(g, w), NEW new \in Seq(LogEntry),
           NEW v \in Seq(LogEntry), Follows(v, -1), g.snapshotIndex + 1 <= Len(v),
           SameUpTo(v, w, g.snapshotIndex + 1), Len(new) = Len(v) - (g.snapshotIndex + 1),
           \A i \in 1..Len(new) : new[i] = v[g.snapshotIndex + 1 + i]
    PROVE  Whole([g EXCEPT !.log = new], v)
<1>. DEFINE h == [g EXCEPT !.log = new]
<1>1. /\ h.log = new /\ h.snapshotIndex = g.snapshotIndex /\ h.snapshot = g.snapshot
      /\ h.snapshotTerm = g.snapshotTerm /\ h.commitIndex = g.commitIndex
  BY DEF RaftState
<1>. HIDE DEF h
<1>2. g.snapshotIndex \in Int /\ g.snapshotIndex >= -1
  BY WholeTail
<1>3. Covers(g.snapshot, g.snapshotIndex, g.snapshotTerm, w) /\ g.snapshotIndex <= g.commitIndex
  BY DEF Whole
<1>4. \A i \in 1..(g.snapshotIndex + 1) : v[i] = w[i]
  BY DEF SameUpTo
<1>5. g.snapshotIndex # -1 => g.snapshotIndex + 1 \in 1..(g.snapshotIndex + 1)
  BY <1>2
<1>6. Covers(g.snapshot, g.snapshotIndex, g.snapshotTerm, v)
  BY <1>3, <1>4, <1>5 DEF Covers
<1>7. Whole(h, v)
  BY <1>1, <1>3, <1>6 DEF Whole
<1>. QED
  BY <1>7 DEF h

(***************************************************************************)
(* What the merge does to the log of g it does to the whole log: v is the  *)
(* whole log of g with the log new.                                        *)
(***************************************************************************)
LEMMA MergedWhole ==
    ASSUME NEW g \in RaftState, NEW w \in Seq(LogEntry), Whole(g, w), NEW n \in Nat,
           n = g.snapshotIndex + 1, NEW b \in Seq(LogEntry), n <= Len(b), SameUpTo(w, b, n),
           Follows(b, -1), NEW new \in Seq(LogEntry), Merged(g.log, After(b, n), new)
    PROVE  \E v \in Seq(LogEntry) : Whole([g EXCEPT !.log = new], v) /\ Merged(w, b, v)
<1>. DEFINE c == After(b, n)
<1>1. c \in Seq(LogEntry) /\ Len(c) = Len(b) - n /\ \A i \in 1..(Len(b) - n) : c[i] = b[n + i]
  BY AfterIs
<1>. HIDE DEF c
<1>2. /\ g.log \in Seq(LogEntry) /\ Len(g.log) \in Nat /\ Len(w) \in Nat
      /\ Len(w) = n + Len(g.log) /\ \A i \in 1..Len(g.log) : g.log[i] = w[n + i]
      /\ Len(b) \in Nat /\ Len(new) \in Nat
  BY WholeTail
<1>3. Merged(g.log, c, new)
  BY DEF c
<1>4. Len(c) \in Nat /\ Len(b) = n + Len(c)
  BY <1>1, <1>2
<1>5. CASE new = g.log /\ Begins(c, g.log)
  <2>1. [g EXCEPT !.log = new] = g
    BY <1>5 DEF RaftState
  <2>2. ASSUME NEW i \in 1..Len(b) PROVE b[i] = w[i]
    <3>1. CASE i \in 1..n
      BY <3>1 DEF SameUpTo
    <3>2. CASE i \notin 1..n
      <4>. DEFINE j == i - n
      <4>1. j \in 1..Len(c) /\ i = n + j
        BY <1>2, <1>4, <3>2
      <4>. HIDE DEF j
      <4>2. c[j] = g.log[j] /\ j \in 1..Len(g.log)
        BY <1>2, <1>4, <1>5, <4>1 DEF Begins
      <4>. QED
        BY <1>1, <1>2, <1>4, <4>1, <4>2
    <3>. QED
      BY <3>1, <3>2
  <2>3. Len(b) <= Len(w)
    BY <1>2, <1>4, <1>5 DEF Begins
  <2>4. Merged(w, b, w)
    BY <2>2, <2>3 DEF Merged, Begins
  <2>. QED
    BY <2>1, <2>4
<1>6. CASE /\ Begins(new, c) /\ Begins(c, new)
           /\ Len(g.log) <= Len(c) \/ \E k \in Nat : Differ(g.log, c, k)
  <2>1. Len(new) = Len(c) /\ \A i \in 1..Len(new) : new[i] = c[i]
    BY <1>2, <1>4, <1>6 DEF Begins
  <2>2. Len(new) = Len(b) - n /\ \A i \in 1..Len(new) : new[i] = b[n + i]
    BY <1>1, <2>1
  <2>3. SameUpTo(b, w, n)
    BY DEF SameUpTo
  <2>4. Whole([g EXCEPT !.log = new], b)
    BY <1>2, <2>2, <2>3, WholeAgain
  <2>5. Len(w) <= Len(b) \/ \E k \in Nat : Differ(w, b, k)
    <3>1. CASE Len(g.log) <= Len(c)
      BY <1>2, <1>4, <3>1
    <3>2. ASSUME NEW k \in Nat, Differ(g.log, c, k) PROVE Differ(w, b, n + k) /\ n + k \in Nat
      <4>1. k \in 1..Len(g.log) /\ k \in 1..Len(c) /\ g.log[k].Term # c[k].Term
        BY <1>1, <1>2, <3>2 DEF Differ
      <4>2. n + k \in 1..Len(w) /\ n + k \in 1..Len(b) /\ k \in 1..(Len(b) - n)
        <5>1. Len(w) = n + Len(g.log) /\ Len(g.log) \in Nat /\ Len(w) \in Nat
          BY <1>2
        <5>2. n + k \in 1..(n + Len(g.log)) /\ n + k \in 1..(n + Len(c)) /\ k \in 1..((n + Len(c)) - n)
          BY <1>4, <4>1, <5>1, ShiftedIn
        <5>. QED
          BY <1>4, <5>1, <5>2
      <4>3. w[n + k] = g.log[k] /\ b[n + k] = c[k]
        BY <1>1, <1>2, <4>1, <4>2
      <4>. QED
        BY <4>1, <4>2, <4>3 DEF Differ
    <3>. QED
      BY <1>6, <3>1, <3>2
  <2>6. Begins(b, b)
    BY BeginsSelf
  <2>7. Merged(w, b, b)
    BY <2>5, <2>6 DEF Merged
  <2>. QED
    BY <2>4, <2>7
<1>. QED
  BY <1>3, <1>5, <1>6 DEF Merged

\* A log that is cut at position at, which b does not have.
LEMMA CutWhole ==
    ASSUME NEW g \in RaftState, NEW w \in Seq(LogEntry), Whole(g, w), NEW at \in 1..Len(g.log),
           NEW b \in Seq(LogEntry), Differ(w, b, g.snapshotIndex + 1 + at)
    PROVE  \E v \in Seq(LogEntry) :
               Whole([g EXCEPT !.log = SubSeq(g.log, 1, at - 1)], v) /\ Refused(w, b, v)
<1>1. /\ g.log \in Seq(LogEntry) /\ Len(g.log) \in Nat /\ Len(w) \in Nat
      /\ g.snapshotIndex \in Int /\ g.snapshotIndex >= -1
      /\ Len(w) = g.snapshotIndex + 1 + Len(g.log)
      /\ \A i \in 1..Len(g.log) : g.log[i] = w[g.snapshotIndex + 1 + i]
  BY WholeTail
<1>. DEFINE n == g.snapshotIndex + 1
            k == n + at
            v == SubSeq(w, 1, k - 1)
            new == SubSeq(g.log, 1, at - 1)
<1>2. n \in Nat /\ k \in Nat /\ k - 1 \in Nat /\ k - 1 <= Len(w) /\ at - 1 \in Nat
      /\ at - 1 <= Len(g.log) /\ n + (at - 1) = k - 1 /\ n <= k - 1
  <2>1. /\ Len(g.log) \in Nat /\ g.snapshotIndex \in Int /\ g.snapshotIndex >= -1
        /\ Len(w) = g.snapshotIndex + 1 + Len(g.log)
    BY <1>1
  <2>2. n \in Nat /\ n = g.snapshotIndex + 1
    BY <2>1
  <2>4. Len(w) = n + Len(g.log)
    BY <2>1
  <2>. HIDE DEF n
  <2>3. /\ n + at \in Nat /\ n + at - 1 \in Nat /\ n + at - 1 <= n + Len(g.log) /\ at - 1 \in Nat
        /\ at - 1 <= Len(g.log) /\ n + (at - 1) = n + at - 1 /\ n <= n + at - 1
    BY <2>1, <2>2, ShiftedIn
  <2>5. k = n + at
    OBVIOUS
  <2>. HIDE DEF k
  <2>. QED
    BY <2>2, <2>3, <2>4, <2>5
<1>. HIDE DEF k
<1>3. v \in Seq(LogEntry) /\ Len(v) = k - 1 /\ Begins(v, w)
  BY <1>2, CutShort
<1>4. new \in Seq(LogEntry) /\ Len(new) = at - 1 /\ Begins(new, g.log)
  BY <1>1, <1>2, CutShort
<1>. HIDE DEF v, new
<1>5. Follows(v, -1)
  <2>1. Follows(w, -1)
    BY DEF Whole
  <2>2. \A i \in DOMAIN v : i \in DOMAIN w /\ v[i] = w[i]
    <3>1. Len(v) \in Nat /\ Len(v) <= Len(w) /\ DOMAIN v = 1..Len(v) /\ DOMAIN w = 1..Len(w)
          /\ Len(w) \in Nat
      BY <1>1, <1>3 DEF Begins
    <3>2. \A i \in 1..Len(v) : v[i] = w[i]
      BY <1>3 DEF Begins
    <3>. QED
      BY <3>1, <3>2
  <2>. QED
    BY <2>1, <2>2 DEF Follows
<1>6. SameUpTo(v, w, n) /\ n <= Len(v)
  <2>1. \A i \in 1..n : i \in 1..Len(v)
    BY <1>2, <1>3
  <2>. QED
    BY <1>2, <1>3, <2>1 DEF SameUpTo, Begins
<1>7. \A i \in 1..Len(new) : new[i] = v[n + i]
  <2>. SUFFICES ASSUME NEW i \in 1..Len(new) PROVE new[i] = v[n + i]
    OBVIOUS
  <2>1. i \in 1..Len(g.log) /\ n + i \in 1..Len(v)
    <3>1. Len(new) = at - 1 /\ Len(v) = k - 1 /\ Len(g.log) \in Nat
      BY <1>1, <1>3, <1>4
    <3>. HIDE DEF n
    <3>. QED
      BY <1>2, <3>1
  <2>2. new[i] = g.log[i] /\ v[n + i] = w[n + i]
    BY <1>3, <1>4, <2>1 DEF Begins
  <2>. QED
    BY <1>1, <2>1, <2>2
<1>8. Len(new) = Len(v) - n
  BY <1>2, <1>3, <1>4
<1>9. Whole([g EXCEPT !.log = new], v)
  BY <1>3, <1>4, <1>5, <1>6, <1>7, <1>8, WholeAgain
<1>10. Refused(w, b, v)
  BY <1>2, <1>3 DEF Refused, k
<1>. QED
  BY <1>3, <1>9, <1>10 DEF new

\* A log that goes on from one without gaps.
LEMMA GoesOn ==
    ASSUME NEW w \in Seq(LogEntry), Follows(w, -1), NEW b \in Seq(LogEntry), NEW m \in Nat,
           m <= Len(w), SameUpTo(w, b, m), NEW entries \in Seq(LogEntry), Follows(entries, m - 1),
           PartOf(entries, b, m), Len(b) = m + Len(entries)
    PROVE  Follows(b, -1)
<1>1. Len(w) \in Nat /\ Len(entries) \in Nat /\ Len(b) \in Nat /\ DOMAIN b = 1..Len(b)
      /\ DOMAIN w = 1..Len(w) /\ DOMAIN entries = 1..Len(entries)
  OBVIOUS
<1>2. ASSUME NEW i \in 1..Len(b) PROVE b[i].Index = -1 + i
  <2>1. CASE i <= m
    <3>1. i \in 1..m /\ i \in DOMAIN w
      BY <1>1, <2>1
    <3>. QED
      BY <3>1 DEF SameUpTo, Follows
  <2>2. CASE ~(i <= m)
    <3>. DEFINE j == i - m
    <3>1. j \in 1..Len(entries) /\ i = m + j /\ m - 1 + j = -1 + i
      BY <1>1, <2>2
    <3>. HIDE DEF j
    <3>2. entries[j] = b[i] /\ entries[j].Index = m - 1 + j
      BY <1>1, <3>1 DEF PartOf, Follows
    <3>. QED
      BY <3>1, <3>2
  <2>. QED
    BY <2>1, <2>2
<1>. QED
  BY <1>1, <1>2 DEF Follows

\* The merge when the snapshot hides PrevLogIndex.
LEMMA BehindMerges ==
    ASSUME NEW g \in RaftState, NEW w \in Seq(LogEntry), Whole(g, w), NEW n \in Nat,
           n = g.snapshotIndex + 1, NEW b \in Seq(LogEntry), NEW prev \in Int, prev >= -1, prev < n,
           NEW entries \in Seq(LogEntry), Len(b) = prev + 1 + Len(entries),
           PartOf(entries, b, prev + 1), Follows(entries, prev), Follows(b, -1),
           \A i \in 1..n : i <= Len(b) => w[i] = b[i], Matching(w, b)
    PROVE  LET new == MergeBehindSnapshot(g.log, g.snapshotIndex, entries)
           IN  new \in Seq(LogEntry) =>
                   \E v \in Seq(LogEntry) : Whole([g EXCEPT !.log = new], v) /\ Merged(w, b, v)
<1>. DEFINE from == FindIndex(entries, n)
            new == SubSeq(entries, from, Len(entries))
            made == MergeBehindSnapshot(g.log, g.snapshotIndex, entries)
<1>1. /\ g.log \in Seq(LogEntry) /\ Len(g.log) \in Nat /\ Len(w) \in Nat
      /\ Len(w) = n + Len(g.log) /\ Len(b) \in Nat /\ Len(entries) \in Nat
  BY WholeTail
<1>2. \A i \in 1..Len(g.log) : g.log[i] = w[n + i]
  BY WholeTail
<1>3. /\ from # 0 => from = n - prev
      /\ from # 0 <=> prev < n /\ n <= prev + Len(entries)
  BY FindFollows
<1>4. made = IF from = 0 THEN g.log
             ELSE IF \/ Len(g.log) <= Len(new)
                     \/ \E i \in DOMAIN new : g.log[i].Term # new[i].Term
                    THEN new ELSE g.log
  BY DEF MergeBehindSnapshot
<1>0. SUFFICES ASSUME made \in Seq(LogEntry)
               PROVE  \E v \in Seq(LogEntry) : Whole([g EXCEPT !.log = made], v) /\ Merged(w, b, v)
  OBVIOUS
<1>. HIDE DEF made, from
<1>5. CASE from = 0
  <2>1. Len(b) <= n
    <3>1. ~(n <= prev + Len(entries)) /\ Len(b) = prev + 1 + Len(entries)
      BY <1>3, <1>5
    <3>2. Len(b) \in Nat /\ Len(entries) \in Nat
      BY <1>1
    <3>. QED
      BY <3>1, <3>2
  <2>2. [g EXCEPT !.log = made] = g
    BY <1>4, <1>5 DEF RaftState
  <2>3. Len(b) <= Len(w)
    BY <1>1, <2>1
  <2>4. \A i \in 1..Len(b) : b[i] = w[i]
    BY <1>1, <2>1
  <2>5. Merged(w, b, w)
    BY <2>3, <2>4 DEF Merged, Begins
  <2>. QED
    BY <2>2, <2>5
<1>6. CASE from # 0
  <2>. DEFINE c == After(b, n)
  <2>1. n <= Len(b) /\ n < Len(b)
    <3>1. n <= prev + Len(entries) /\ Len(b) = prev + 1 + Len(entries)
      BY <1>3, <1>6
    <3>2. Len(b) \in Nat /\ Len(entries) \in Nat
      BY <1>1
    <3>. QED
      BY <3>1, <3>2
  <2>2. c \in Seq(LogEntry) /\ Len(c) = Len(b) - n /\ \A i \in 1..(Len(b) - n) : c[i] = b[n + i]
    BY <2>1, AfterIs
  <2>. HIDE DEF c
  <2>3. /\ new \in Seq(LogEntry) /\ Len(new) = Len(c) /\ DOMAIN new = 1..Len(c)
        /\ \A i \in 1..Len(c) : new[i] = c[i]
    <3>0. Len(b) \in Nat /\ Len(entries) \in Nat /\ from = n - prev
      BY <1>1, <1>3, <1>6
    <3>1. PICK a, k \in Nat : /\ a + k = Len(entries) /\ a + k <= Len(entries)
                              /\ n - prev = a + 1 /\ k = Len(b) - n /\ prev + 1 + a = n
      <4>1. n <= Len(b) /\ prev >= -1 /\ prev < n /\ Len(b) = prev + 1 + Len(entries)
        BY <2>1
      <4>2. PICK e \in Nat, z \in Nat : e = Len(entries) /\ z = Len(b)
        BY <3>0
      <4>3. n <= z /\ prev >= -1 /\ prev < n /\ z = prev + 1 + e
        BY <4>1, <4>2
      <4>4. \E a, k \in Nat : /\ a + k = e /\ a + k <= e /\ n - prev = a + 1 /\ k = z - n
                              /\ prev + 1 + a = n
        <5>1. Reaches(n, prev, e, z)
          BY <4>3 DEF Reaches
        <5>2. Splits(n, prev, e, z)
          BY <5>1, SplitAt
        <5>. QED
          BY <5>2 DEF Splits
      <4>. QED
        BY <4>2, <4>4
    <3>2. LET e == SubSeq(entries, a + 1, a + k)
          IN  /\ e \in Seq(LogEntry) /\ Len(e) = k /\ DOMAIN e = 1..k
              /\ \A i \in 1..k : e[i] = entries[a + i]
      BY <3>1, SliceIs
    <3>3. new = SubSeq(entries, a + 1, a + k)
      BY <3>0, <3>1
    <3>4. ASSUME NEW i \in 1..k PROVE new[i] = c[i]
      <4>1. a + i \in 1..(a + k)
        BY <3>1, ShiftedIn
      <4>2. a + i \in DOMAIN entries
        BY <3>1, <4>1
      <4>3. entries[a + i] = b[prev + 1 + (a + i)]
        BY <4>2 DEF PartOf
      <4>4. prev + 1 + (a + i) = n + i
        BY <3>1
      <4>. QED
        BY <2>2, <3>1, <3>2, <3>3, <4>3, <4>4
    <3>. HIDE DEF new
    <3>. QED
      <4>1. Len(c) = k
        BY <2>2, <3>1
      <4>2. new \in Seq(LogEntry) /\ Len(new) = k /\ DOMAIN new = 1..k
        BY <3>2, <3>3
      <4>. QED
        BY <3>4, <4>1, <4>2
  <2>. HIDE DEF new
  <2>4. Len(c) \in Nat /\ Len(b) = n + Len(c) /\ Len(c) >= 1
    <3>1. Len(b) \in Nat /\ n < Len(b) /\ Len(c) = Len(b) - n
      BY <1>1, <2>1, <2>2
    <3>. QED
      BY <3>1
  <2>5. Begins(new, c) /\ Begins(c, new)
    BY <2>3, <2>4 DEF Begins
  <2>6. Merged(g.log, c, made)
    <3>1. CASE Len(g.log) <= Len(new)
      BY <1>4, <1>6, <2>3, <2>5, <3>1 DEF Merged
    <3>2. CASE ~(Len(g.log) <= Len(new)) /\ \E i \in DOMAIN new : g.log[i].Term # new[i].Term
      <4>1. PICK i \in 1..Len(c) : g.log[i].Term # c[i].Term
        BY <2>3, <3>2
      <4>2. i \in 1..Len(g.log)
        BY <1>1, <2>3, <2>4, <3>2
      <4>3. Differ(g.log, c, i) /\ i \in Nat
        BY <1>1, <2>2, <2>4, <4>1, <4>2 DEF Differ
      <4>4. made = new
        BY <1>4, <1>6, <3>2
      <4>. QED
        BY <2>5, <4>3, <4>4 DEF Merged
    <3>3. CASE ~(Len(g.log) <= Len(new)) /\ ~(\E i \in DOMAIN new : g.log[i].Term # new[i].Term)
      <4>1. made = g.log /\ Len(c) <= Len(g.log)
        BY <1>1, <1>4, <1>6, <2>3, <2>4, <3>3
      <4>. DEFINE m == Len(c)
      <4>2. m \in 1..Len(c) /\ m \in 1..Len(g.log) /\ m \in DOMAIN new
        BY <1>1, <2>3, <2>4, <4>1
      <4>3. g.log[m].Term = c[m].Term
        BY <2>3, <3>3, <4>2
      <4>4. n + m \in 1..(n + Len(c)) /\ n + m \in 1..(n + Len(g.log))
        BY <1>1, <2>4, <4>2, ShiftedIn
      <4>5. n + m \in DOMAIN w \cap DOMAIN b /\ w[n + m].Term = b[n + m].Term
        <5>1. w[n + m] = g.log[m] /\ b[n + m] = c[m]
          BY <1>2, <2>2, <4>2
        <5>2. DOMAIN w = 1..Len(w) /\ DOMAIN b = 1..Len(b)
          OBVIOUS
        <5>. QED
          BY <1>1, <2>4, <4>3, <4>4, <5>1, <5>2
      <4>6. \A i \in 1..(n + m) : w[i] = b[i]
        BY <4>5 DEF Matching
      <4>7. ASSUME NEW i \in 1..Len(c) PROVE c[i] = g.log[i]
        <5>1. n + i \in 1..(n + Len(c)) /\ i \in 1..Len(g.log)
          <6>1. n + i \in 1..(n + Len(c))
            BY <2>4, ShiftedIn
          <6>2. i \in 1..Len(g.log)
            BY <1>1, <2>4, <4>1
          <6>. QED
            BY <6>1, <6>2
        <5>2. i \in 1..(Len(b) - n)
          BY <2>2
        <5>. QED
          BY <1>2, <2>2, <4>6, <5>1, <5>2
      <4>8. Begins(c, g.log)
        BY <4>1, <4>7 DEF Begins
      <4>. QED
        BY <4>1, <4>8 DEF Merged
    <3>. QED
      BY <3>1, <3>2, <3>3
  <2>7. SameUpTo(w, b, n)
    <3>1. \A i \in 1..n : i <= Len(b)
      BY <1>1, <2>1
    <3>. QED
      BY <3>1 DEF SameUpTo
  <2>8. Merged(g.log, After(b, n), made)
    BY <2>6 DEF c
  <2>. QED
    BY <1>0, <2>1, <2>7, <2>8, MergedWhole
<1>. QED
  BY <1>5, <1>6

\* As far as they reach, b and the first n entries of w are the same.
AgreeAsFar(w, b, n) == \A i \in 1..n : i <= Len(b) => w[i] = b[i]

(***************************************************************************)
(* followerHandleLog, when the request carries log b to its end and b has  *)
(* what is in the snapshot: the whole log is refused or merged.            *)
(***************************************************************************)
LEMMA WholeMerge ==
    ASSUME NEW g \in RaftState, NEW w \in Seq(LogEntry), Whole(g, w), NEW args,
           args.PrevLogIndex \in Int, args.Entries \in Seq(LogEntry),
           Follows(args.Entries, args.PrevLogIndex), ~Overlays(g, args),
           NEW b \in Seq(LogEntry), Carries(args, b), Matching(w, b),
           Len(b) = args.PrevLogIndex + 1 + Len(args.Entries),
           AgreeAsFar(w, b, g.snapshotIndex + 1)
    PROVE  LET answer == FollowerHandleLog(g.log, g.snapshotIndex, args)
           IN  answer.log \in Seq(LogEntry) =>
                   \E v \in Seq(LogEntry) :
                       /\ Whole([g EXCEPT !.log = answer.log], v)
                       /\ answer.Success => Merged(w, b, v)
                       /\ ~answer.Success => Refused(w, b, v)
<1>. DEFINE answer == FollowerHandleLog(g.log, g.snapshotIndex, args)
            Goal == \E v \in Seq(LogEntry) :
                       /\ Whole([g EXCEPT !.log = answer.log], v)
                       /\ answer.Success => Merged(w, b, v)
                       /\ ~answer.Success => Refused(w, b, v)
<1>0. PICK prev \in Int, entries \in Seq(LogEntry) :
          prev = args.PrevLogIndex /\ entries = args.Entries
  OBVIOUS
<1>1. /\ g.log \in Seq(LogEntry) /\ Len(g.log) \in Nat /\ Len(w) \in Nat
      /\ g.snapshotIndex \in Int /\ g.snapshotIndex >= -1
      /\ Len(w) = g.snapshotIndex + 1 + Len(g.log) /\ Len(b) \in Nat /\ Len(entries) \in Nat
  BY WholeTail
<1>2. PICK n \in Nat : n = g.snapshotIndex + 1
  BY <1>1
<1>3. /\ \A i \in 1..Len(g.log) : g.log[i] = w[n + i]
      /\ Follows(g.log, g.snapshotIndex) /\ Follows(w, -1)
  BY <1>2, WholeTail DEF Whole
<1>4. /\ prev >= -1 /\ Len(b) = prev + 1 + Len(entries) /\ PartOf(entries, b, prev + 1)
      /\ Follows(entries, prev) /\ (prev # -1 => b[prev + 1].Term = args.PrevLogTerm)
  BY <1>0 DEF Carries, PartOf
<1>5. \A i \in 1..n : i <= Len(b) => w[i] = b[i]
  BY <1>2 DEF AgreeAsFar
<1>6. PICK at \in 0..Len(g.log) : at = FindIndex(g.log, prev)
  BY <1>1, FindIndexIn
<1>7. /\ at # 0 => prev = g.snapshotIndex + at
      /\ at # 0 <=> g.snapshotIndex < prev /\ prev <= g.snapshotIndex + Len(g.log)
  <2>1. /\ at # 0 => at = prev - g.snapshotIndex
        /\ at # 0 <=> g.snapshotIndex < prev /\ prev <= g.snapshotIndex + Len(g.log)
    BY <1>1, <1>3, <1>6, FindFollows
  <2>2. at \in Int /\ g.snapshotIndex \in Int
    BY <1>1
  <2>. QED
    BY <2>1, <2>2
<1>8. LastLogIndex(g.log, g.snapshotIndex) = n - 1 + Len(g.log)
  <2>1. LastIndex(g) = Len(w) - 1
    BY LastOfWhole
  <2>2. Len(w) - 1 = n - 1 + Len(g.log)
    <3>1. PICK i \in Int, x \in Nat, y \in Nat : i = g.snapshotIndex /\ x = Len(g.log) /\ y = Len(w)
      BY <1>1
    <3>2. y = i + 1 + x /\ n = i + 1
      BY <1>1, <1>2, <3>1
    <3>3. y - 1 = n - 1 + x
      BY <3>2
    <3>. QED
      BY <3>1, <3>3
  <2>. QED
    BY <2>1, <2>2 DEF LastIndex
<1>9. SUFFICES ASSUME answer.log \in Seq(LogEntry) PROVE Goal
  OBVIOUS
<1>10. CASE n - 1 + Len(g.log) < prev
  <2>1. answer.log = g.log /\ ~answer.Success
    BY <1>0, <1>8, <1>10 DEF FollowerHandleLog, Answer
  <2>2. [g EXCEPT !.log = answer.log] = g
    BY <2>1 DEF RaftState
  <2>3. Refused(w, b, w)
    BY DEF Refused
  <2>. QED
    BY <2>1, <2>2, <2>3
<1>11. CASE ~(n - 1 + Len(g.log) < prev) /\ at = 0 /\ prev # -1
  <2>1. answer.log = MergeBehindSnapshot(g.log, g.snapshotIndex, entries) /\ answer.Success
    BY <1>0, <1>6, <1>8, <1>11 DEF FollowerHandleLog, Answer
  <2>2. prev < n /\ prev + 1 \in Nat /\ prev + 1 <= Len(w) /\ prev + 1 <= n /\ prev + 1 <= Len(b)
    <3>1. PICK i \in Int, x \in Nat, y \in Nat, z \in Nat :
              i = g.snapshotIndex /\ x = Len(g.log) /\ y = Len(w) /\ z = Len(b)
      BY <1>1
    <3>2. /\ n = i + 1 /\ prev >= -1 /\ y = i + 1 + x
          /\ ~(i < prev /\ prev <= i + x) /\ ~(n - 1 + x < prev)
      BY <1>1, <1>2, <1>4, <1>7, <1>11, <3>1
    <3>3. prev < n /\ prev + 1 \in Nat /\ prev + 1 <= y /\ prev + 1 <= n
      BY <3>2
    <3>4. prev + 1 <= Len(b)
      BY <1>1, <1>4
    <3>. QED
      BY <3>1, <3>3, <3>4
  <2>3. SameUpTo(w, b, prev + 1)
    <3>1. \A i \in 1..(prev + 1) : i \in 1..n /\ i <= Len(b)
      BY <1>1, <2>2
    <3>. QED
      BY <1>5, <3>1 DEF SameUpTo
  <2>4. Follows(b, -1)
    <3>1. Follows(entries, (prev + 1) - 1)
      <4>1. (prev + 1) - 1 = prev
        OBVIOUS
      <4>. QED
        BY <1>4, <4>1
    <3>. QED
      BY <1>3, <1>4, <2>2, <2>3, <3>1, GoesOn
  <2>5. \E v \in Seq(LogEntry) : Whole([g EXCEPT !.log = answer.log], v) /\ Merged(w, b, v)
    BY <1>2, <1>4, <1>5, <1>9, <2>1, <2>2, <2>4, BehindMerges
  <2>. QED
    BY <2>1, <2>5
<1>12. CASE ~(n - 1 + Len(g.log) < prev) /\ at # 0 /\ g.log[at].Term # args.PrevLogTerm
  <2>1. answer.log = SubSeq(g.log, 1, at - 1) /\ ~answer.Success
    BY <1>0, <1>6, <1>8, <1>12 DEF FollowerHandleLog, Answer
  <2>2. at \in 1..Len(g.log) /\ n + at = prev + 1 /\ n + at = g.snapshotIndex + 1 + at /\ prev # -1
        /\ n + at <= Len(b)
    <3>1. PICK i \in Int, x \in Nat : i = g.snapshotIndex /\ x = Len(g.log)
      BY <1>1
    <3>2. n = i + 1 /\ i >= -1 /\ prev = i + at /\ at # 0 /\ at \in 0..x
      BY <1>1, <1>2, <1>7, <1>12, <3>1
    <3>3. at \in 1..x /\ n + at = prev + 1 /\ n + at = i + 1 + at /\ prev # -1
      BY <3>2
    <3>4. prev + 1 <= Len(b)
      BY <1>1, <1>4
    <3>. QED
      BY <3>1, <3>3, <3>4
  <2>3. n + at \in 1..(n + Len(g.log))
    BY <1>1, <2>2, ShiftedIn
  <2>4. Differ(w, b, n + at)
    <3>1. w[n + at] = g.log[at] /\ b[n + at].Term = args.PrevLogTerm
      BY <1>3, <1>4, <2>2
    <3>2. n + at \in DOMAIN w /\ n + at \in DOMAIN b
      <4>1. DOMAIN w = 1..Len(w) /\ DOMAIN b = 1..Len(b) /\ Len(w) = n + Len(g.log) /\ Len(b) \in Nat
            /\ Len(g.log) \in Nat
        BY <1>1, <1>2
      <4>. QED
        BY <2>2, <2>3, <4>1
    <3>. QED
      BY <1>12, <3>1, <3>2 DEF Differ
  <2>5. Differ(w, b, g.snapshotIndex + 1 + at)
    BY <2>2, <2>4
  <2>6. \E v \in Seq(LogEntry) : Whole([g EXCEPT !.log = answer.log], v) /\ Refused(w, b, v)
    BY <2>1, <2>2, <2>5, CutWhole
  <2>. QED
    BY <2>1, <2>6
<1>13. CASE /\ ~(n - 1 + Len(g.log) < prev) /\ ~(at = 0 /\ prev # -1)
            /\ ~(at # 0 /\ g.log[at].Term # args.PrevLogTerm)
  <2>1. answer.log = MergeEntries(g.log, at, entries) /\ answer.Success
    BY <1>0, <1>6, <1>8, <1>13 DEF FollowerHandleLog, Answer
  <2>2. CASE at = 0 /\ g.snapshotIndex # -1
    <3>1. prev = -1 /\ Len(entries) = 0
      <4>1. prev = -1 /\ entries = <<>>
        BY <1>0, <1>13, <2>2 DEF Overlays
      <4>. QED
        BY <4>1
    <3>2. entries = <<>> /\ DOMAIN entries = {}
      BY <3>1, EmptySeq
    <3>3. answer.log = g.log
      <4>1. CASE Len(g.log) - at <= Len(entries)
        <5>1. g.log = <<>>
          BY <1>1, <2>2, <3>1, <4>1, EmptySeq
        <5>2. SubSeq(g.log, 1, 0) = <<>>
          BY <1>1, SubSeqEmpty
        <5>3. <<>> \o <<>> = <<>>
          OBVIOUS
        <5>. QED
          BY <2>1, <2>2, <3>2, <4>1, <5>1, <5>2, <5>3 DEF MergeEntries
      <4>2. CASE ~(Len(g.log) - at <= Len(entries))
        BY <2>1, <3>2, <4>2 DEF MergeEntries
      <4>. QED
        BY <4>1, <4>2
    <3>4. [g EXCEPT !.log = answer.log] = g
      BY <3>3 DEF RaftState
    <3>5. Len(b) = 0
      BY <1>4, <3>1
    <3>6. Merged(w, b, w)
      <4>1. Len(w) \in Nat
        BY <1>1
      <4>2. Len(b) <= Len(w) /\ (\A i \in 1..Len(b) : b[i] = w[i])
        BY <3>5, <4>1
      <4>3. Begins(b, w)
        BY <4>2 DEF Begins
      <4>. QED
        BY <4>3 DEF Merged
    <3>. QED
      BY <2>1, <3>4, <3>6
  <2>3. CASE at # 0 \/ g.snapshotIndex = -1
    <3>. DEFINE c == After(b, n)
    <3>1. /\ n + at = prev + 1 /\ n <= Len(b) /\ n + at \in Nat /\ n + at <= Len(w)
          /\ at + Len(entries) = Len(b) - n /\ at <= Len(b) - n /\ n + at <= Len(b)
      <4>1. PICK i \in Int, x \in Nat, y \in Nat, z \in Nat, e \in Nat :
                i = g.snapshotIndex /\ x = Len(g.log) /\ y = Len(w) /\ z = Len(b) /\ e = Len(entries)
        BY <1>1
      <4>2. /\ n = i + 1 /\ y = i + 1 + x /\ z = prev + 1 + e /\ at \in 0..x
            /\ at # 0 => prev = i + at
            /\ at = 0 => prev = -1 /\ i = -1
        BY <1>1, <1>2, <1>4, <1>7, <1>13, <2>3, <4>1
      <4>3. prev = i + at
        BY <4>2
      <4>4. /\ n + at = prev + 1 /\ n <= z /\ n + at \in Nat /\ n + at <= y
            /\ at + e = z - n /\ at <= z - n /\ n + at <= z
        BY <4>2, <4>3
      <4>. QED
        BY <4>1, <4>4
    <3>2. SameUpTo(w, b, n + at)
      <4>1. CASE at = 0
        <5>1. \A i \in 1..(n + at) : i \in 1..n /\ i <= Len(b)
          BY <1>1, <3>1, <4>1
        <5>. QED
          BY <1>5, <5>1 DEF SameUpTo
      <4>2. CASE at # 0
        <5>1. at \in 1..Len(g.log) /\ prev # -1
          BY <1>1, <1>7, <4>2
        <5>2. w[n + at] = g.log[at] /\ b[n + at].Term = args.PrevLogTerm
          BY <1>3, <1>4, <3>1, <5>1
        <5>3. n + at \in DOMAIN w \cap DOMAIN b
          <6>1. DOMAIN w = 1..Len(w) /\ DOMAIN b = 1..Len(b) /\ Len(w) \in Nat /\ Len(b) \in Nat
            BY <1>1
          <6>2. 1 <= n + at
            BY <5>1
          <6>. QED
            BY <3>1, <6>1, <6>2
        <5>4. w[n + at].Term = b[n + at].Term
          BY <1>13, <4>2, <5>2
        <5>. QED
          BY <5>3, <5>4 DEF Matching, SameUpTo
      <4>. QED
        BY <4>1, <4>2
    <3>3. Follows(b, -1)
      <4>1. Follows(entries, (n + at) - 1) /\ PartOf(entries, b, n + at)
        <5>1. (prev + 1) - 1 = prev
          OBVIOUS
        <5>. QED
          BY <1>4, <3>1, <5>1
      <4>2. Len(b) = n + at + Len(entries)
        BY <1>4, <3>1
      <4>. QED
        BY <1>3, <3>1, <3>2, <4>1, <4>2, GoesOn
    <3>4. c \in Seq(LogEntry) /\ Len(c) = Len(b) - n /\ \A i \in 1..(Len(b) - n) : c[i] = b[n + i]
      BY <3>1, AfterIs
    <3>. HIDE DEF c
    <3>5. SameUpTo(g.log, c, at)
      <4>. SUFFICES ASSUME NEW i \in 1..at PROVE g.log[i] = c[i]
        BY DEF SameUpTo
      <4>1. i \in 1..Len(g.log) /\ i \in 1..(Len(b) - n) /\ n + i \in 1..(n + at)
        <5>1. at \in Nat /\ at <= Len(g.log) /\ Len(g.log) \in Nat
          BY <1>1
        <5>2. n + i \in 1..(n + at)
          BY <5>1, ShiftedIn
        <5>3. Len(b) - n \in Int /\ at <= Len(b) - n
          BY <1>1, <3>1
        <5>. QED
          BY <5>1, <5>2, <5>3
      <4>. QED
        BY <1>3, <3>2, <3>4, <4>1 DEF SameUpTo
    <3>6. PartOf(entries, c, at)
      <4>. SUFFICES ASSUME NEW i \in DOMAIN entries PROVE entries[i] = c[at + i]
        BY DEF PartOf
      <4>1. entries[i] = b[prev + 1 + i] /\ i \in 1..Len(entries)
        BY <1>4 DEF PartOf
      <4>0. at \in Nat /\ Len(entries) \in Nat /\ i \in Int
        BY <1>1, <4>1
      <4>2. at + i \in 1..(at + Len(entries))
        BY <4>0, <4>1, ShiftedIn
      <4>3. n + (at + i) = prev + 1 + i
        <5>1. n + (at + i) = (n + at) + i
          BY <4>0
        <5>2. n + at = prev + 1
          BY <3>1
        <5>. QED
          BY <5>1, <5>2
      <4>4. c[at + i] = b[n + (at + i)]
        BY <3>1, <3>4, <4>2
      <4>. QED
        BY <4>1, <4>3, <4>4
    <3>7. Matching(g.log, c)
      <4>. SUFFICES ASSUME NEW k \in DOMAIN g.log \cap DOMAIN c, g.log[k].Term = c[k].Term,
                           NEW i \in 1..k
                    PROVE  g.log[i] = c[i]
        BY DEF Matching
      <4>1. k \in 1..Len(g.log) /\ k \in 1..(Len(b) - n) /\ i \in 1..Len(g.log) /\ i \in 1..(Len(b) - n)
            /\ k \in Nat
        <5>1. k \in 1..Len(g.log) /\ k \in 1..(Len(b) - n) /\ Len(g.log) \in Nat /\ Len(b) - n \in Int
          BY <1>1, <3>4
        <5>. QED
          BY <5>1
      <4>2. w[n + k] = g.log[k] /\ b[n + k] = c[k] /\ w[n + i] = g.log[i] /\ b[n + i] = c[i]
        BY <1>3, <3>4, <4>1
      <4>3. n + k \in 1..(n + Len(g.log)) /\ n + i \in 1..(n + k) /\ n + k \in 1..(n + (Len(b) - n))
        <5>0. Len(b) \in Nat /\ n <= Len(b)
          BY <1>1, <3>1
        <5>1. Len(b) - n \in Nat /\ Len(g.log) \in Nat
          BY <1>1, <5>0
        <5>. QED
          BY <4>1, <5>1, ShiftedIn
      <4>4. n + k \in DOMAIN w \cap DOMAIN b
        <5>1. DOMAIN w = 1..Len(w) /\ DOMAIN b = 1..Len(b) /\ Len(w) = n + Len(g.log)
              /\ n + (Len(b) - n) = Len(b)
          BY <1>1, <1>2
        <5>. QED
          BY <4>3, <5>1
      <4>5. \A j \in 1..(n + k) : w[j] = b[j]
        BY <4>2, <4>4 DEF Matching
      <4>. QED
        BY <4>2, <4>3, <4>5
    <3>8. Merged(g.log, c, answer.log)
      <4>1. at + Len(entries) = Len(c)
        BY <3>1, <3>4
      <4>. QED
        BY <1>1, <2>1, <3>4, <3>5, <3>6, <3>7, <4>1, MergeJoins
    <3>9. SameUpTo(w, b, n)
      <4>1. \A i \in 1..n : i <= Len(b)
        BY <1>1, <3>1
      <4>. QED
        BY <1>5, <4>1 DEF SameUpTo
    <3>10. Merged(g.log, After(b, n), answer.log)
      BY <3>8 DEF c
    <3>11. \E v \in Seq(LogEntry) : Whole([g EXCEPT !.log = answer.log], v) /\ Merged(w, b, v)
      BY <1>2, <1>9, <3>1, <3>3, <3>9, <3>10, MergedWhole
    <3>. QED
      BY <2>1, <3>11
  <2>. QED
    BY <2>2, <2>3
<1>. QED
  BY <1>10, <1>11, <1>12, <1>13

-----------------------------------------------------------------------------
(* AppendEntries at a follower *)

\* What a server has committed is what every leader of its term, or a later
\* one, has, as far as its log goes.
LEMMA CommittedAgrees ==
    ASSUME RaftInv, NEW L, NEW A, NEW W, Chronicle(L, A, W), NEW s \in Server, NEW l \in L,
           disk[s].currentTerm <= l[1]
    PROVE  LET y == SubSeq(W[s], 1, rf[s].commitIndex + 1)
           IN  /\ y \in Seq(LogEntry) /\ Len(y) = rf[s].commitIndex + 1
               /\ Begins(y, W[s]) /\ Comparable(y, l[2])
<1>0. PICK log, k : log = W[s] /\ k = rf[s].commitIndex + 1
  OBVIOUS
<1>1. /\ log \in Seq(LogEntry) /\ Len(log) \in Nat /\ k \in Nat /\ k <= Len(log)
      /\ disk[s].currentTerm \in Nat
  <2>1. rf[s].commitIndex \in Int /\ rf[s].commitIndex >= -1
    BY PeerIn
  <2>2. k \in Nat
    BY <1>0, <2>1
  <2>. QED
    BY <1>0, <2>2, PeerIn, CommitsWithin
<1>2. /\ LeaderLogs(L) /\ AcceptedFits(L, A) /\ LaterLeadersHave(L, A) /\ CommitsChosen(A, W)
      /\ l[1] \in Nat /\ l[2] \in Seq(LogEntry)
  BY DEF Chronicle, LeaderLogs
<1>. DEFINE y == SubSeq(log, 1, k)
<1>3. y \in Seq(LogEntry) /\ Len(y) = k /\ Begins(y, log)
  BY <1>1, CutShort
<1>. HIDE DEF y
<1>4. ASSUME k = 0 PROVE Comparable(y, l[2])
  BY <1>2, <1>3, <1>4 DEF Comparable, Begins
<1>5. ASSUME k # 0 PROVE Comparable(y, l[2])
  <2>1. KnownChosen(A, log, k, disk[s].currentTerm) /\ k > 0
    BY <1>0, <1>1, <1>2, <1>5 DEF CommitsChosen
  <2>2. PICK x \in Filled : /\ Chosen(A, x) /\ TermOf(x) <= disk[s].currentTerm
                            /\ k <= Len(x) /\ k <= Len(log) /\ SameUpTo(log, x, k)
    BY <2>1 DEF KnownChosen
  <2>3. PICK p \in Server : HasAccepted(A, p, x) /\ Choosable(A, x)
    BY <2>2, ChosenChoosable
  <2>4. x \in Seq(LogEntry) /\ TermOf(x) \in Nat /\ Len(x) \in Nat
    BY FilledIn
  <2>5. TermOf(x) <= l[1]
    BY <1>1, <1>2, <2>2, <2>4
  <2>6. Comparable(x, l[2])
    BY <1>2, <2>3, <2>5, ChoosableAgrees
  <2>8. Begins(y, x)
    BY <1>3, <2>2 DEF Begins, SameUpTo
  <2>. QED
    BY <1>2, <1>3, <2>4, <2>6, <2>8, ComparableBelow
<1>. QED
  BY <1>0, <1>3, <1>4, <1>5 DEF y

\* So a merge with a part of such a log does not touch it.
LEMMA CommittedKept ==
    ASSUME RaftInv, NEW L, NEW A, NEW W, Chronicle(L, A, W), NEW s \in Server, NEW l \in L,
           disk[s].currentTerm <= l[1], NEW b \in Seq(LogEntry), Begins(b, l[2]),
           NEW new \in Seq(LogEntry), Refused(W[s], b, new) \/ Merged(W[s], b, new)
    PROVE  /\ rf[s].commitIndex + 1 <= Len(new)
           /\ SameUpTo(new, W[s], rf[s].commitIndex + 1)
<1>0. PICK k : k = rf[s].commitIndex + 1
  OBVIOUS
<1>1. l[2] \in Seq(LogEntry) /\ W[s] \in Seq(LogEntry) /\ k \in Nat
  <2>1. rf[s].commitIndex \in Int /\ rf[s].commitIndex >= -1
    BY PeerIn
  <2>2. k \in Nat
    BY <1>0, <2>1
  <2>. QED
    BY <2>2, CommitsWithin DEF Chronicle, LeaderLogs
<1>2. PICK y : y = SubSeq(W[s], 1, k)
  OBVIOUS
<1>3. y \in Seq(LogEntry) /\ Len(y) = k /\ Begins(y, W[s]) /\ Comparable(y, l[2])
  BY <1>0, <1>2, CommittedAgrees
<1>4. Comparable(y, b)
  <2>1. Comparable(l[2], y)
    BY <1>3 DEF Comparable
  <2>2. Comparable(b, y)
    BY <1>1, <1>3, <2>1, ComparableBelow
  <2>. QED
    BY <2>2 DEF Comparable
<1>5. Begins(y, new)
  BY <1>1, <1>3, <1>4, MergeKeeps
<1>6. k <= Len(new) /\ SameUpTo(new, W[s], k)
  BY <1>3, <1>5 DEF Begins, SameUpTo
<1>. QED
  BY <1>0, <1>6

\* What AppendEntries makes of the commit index and of the service, given the
\* whole log w of the merged peer.
FollowerDone(g, svc, answer, leaderCommit, w, out) ==
    /\ out.g.commitIndex =
           IF answer.Success /\ g.commitIndex < leaderCommit THEN leaderCommit ELSE g.commitIndex
    /\ Whole(out.g, w)
    /\ Applied(out.service, w, out.g.commitIndex + 1)
    /\ Len(svc) <= Len(out.service)
    /\ Len(svc) = g.commitIndex + 1 =>
           Len(out.service) = out.g.commitIndex + 1 /\ out.fault = "none"
    /\ out.fault = "none" => Len(svc) = g.commitIndex + 1 \/ out.service = svc
    /\ out.g.snapshot = g.snapshot /\ out.g.snapshotIndex = g.snapshotIndex

\* The commit index and the service after AppendEntries.
LEMMA FollowerCommits ==
    ASSUME NEW g \in RaftState, NEW svc \in Seq(Command), NEW answer,
           answer.log \in Seq(LogEntry), NEW w \in Seq(LogEntry),
           Whole([g EXCEPT !.log = answer.log], w), NEW leaderCommit \in LogIndex,
           answer.Success => leaderCommit + 1 <= Len(w),
           Applied(svc, w, g.commitIndex + 1)
    PROVE  FollowerDone(g, svc, answer, leaderCommit, w, FollowerAfter(g, svc, answer, leaderCommit))
<1>. DEFINE h == [g EXCEPT !.log = answer.log]
            out == FollowerAfter(g, svc, answer, leaderCommit)
            cur == FollowerCommitIndex(h.log, h.snapshotIndex, h.commitIndex, leaderCommit)
<1>1. /\ h \in RaftState /\ h.log = answer.log /\ h.commitIndex = g.commitIndex
      /\ h.snapshot = g.snapshot /\ h.snapshotIndex = g.snapshotIndex
  BY DEF RaftState
<1>2. g.commitIndex \in Int /\ leaderCommit \in Int /\ Len(w) \in Nat
  BY DEF RaftState, LogIndex
<1>3. out = IF answer.Success /\ h.commitIndex < leaderCommit
              THEN CommitTo(h, svc, cur) ELSE Outcome(h, svc, "none")
  BY DEF FollowerAfter
<1>0. Whole(h, w)
  OBVIOUS
<1>. HIDE DEF out, h
<1>4. CASE answer.Success /\ g.commitIndex < leaderCommit
  <2>1. LastLogIndex(h.log, h.snapshotIndex) = Len(w) - 1
    BY <1>0, <1>1, LastOfWhole DEF LastIndex
  <2>2. cur = Smaller(leaderCommit, Len(w) - 1)
    BY <1>1, <1>2, <1>4, <2>1 DEF FollowerCommitIndex
  <2>3. cur = leaderCommit
    BY <1>2, <1>4, <2>2 DEF Smaller
  <2>4. out = CommitTo(h, svc, leaderCommit)
    BY <1>1, <1>3, <1>4, <2>3
  <2>5. h.commitIndex <= leaderCommit /\ leaderCommit + 1 <= Len(w)
    BY <1>1, <1>2, <1>4
  <2>6. /\ out.g = [h EXCEPT !.commitIndex = leaderCommit]
        /\ Applied(out.service, w, leaderCommit + 1) /\ Len(svc) <= Len(out.service)
        /\ Len(svc) = h.commitIndex + 1 => Len(out.service) = leaderCommit + 1 /\ out.fault = "none"
        /\ out.fault = "none" => Len(svc) = h.commitIndex + 1
    <3>1. Applied(svc, w, h.commitIndex + 1)
      BY <1>1
    <3>2. LET made == CommitTo(h, svc, leaderCommit)
          IN  /\ made.g = [h EXCEPT !.commitIndex = leaderCommit]
              /\ Applied(made.service, w, leaderCommit + 1) /\ Len(svc) <= Len(made.service)
              /\ Len(svc) = h.commitIndex + 1 => Len(made.service) = leaderCommit + 1 /\ made.fault = "none"
              /\ made.fault = "none" /\ h.commitIndex < leaderCommit => Len(svc) = h.commitIndex + 1
      BY <1>0, <1>1, <1>2, <2>5, <3>1, CommitToApplies
    <3>3. h.commitIndex < leaderCommit
      BY <1>1, <1>4
    <3>. QED
      BY <2>4, <3>2, <3>3
  <2>7. /\ out.g.commitIndex = leaderCommit /\ out.g.snapshotTerm = h.snapshotTerm
        /\ out.g.snapshotIndex = h.snapshotIndex /\ out.g.snapshot = h.snapshot /\ out.g.log = h.log
    BY <1>1, <2>6 DEF RaftState
  <2>8. Whole(out.g, w)
    <3>1. h.snapshotIndex <= h.commitIndex /\ h.snapshotIndex \in Int /\ h.commitIndex \in Int
      <4>1. h.snapshotIndex \in Int
        BY <1>0, <1>1, WholeTail
      <4>2. h.snapshotIndex <= h.commitIndex
        BY <1>0 DEF Whole
      <4>. QED
        BY <1>1, <1>2, <4>1, <4>2
    <3>2. h.snapshotIndex <= leaderCommit
      BY <1>2, <2>5, <3>1
    <3>. QED
      BY <1>0, <2>7, <3>2 DEF Whole
  <2>. QED
    BY <1>1, <1>4, <2>6, <2>7, <2>8 DEF out, FollowerDone
<1>5. CASE ~(answer.Success /\ g.commitIndex < leaderCommit)
  <2>1. out = Outcome(h, svc, "none")
    BY <1>1, <1>3, <1>5
  <2>2. out.g = h /\ out.service = svc /\ out.fault = "none"
    BY <2>1 DEF Outcome
  <2>3. Len(svc) <= Len(svc)
    OBVIOUS
  <2>. QED
    BY <1>0, <1>1, <1>5, <2>2, <2>3 DEF out, FollowerDone
<1>. QED
  BY <1>4, <1>5

\* s took over log b, a beginning of the leader's log l, if ok, and has V[s]
\* as its log.
Took(A, W, V, s, h, l, b, ok) ==
    /\ \A p \in Server : p # s => V[p] = W[p]
    /\ Begins(b, l[2])
    /\ rf' = [rf EXCEPT ![s] = h] /\ disk' = [disk EXCEPT ![s] = Persistent(h)]
    /\ rf[s].currentTerm <= l[1] /\ h.currentTerm = l[1] /\ h.role # "leader"
    /\ h.role = "candidate" => Led(l[1])
    /\ ok => Merged(W[s], b, V[s])
    /\ ~ok => Refused(W[s], b, V[s])
    /\ led' = led /\ granted' = granted
    /\ h.commitIndex = rf[s].commitIndex \/ KnownChosen(A, V[s], h.commitIndex + 1, l[1])
    /\ \A d \in aeCalls' : \E e \in aeCalls : SameCall(d, e)
    /\ \A d \in aeCalls' : d.done /\ d.reply.Success =>
           \/ \E e \in aeCalls : Alike(d, e) /\ e.done /\ e.reply.Success
           \/ ok /\ d.to = s /\ d.Term = l[1] /\ d.PrevLogIndex + Len(d.Entries) < Len(b)
    /\ InstallsStay

(***************************************************************************)
(* The chronicle when s takes over b, a beginning of the log of pair l, as *)
(* a whole (then it has accepted it) or not at all.  Only calls that say   *)
(* so are new.                                                             *)
(***************************************************************************)
LEMMA FollowerChronicle ==
    ASSUME RaftInv, RaftInv', NEW L, NEW A, NEW W, Chronicle(L, A, W), NEW s \in Server,
           NEW h \in RaftState, NEW V \in [Server -> Seq(LogEntry)], WholeLogs(V)',
           NEW l \in L, NEW b \in Seq(LogEntry), NEW ok \in BOOLEAN,
           Took(A, W, V, s, h, l, b, ok)
    PROVE  \E B : Chronicle(L, B, V)'
<1>. SUFFICES ASSUME \A p \in Server : p # s => V[p] = W[p],
                     Begins(b, l[2]),
                     rf' = [rf EXCEPT ![s] = h], disk' = [disk EXCEPT ![s] = Persistent(h)],
                     rf[s].currentTerm <= l[1], h.currentTerm = l[1], h.role # "leader",
                     h.role = "candidate" => Led(l[1]),
                     ok => Merged(W[s], b, V[s]), ~ok => Refused(W[s], b, V[s]),
                     led' = led, granted' = granted,
                     h.commitIndex = rf[s].commitIndex \/ KnownChosen(A, V[s], h.commitIndex + 1, l[1]),
                     \A d \in aeCalls' : \E e \in aeCalls : SameCall(d, e),
                     \A d \in aeCalls' : d.done /\ d.reply.Success =>
                         \/ \E e \in aeCalls : Alike(d, e) /\ e.done /\ e.reply.Success
                         \/ ok /\ d.to = s /\ d.Term = l[1] /\ d.PrevLogIndex + Len(d.Entries) < Len(b),
                     InstallsStay
              PROVE  \E B : Chronicle(L, B, V)'
  BY DEF Took
<1>1. /\ LeaderLogs(L) /\ LeadersHaveTheirs(L, W) /\ LogsRooted(L, W)
      /\ AcceptedFits(L, A) /\ AcceptedStays(A, W) /\ LaterLeadersHave(L, A)
      /\ VotesCarry(A, W) /\ MatchAccepted(A) /\ RepliesAccepted(A)
      /\ CommitsChosen(A, W) /\ CallsFit(L, A) /\ SnapshotsFit(L, A)
      /\ W \in [Server -> Seq(LogEntry)]
  BY DEF Chronicle, WholeLogs
<1>2. /\ W[s] \in Seq(LogEntry) /\ V[s] \in Seq(LogEntry)
      /\ rf[s].currentTerm \in Nat /\ disk[s].currentTerm \in Nat
      /\ disk[s].currentTerm <= rf[s].currentTerm
  BY <1>1, PeerIn
<1>3. /\ l[1] \in Nat /\ l[2] \in Seq(LogEntry) /\ Ordered(l) /\ Rooted(L, l[2]) /\ Len(l[2]) \in Nat
  BY <1>1 DEF LeaderLogs
<1>4. disk[s].currentTerm <= l[1]
  BY <1>2, <1>3
<1>. DEFINE ne == <<s, l[1], b>>
<1>5. PICK B : B = A \cup (IF ok THEN {ne} ELSE {})
  OBVIOUS
<1>6. /\ A \subseteq B /\ \A e \in B : e \in A \/ (ok /\ e = ne)
      /\ ok => ne \in B
  BY <1>5
<1>7. ne[1] = s /\ ne[2] = l[1] /\ ne[3] = b /\ ne \in Server \X Nat \X Seq(LogEntry)
  BY <1>3
<1>. HIDE DEF ne
<1>8. Refused(W[s], b, V[s]) \/ Merged(W[s], b, V[s])
  OBVIOUS
<1>9. \A p \in Server : rf'[p] = IF p = s THEN h ELSE rf[p]
  BY DEF RaftInv, NodeInv
<1>10. TermsGrow /\ disk'[s].currentTerm = l[1]
  <2>1. rf[s].currentTerm <= h.currentTerm
    OBVIOUS
  <2>. QED
    BY <2>1, SavedTermsGrow
<1>11. Grows(A, B)
  <2>1. ASSUME NEW e \in B, e \notin A PROVE disk[e[1]].currentTerm <= e[2]
    <3>1. e = ne
      BY <1>6, <2>1
    <3>. QED
      BY <1>4, <1>7, <3>1
  <2>. QED
    BY <1>6, <2>1 DEF Grows
<1>12. LeaderLogs(L)'
  BY <1>1, LeaderLogsKept
<1>13. LeadersHaveTheirs(L, V)'
  <2>1. ASSUME NEW p \in Server, rf'[p].role = "leader" PROVE rf'[p] = rf[p] /\ V[p] = W[p]
    BY <1>9, <2>1
  <2>2. \A p \in Server : rf'[p].role = "leader" =>
            /\ rf[p].role = "leader" /\ rf'[p].currentTerm = rf[p].currentTerm
            /\ V[p] = W[p]
    BY <2>1
  <2>. QED
    BY <1>1, <2>2, TheirsKept
<1>14. LogsRooted(L, V)'
  <2>0. Begins(V[s], W[s]) \/ Begins(V[s], b)
    BY <1>2, <1>8, MergeFrom
  <2>1. Begins(V[s], W[s]) \/ Begins(V[s], l[2])
    BY <1>2, <1>3, <2>0, BeginsTrans
  <2>2. Rooted(L, W[s]) /\ \A n \in DOMAIN W[s] : W[s][n].Term <= disk[s].currentTerm
    BY <1>1 DEF LogsRooted
  <2>3. Rooted(L, V[s])
    BY <1>2, <1>3, <2>1, <2>2, RootedBegins
  <2>4. ASSUME NEW n \in DOMAIN V[s] PROVE V[s][n].Term <= l[1]
    <3>0. V[s][n] \in LogEntry /\ n \in 1..Len(V[s])
      BY <1>2, ElementOfSeq
    <3>1. V[s][n].Term \in Nat
      BY <3>0 DEF LogEntry
    <3>2. CASE Begins(V[s], W[s])
      <4>1. n \in DOMAIN W[s] /\ V[s][n] = W[s][n]
        BY <1>2, <3>0, <3>2 DEF Begins
      <4>2. V[s][n].Term <= disk[s].currentTerm
        BY <2>2, <4>1
      <4>. QED
        BY <1>2, <1>3, <1>4, <3>1, <4>2
    <3>3. CASE Begins(V[s], l[2])
      <4>1. n \in DOMAIN l[2] /\ V[s][n] = l[2][n]
        BY <1>2, <1>3, <3>0, <3>3 DEF Begins
      <4>2. n <= n
        BY <3>0
      <4>. QED
        BY <1>3, <4>1, <4>2 DEF Ordered
    <3>. QED
      BY <2>1, <3>2, <3>3
  <2>5. ASSUME NEW p \in Server
        PROVE  \/ V[p] = W[p]
               \/ /\ Rooted(L, V[p])
                  /\ \A n \in DOMAIN V[p] : V[p][n].Term <= disk'[p].currentTerm
    BY <1>10, <2>3, <2>4
  <2>6. L \subseteq L /\ W \in [Server -> Seq(LogEntry)] /\ LogsRooted(L, W) /\ TermsGrow
    BY <1>1, <1>10
  <2>. QED
    BY <2>5, <2>6, LogsRootedKept
<1>15. AcceptedFits(L, B)'
  <2>1. B \subseteq Server \X Nat \X Seq(LogEntry)
    <3>1. A \subseteq Server \X Nat \X Seq(LogEntry)
      BY <1>1 DEF AcceptedFits
    <3>. QED
      BY <1>6, <1>7, <3>1
  <2>2. ASSUME NEW e \in B
        PROVE  \/ e \in A
               \/ /\ e[2] <= disk'[e[1]].currentTerm
                  /\ \E m \in L : m[1] = e[2] /\ Begins(e[3], m[2])
    <3>1. CASE e = ne
      <4>1. l[1] <= disk'[s].currentTerm
        BY <1>3, <1>10
      <4>. QED
        BY <1>7, <3>1, <4>1
    <3>. QED
      BY <1>6, <3>1
  <2>. QED
    BY <1>1, <1>10, <2>1, <2>2, FitsKept
<1>16. AcceptedStays(B, V)'
  <2>1. ASSUME NEW e \in B, e \notin A PROVE e[3] \in Seq(LogEntry) /\ Begins(e[3], V[e[1]])
    <3>1. e = ne /\ ok
      BY <1>6, <2>1
    <3>2. Begins(b, V[s])
      BY <3>1, MergedHas
    <3>. QED
      BY <1>3, <1>7, <1>9, <3>1, <3>2
  <2>2. ASSUME NEW p \in Server, NEW x \in Filled, HasAccepted(A, p, x), Choosable(A, x),
               Begins(x, W[p])
        PROVE  Begins(x, V[p])
    <3>1. CASE p = s
      <4>1. TermOf(x) <= disk[s].currentTerm
        BY <1>1, <2>2, <3>1, AcceptedRoot
      <4>2. x \in Seq(LogEntry) /\ TermOf(x) \in Nat
        BY FilledIn
      <4>3. TermOf(x) <= l[1]
        BY <1>2, <1>3, <1>4, <4>1, <4>2
      <4>6. Comparable(x, l[2])
        BY <1>1, <2>2, <4>3, ChoosableAgrees
      <4>4. Comparable(x, b)
        <5>1. Comparable(l[2], x)
          BY <4>6 DEF Comparable
        <5>2. Comparable(b, x)
          BY <1>3, <4>2, <5>1, ComparableBelow
        <5>. QED
          BY <5>2 DEF Comparable
      <4>5. Begins(x, V[s])
        BY <1>2, <1>3, <1>8, <2>2, <3>1, <4>2, <4>4, MergeKeeps
      <4>. QED
        BY <1>9, <3>1, <4>5
    <3>2. CASE p # s
      BY <1>9, <2>2, <3>2
    <3>. QED
      BY <3>1, <3>2
  <2>. QED
    BY <1>1, <1>10, <1>11, <2>1, <2>2, StaysKept
<1>17. LaterLeadersHave(L, B)'
  BY <1>1, <1>10, <1>11, LaterKept
<1>18. VotesCarry(B, V)'
  <2>1. ASSUME NEW p \in Server, rf'[p].role = "candidate"
        PROVE  \/ /\ rf[p].role = "candidate" /\ rf'[p].currentTerm = rf[p].currentTerm
                  /\ V[p] = W[p]
               \/ Led(rf[p].currentTerm)'
    <3>1. CASE p # s
      BY <1>9, <2>1, <3>1
    <3>2. CASE p = s
      <4>1. h.role = "candidate" /\ rf'[p].currentTerm = l[1]
        BY <1>9, <2>1, <3>2
      <4>2. Led(l[1])
        BY <4>1
      <4>3. PICK q \in Server : <<q, l[1]>> \in led
        BY <4>2 DEF Led
      <4>0. <<q, l[1]>> \in led'
        BY <4>3
      <4>4. <<q, rf'[p].currentTerm>> \in led'
        BY <4>0, <4>1, Zenon
      <4>5. \E u \in Server : <<u, rf'[p].currentTerm>> \in led'
        BY <4>4
      <4>6. Led(rf[p].currentTerm)'
        BY <4>5 DEF Led
      <4>. QED
        BY <4>6
    <3>. QED
      BY <3>1, <3>2
  <2>2. led \subseteq led'
    OBVIOUS
  <2>. QED
    BY <1>1, <1>10, <1>11, <2>1, <2>2, VotesCarryKept
<1>19. MatchAccepted(B)'
  <2>1. ASSUME NEW p \in Server, rf'[p].role = "leader" PROVE rf'[p] = rf[p]
    BY <1>9, <2>1
  <2>. QED
    BY <1>1, <1>6, <2>1, MatchKept
<1>20. RepliesAccepted(B)'
  <2>1. ASSUME NEW d \in aeCalls', d.done, d.reply.Success
        PROVE  \/ \E e \in aeCalls : Alike(d, e) /\ e.done /\ e.reply.Success
               \/ AcceptedUpTo(B, d.to, d.Term, d.PrevLogIndex + Len(d.Entries))
    <3>1. CASE ok /\ d.to = s /\ d.Term = l[1] /\ d.PrevLogIndex + Len(d.Entries) < Len(b)
      BY <1>6, <1>7, <3>1 DEF AcceptedUpTo
    <3>. QED
      BY <2>1, <3>1
  <2>. QED
    BY <1>1, <1>6, <2>1, RepliesKept
<1>21. CommitsChosen(B, V)'
  <2>1. ASSUME NEW p \in Server
        PROVE  \/ /\ rf'[p].commitIndex <= rf[p].commitIndex
                  /\ rf'[p].commitIndex + 1 <= Len(V[p])
                        \/ V[p] = W[p] \/ rf'[p].commitIndex = -1
                  /\ SameUpTo(V[p], W[p], rf'[p].commitIndex + 1)
               \/ KnownChosen(B, V[p], rf'[p].commitIndex + 1, disk'[p].currentTerm)
    <3>1. CASE p # s
      <4>1. rf'[p] = rf[p] /\ V[p] = W[p]
        BY <1>9, <3>1
      <4>. QED
        BY <4>1, PeerIn DEF SameUpTo
    <3>2. CASE p = s /\ h.commitIndex = rf[s].commitIndex
      <4>1. /\ rf[s].commitIndex + 1 <= Len(V[s])
            /\ SameUpTo(V[s], W[s], rf[s].commitIndex + 1)
        BY <1>2, <1>3, <1>4, <1>8, CommittedKept
      <4>2. rf'[p].commitIndex = rf[p].commitIndex /\ V[p] = V[s] /\ rf[p].commitIndex \in Int
        BY <1>9, <3>2, PeerIn
      <4>. QED
        BY <3>2, <4>1, <4>2
    <3>3. CASE p = s /\ KnownChosen(A, V[s], h.commitIndex + 1, l[1])
      <4>1. h.commitIndex + 1 \in Int
        BY DEF RaftState, LogIndex
      <4>2. KnownChosen(A, V[s], h.commitIndex + 1, l[1])
        BY <3>3
      <4>3. h.commitIndex + 1 > 0 => h.commitIndex + 1 <= Len(V[s])
        BY <4>2 DEF KnownChosen
      <4>4. SameUpTo(V[s], V[s], h.commitIndex + 1)
        BY DEF SameUpTo
      <4>5. KnownChosen(B, V[s], h.commitIndex + 1, l[1])
        BY <1>2, <1>3, <1>6, <4>1, <4>2, <4>3, <4>4, KnownLater
      <4>. QED
        BY <1>9, <1>10, <3>3, <4>5
    <3>. QED
      BY <3>1, <3>2, <3>3
  <2>. QED
    BY <1>1, <1>6, <1>10, <2>1, CommitsKept
<1>22. CallsFit(L, B)'
  <2>1. aeCalls \subseteq AppendEntriesCall
    BY DEF RaftInv, CallInv
  <2>. QED
    BY <1>1, <1>6, <2>1, CallsFitKept
<1>23. SnapshotsFit(L, B)'
  <2>1. isCalls \subseteq InstallSnapshotCall
    BY DEF RaftInv, CallInv
  <2>. QED
    BY <1>1, <1>6, <2>1, SnapshotsFitKept DEF InstallsStay
<1>25. Chronicle(L, B, V)'
  BY <1>12, <1>13, <1>14, <1>15, <1>16, <1>17, <1>18, <1>19, <1>20, <1>21, <1>22, <1>23
     DEF Chronicle
<1>. QED
  BY <1>25

\* What the snapshot covers is committed, so the leader has it.
LEMMA SnapshotAgrees ==
    ASSUME RaftInv, NEW L, NEW A, NEW W, Chronicle(L, A, W), NEW s \in Server, NEW l \in L,
           disk[s].currentTerm <= l[1], NEW n \in Int, n <= rf[s].commitIndex + 1
    PROVE  AgreeAsFar(W[s], l[2], n)
<1>0. PICK k : k = rf[s].commitIndex + 1
  OBVIOUS
<1>1. k \in Int /\ n <= k
  BY <1>0, PeerIn
<1>2. PICK y : y = SubSeq(W[s], 1, k)
  OBVIOUS
<1>3. y \in Seq(LogEntry) /\ Len(y) = k /\ Begins(y, W[s]) /\ Comparable(y, l[2])
  BY <1>0, <1>2, CommittedAgrees
<1>4. l[2] \in Seq(LogEntry) /\ Len(l[2]) \in Nat
  BY DEF Chronicle, LeaderLogs
<1>5. ASSUME NEW i \in 1..n, i <= Len(l[2]) PROVE W[s][i] = l[2][i]
  <2>1. i \in 1..Len(y) /\ i \in 1..Len(l[2])
    BY <1>1, <1>3, <1>4, <1>5
  <2>2. y[i] = W[s][i]
    BY <1>3, <2>1 DEF Begins
  <2>3. y[i] = l[2][i]
    BY <1>3, <2>1 DEF Comparable, Begins
  <2>. QED
    BY <2>2, <2>3
<1>. QED
  BY <1>5 DEF AgreeAsFar

(***************************************************************************)
(* The request c, which carries a part of the log of pair l, leaves its    *)
(* receiver with h and svc, and v as the whole log; ok is what it answers. *)
(***************************************************************************)
Accepts(A, W, c, l, h, v, svc, ok) ==
    LET g == rf[c.to]
    IN  /\ rf' = [rf EXCEPT ![c.to] = h] /\ disk' = [disk EXCEPT ![c.to] = Persistent(h)]
        /\ service' = [service EXCEPT ![c.to] = svc]
        /\ h.currentTerm = c.Term /\ h.role = "follower" /\ Whole(h, v)
        /\ \A d \in aeCalls' : d \in aeCalls \/ (SameCall(d, c) /\ d.reply.Success = ok)
        /\ l[1] = c.Term /\ Len(l[2]) = c.PrevLogIndex + 1 + Len(c.Entries)
        /\ KnownChosen(A, l[2], c.LeaderCommit + 1, c.Term)
        /\ ok => Merged(W[c.to], l[2], v)
        /\ ~ok => Refused(W[c.to], l[2], v)
        /\ h.commitIndex = IF ok /\ g.commitIndex < c.LeaderCommit
                             THEN c.LeaderCommit ELSE g.commitIndex
        /\ g.commitIndex + 1 <= Len(v) /\ SameUpTo(v, W[c.to], g.commitIndex + 1)
        /\ Applied(svc, v, h.commitIndex + 1) /\ Len(service[c.to]) <= Len(svc)
        /\ Len(service[c.to]) = g.commitIndex + 1 =>
               Len(svc) = h.commitIndex + 1 /\ fault'[c.to] = "none"
        /\ fault'[c.to] = "none" => Len(service[c.to]) = g.commitIndex + 1 \/ svc = service[c.to]
        /\ h.snapshot = g.snapshot /\ h.snapshotIndex = g.snapshotIndex

\* appendEntriesRequestHandler does so with a request that is not old.
LEMMA AcceptOutcome ==
    ASSUME RaftInv, RaftInv', GaplessInv, CleanHistory, CleanHistory',
           NEW L, NEW A, NEW W, Chronicle(L, A, W), AppliedIsCommitted(W), NEW c \in aeCalls,
           AppendEntriesRequestHandler(c), ~(c.Term < rf[c.to].currentTerm)
    PROVE  \E l \in L, h \in RaftState, v \in Seq(LogEntry), svc \in Seq(Command), ok \in BOOLEAN :
               Accepts(A, W, c, l, h, v, svc, ok)
<1>. DEFINE s == c.to
            g == ToFollower(rf[s], c.Term)
            answer == FollowerHandleLog(g.log, g.snapshotIndex, c)
            out == FollowerAfter(g, service[s], answer, c.LeaderCommit)
            r == [Term |-> c.Term, Success |-> answer.Success,
                  XTerm |-> answer.XTerm, XIndex |-> answer.XIndex]
            a == [c EXCEPT !.done = TRUE, !.reply = r]
<1>1. /\ rf \in [Server -> RaftState] /\ service \in [Server -> Seq(Command)]
      /\ aeCalls \subseteq AppendEntriesCall
  BY DEF RaftInv, NodeInv, CallInv
<1>2. /\ s \in Server /\ c.from \in Server /\ c.Term \in Nat /\ c.PrevLogIndex \in Int
      /\ c.Entries \in Seq(LogEntry) /\ c.LeaderCommit \in LogIndex
      /\ rf[s] \in RaftState /\ service[s] \in Seq(Command)
  BY <1>1 DEF AppendEntriesCall
<1>3. /\ Finish(s, out) /\ aeCalls' = Answered(aeCalls, c, r)
  BY DEF AppendEntriesRequestHandler
<1>4. /\ SameCall(a, c) /\ a.reply.Success = answer.Success
      /\ \A d \in aeCalls' : d \in aeCalls \/ d = a
  <2>1. SameCall(a, c) /\ a.reply = r
    BY <1>1 DEF AppendEntriesCall, SameCall, Alike
  <2>2. \A d \in aeCalls' : d \in aeCalls \/ d = a
    BY <1>3 DEF Answered
  <2>3. r.Success = answer.Success
    OBVIOUS
  <2>. HIDE DEF a, r
  <2>. QED
    BY <2>1, <2>2, <2>3
<1>. HIDE DEF a, r
<1>5. ~Overlays(rf[s], c) /\ Follows(c.Entries, c.PrevLogIndex)
  <2>1. overlaid' = {} /\ overlaid = {}
    BY DEF CleanHistory
  <2>2. overlaid' = overlaid \cup {x \in {s} : c.Term >= rf[s].currentTerm /\ Overlays(rf[s], c)}
    BY DEF AppendEntriesRequestHandler
  <2>3. rf[s].currentTerm \in Nat
    BY <1>2, PeerIn
  <2>4. c.Term >= rf[s].currentTerm
    BY <1>2, <2>3
  <2>. QED
    BY <2>1, <2>2, <2>4 DEF GaplessInv, GaplessCalls
<1>6. /\ g \in RaftState /\ g.log = rf[s].log /\ g.snapshotIndex = rf[s].snapshotIndex
      /\ g.snapshotTerm = rf[s].snapshotTerm /\ g.snapshot = rf[s].snapshot
      /\ g.currentTerm = c.Term /\ g.role = "follower" /\ g.commitIndex = rf[s].commitIndex
  BY <1>2, ToFollowerIn, ToFollowerFields, ObserveKeepsRole DEF LogKept
<1>. HIDE DEF g
<1>7. ~Overlays(g, c)
  BY <1>5, <1>6 DEF Overlays
<1>8. answer.log \in Seq(LogEntry) /\ answer.Success \in BOOLEAN
  <2>1. g.log \in Seq(LogEntry) /\ g.snapshotIndex \in LogIndex
    BY <1>6 DEF RaftState
  <2>2. answer.log \in Seq(LogEntry)
    BY <1>2, <2>1, FollowerHandleLogIn
  <2>3. answer.Success \in BOOLEAN
    BY DEF FollowerHandleLog, Answer
  <2>. QED
    BY <2>2, <2>3
<1>9. /\ out.g \in RaftState /\ out.g.currentTerm = c.Term /\ out.g.role = "follower"
  <2>1. out.g \in RaftState
    BY <1>2, <1>6, <1>8, FollowerAfterIn DEF OutcomeState
  <2>. QED
    BY <1>6, <2>1, FollowerAfterFields
<1>10. PICK h \in RaftState : h = out.g
  BY <1>9
<1>11. PICK svc : svc = out.service
  OBVIOUS
<1>12. /\ h.currentTerm = c.Term /\ h.role = "follower"
       /\ rf' = [rf EXCEPT ![s] = h] /\ disk' = [disk EXCEPT ![s] = Persistent(h)]
       /\ service' = [service EXCEPT ![s] = svc]
  BY <1>3, <1>9, <1>10, <1>11 DEF Finish
<1>13. /\ \A p \in Server : rf'[p] = IF p = s THEN h ELSE rf[p]
       /\ svc \in Seq(Command) /\ fault'[s] = out.fault
  <2>1. service' \in [Server -> Seq(Command)] /\ fault \in [Server -> Fault]
    BY DEF RaftInv, NodeInv
  <2>2. svc = service'[s]
    BY <1>1, <1>2, <1>12
  <2>3. fault'[s] = out.fault
    BY <1>2, <1>3, <2>1 DEF Finish
  <2>. QED
    BY <1>1, <1>2, <1>12, <2>1, <2>2, <2>3
<1>14. PICK w \in Seq(LogEntry) : w = W[s]
  BY <1>2, CommitsWithin
<1>15. LeaderLogs(L) /\ CallsFit(L, A) /\ LogsRooted(L, W) /\ Whole(g, w)
  <2>1. Whole(rf[s], w)
    BY <1>2, <1>14, CommitsWithin
  <2>2. Whole(g, w)
    BY <1>6, <2>1 DEF Whole
  <2>. QED
    BY <2>2 DEF Chronicle
<1>16. PICK l \in L : /\ l[1] = c.Term /\ Carries(c, l[2])
                      /\ Len(l[2]) = c.PrevLogIndex + 1 + Len(c.Entries)
                      /\ KnownChosen(A, l[2], c.LeaderCommit + 1, c.Term)
  BY <1>15 DEF CallsFit
<1>17. l[2] \in Seq(LogEntry) /\ Rooted(L, l[2]) /\ Rooted(L, w) /\ Len(l[2]) \in Nat
  BY <1>2, <1>14, <1>15 DEF LeaderLogs, LogsRooted
<1>18. Matching(w, l[2])
  BY <1>15, <1>17, RootedMatch
<1>20. /\ rf[s].currentTerm <= l[1] /\ rf[s].currentTerm \in Nat /\ disk[s].currentTerm <= l[1]
  <2>1. rf[s].currentTerm \in Nat /\ disk[s].currentTerm \in Nat
        /\ disk[s].currentTerm <= rf[s].currentTerm
    BY <1>2, PeerIn
  <2>. QED
    BY <1>2, <1>16, <2>1
<1>30. AgreeAsFar(w, l[2], g.snapshotIndex + 1)
  <2>1. g.snapshotIndex \in Int /\ g.snapshotIndex <= g.commitIndex /\ g.commitIndex \in Int
    <3>1. g.snapshotIndex \in Int
      BY <1>6, <1>15, WholeTail
    <3>2. g.commitIndex \in Int
      BY <1>2, <1>6, PeerIn
    <3>. QED
      BY <1>15, <3>1, <3>2 DEF Whole
  <2>2. g.snapshotIndex + 1 \in Int /\ g.snapshotIndex + 1 <= rf[s].commitIndex + 1
    BY <1>6, <2>1
  <2>3. AgreeAsFar(W[s], l[2], g.snapshotIndex + 1)
    BY <1>2, <1>20, <2>2, SnapshotAgrees
  <2>. QED
    BY <1>14, <2>3
<1>19. PICK v \in Seq(LogEntry) :
           /\ Whole([g EXCEPT !.log = answer.log], v)
           /\ answer.Success => Merged(w, l[2], v)
           /\ ~answer.Success => Refused(w, l[2], v)
  <2>1. LET ans == FollowerHandleLog(g.log, g.snapshotIndex, c)
        IN  ans.log \in Seq(LogEntry) =>
                \E v \in Seq(LogEntry) :
                    /\ Whole([g EXCEPT !.log = ans.log], v)
                    /\ ans.Success => Merged(w, l[2], v)
                    /\ ~ans.Success => Refused(w, l[2], v)
    BY <1>2, <1>5, <1>6, <1>7, <1>15, <1>16, <1>17, <1>18, <1>30, WholeMerge
  <2>. QED
    BY <1>8, <2>1
<1>. HIDE DEF answer
<1>21. /\ rf[s].commitIndex + 1 <= Len(v)
       /\ SameUpTo(v, w, rf[s].commitIndex + 1)
  <2>1. Refused(W[s], l[2], v) \/ Merged(W[s], l[2], v)
    BY <1>8, <1>14, <1>19
  <2>2. Begins(l[2], l[2])
    BY <1>17, BeginsSelf
  <2>3. /\ rf[s].commitIndex + 1 <= Len(v)
        /\ SameUpTo(v, W[s], rf[s].commitIndex + 1)
    BY <1>2, <1>17, <1>20, <2>1, <2>2, CommittedKept
  <2>. QED
    BY <1>14, <2>3
<1>22. Applied(service[s], v, rf[s].commitIndex + 1)
  <2>1. /\ Len(service[s]) <= rf[s].commitIndex + 1
        /\ \A i \in 1..Len(service[s]) :
               i <= Len(w) /\ service[s][i] = w[i].Command
    BY <1>2, <1>14 DEF AppliedIsCommitted, Applied
  <2>2. Len(service[s]) \in Nat /\ Len(v) \in Nat /\ rf[s].commitIndex \in Int
    BY <1>2, PeerIn
  <2>3. ASSUME NEW i \in 1..Len(service[s])
        PROVE  i <= Len(v) /\ service[s][i] = v[i].Command
    <3>1. i \in 1..(rf[s].commitIndex + 1) /\ i <= Len(v)
      BY <1>21, <2>1, <2>2
    <3>2. v[i] = w[i]
      BY <1>21, <3>1 DEF SameUpTo
    <3>. QED
      BY <2>1, <3>1, <3>2
  <2>. QED
    BY <2>1, <2>3 DEF Applied
<1>24. answer.Success => c.LeaderCommit + 1 <= Len(v)
  <2>. SUFFICES ASSUME answer.Success PROVE c.LeaderCommit + 1 <= Len(v)
    OBVIOUS
  <2>1. Begins(l[2], v)
    BY <1>19, MergedHas
  <2>2. Len(l[2]) <= Len(v) /\ Len(v) \in Nat /\ c.LeaderCommit \in Int
    BY <1>2, <2>1 DEF Begins, LogIndex
  <2>3. c.LeaderCommit + 1 > 0 => c.LeaderCommit + 1 <= Len(l[2])
    BY <1>16 DEF KnownChosen
  <2>. QED
    BY <1>17, <2>2, <2>3
<1>25. /\ h.commitIndex = IF answer.Success /\ rf[s].commitIndex < c.LeaderCommit
                            THEN c.LeaderCommit ELSE rf[s].commitIndex
       /\ Whole(h, v) /\ Applied(svc, v, h.commitIndex + 1)
       /\ Len(service[s]) <= Len(svc)
       /\ Len(service[s]) = rf[s].commitIndex + 1 => Len(svc) = h.commitIndex + 1 /\ fault'[s] = "none"
       /\ fault'[s] = "none" => Len(service[s]) = rf[s].commitIndex + 1 \/ svc = service[s]
       /\ h.snapshot = rf[s].snapshot /\ h.snapshotIndex = rf[s].snapshotIndex
  <2>1. Applied(service[s], v, g.commitIndex + 1)
    BY <1>6, <1>22
  <2>2. /\ out.g.commitIndex = IF answer.Success /\ g.commitIndex < c.LeaderCommit
                                 THEN c.LeaderCommit ELSE g.commitIndex
        /\ Whole(out.g, v)
        /\ Applied(out.service, v, out.g.commitIndex + 1)
        /\ Len(service[s]) <= Len(out.service)
        /\ Len(service[s]) = g.commitIndex + 1 =>
               Len(out.service) = out.g.commitIndex + 1 /\ out.fault = "none"
        /\ out.fault = "none" => Len(service[s]) = g.commitIndex + 1 \/ out.service = service[s]
        /\ out.g.snapshot = g.snapshot /\ out.g.snapshotIndex = g.snapshotIndex
    <3>0. PICK ans : ans = answer
      OBVIOUS
    <3>1. PICK k \in RaftState, old \in Seq(Command), lc \in LogIndex :
              k = g /\ old = service[s] /\ lc = c.LeaderCommit
      BY <1>2, <1>6
    <3>2. /\ k \in RaftState /\ old \in Seq(Command) /\ lc \in LogIndex /\ v \in Seq(LogEntry)
          /\ ans.log \in Seq(LogEntry) /\ Whole([k EXCEPT !.log = ans.log], v)
          /\ ans.Success => lc + 1 <= Len(v)
          /\ Applied(old, v, k.commitIndex + 1)
      BY <1>8, <1>19, <1>24, <2>1, <3>0, <3>1
    <3>3. FollowerDone(k, old, ans, lc, v, FollowerAfter(k, old, ans, lc))
      BY <3>2, FollowerCommits
    <3>4. FollowerDone(g, service[s], answer, c.LeaderCommit, v, out)
      BY <3>0, <3>1, <3>3
    <3>. HIDE DEF out, g, answer
    <3>. QED
      BY <3>4 DEF FollowerDone
  <2>. HIDE DEF out, g, answer
  <2>3. /\ g.commitIndex = rf[s].commitIndex /\ g.snapshot = rf[s].snapshot
        /\ g.snapshotIndex = rf[s].snapshotIndex
        /\ h = out.g /\ svc = out.service /\ fault'[s] = out.fault
    BY <1>6, <1>10, <1>11, <1>13
  <2>. QED
    BY <2>2, <2>3
<1>. HIDE DEF out
<1>26. \A d \in aeCalls' : d \in aeCalls \/ (SameCall(d, c) /\ d.reply.Success = answer.Success)
  BY <1>4
<1>31. /\ answer.Success => Merged(W[s], l[2], v)
       /\ ~answer.Success => Refused(W[s], l[2], v)
       /\ SameUpTo(v, W[s], rf[s].commitIndex + 1)
  BY <1>14, <1>19, <1>21
<1>27. Accepts(A, W, c, l, h, v, svc, answer.Success)
  BY <1>12, <1>13, <1>16, <1>21, <1>25, <1>26, <1>31 DEF Accepts
<1>. QED
  BY <1>8, <1>13, <1>27, Zenon

\* appendEntriesRequestHandler, a request that is not old.
LEMMA AcceptKeepsCommit ==
    ASSUME RaftInv, RaftInv', TallyInv, GaplessInv, CommitInv, CleanHistory, CleanHistory', NEW c \in aeCalls,
           AppendEntriesRequestHandler(c), ~(c.Term < rf[c.to].currentTerm)
    PROVE  CommitInv'
<1>. DEFINE s == c.to
<1>1. /\ rf \in [Server -> RaftState] /\ service \in [Server -> Seq(Command)]
      /\ aeCalls \subseteq AppendEntriesCall
  BY DEF RaftInv, NodeInv, CallInv
<1>2. /\ s \in Server /\ c.from \in Server /\ c.Term \in Nat /\ c.PrevLogIndex \in Int
      /\ c.Entries \in Seq(LogEntry) /\ c.LeaderCommit \in LogIndex
  BY <1>1 DEF AppendEntriesCall
<1>3. /\ rvCalls' = rvCalls /\ isCalls' = isCalls /\ goroutines' = goroutines
      /\ granted' = granted /\ won' = won /\ led' = led
  BY DEF AppendEntriesRequestHandler
<1>4. NoLeftovers /\ CallsAsk
  BY DEF CommitInv
<1>5. PICK L, A, W : Chronicle(L, A, W) /\ AppliedIsCommitted(W)
  BY DEF CommitInv
<1>6. PICK l \in L, h \in RaftState, v \in Seq(LogEntry), svc \in Seq(Command), ok \in BOOLEAN :
          Accepts(A, W, c, l, h, v, svc, ok)
  BY <1>5, AcceptOutcome, Zenon
<1>7. /\ \A p \in Server : rf'[p] = IF p = s THEN h ELSE rf[p]
      /\ \A p \in Server : service'[p] = IF p = s THEN svc ELSE service[p]
  BY <1>1, <1>6 DEF Accepts
<1>8. /\ l[2] \in Seq(LogEntry) /\ Len(l[2]) \in Nat 
  BY <1>5 DEF Chronicle, LeaderLogs
<1>16. WholeLogs(W) /\ W \in [Server -> Seq(LogEntry)]
  BY <1>5 DEF Chronicle, WholeLogs
<1>17. PICK V : V = [W EXCEPT ![s] = v]
  OBVIOUS
<1>18. /\ V \in [Server -> Seq(LogEntry)] /\ V[s] = v
       /\ \A p \in Server : p # s => V[p] = W[p]
  BY <1>2, <1>16, <1>17
<1>19. WholeLogs(V)'
  <2>1. ASSUME NEW p \in Server PROVE Whole(rf'[p], V[p])
    <3>1. CASE p = s
      BY <1>6, <1>7, <1>18, <3>1 DEF Accepts
    <3>2. CASE p # s
      BY <1>7, <1>16, <1>18, <3>2 DEF WholeLogs
    <3>. QED
      BY <3>1, <3>2
  <2>. QED
    BY <1>18, <2>1 DEF WholeLogs, Whole, Follows, Covers
<1>9. rf[s].currentTerm <= l[1] /\ rf[s].currentTerm \in Nat
  BY <1>2, <1>6, PeerIn DEF Accepts
<1>10. h.commitIndex = rf[s].commitIndex \/ KnownChosen(A, v, h.commitIndex + 1, l[1])
  <2>. SUFFICES ASSUME h.commitIndex # rf[s].commitIndex
                PROVE  KnownChosen(A, v, h.commitIndex + 1, l[1])
    OBVIOUS
  <2>1. ok /\ h.commitIndex = c.LeaderCommit
    BY <1>6 DEF Accepts
  <2>2. Begins(l[2], v)
    BY <1>6, <1>8, <1>16, <1>2, <2>1, MergedHas DEF Accepts
  <2>3. c.LeaderCommit + 1 > 0 => c.LeaderCommit + 1 <= Len(l[2])
    BY <1>6 DEF KnownChosen, Accepts
  <2>4. c.LeaderCommit + 1 \in Int /\ c.LeaderCommit + 1 <= c.LeaderCommit + 1 /\ l[1] \in Int /\ c.Term <= l[1]
    BY <1>2, <1>6 DEF LogIndex, Accepts
  <2>5. /\ Len(l[2]) <= Len(v) /\ Len(v) \in Nat
        /\ \A i \in 1..Len(l[2]) : l[2][i] = v[i]
    BY <2>2 DEF Begins
  <2>6. c.LeaderCommit + 1 > 0 =>
            c.LeaderCommit + 1 <= Len(v) /\ SameUpTo(v, l[2], c.LeaderCommit + 1)
    <3>. SUFFICES ASSUME c.LeaderCommit + 1 > 0
                  PROVE  /\ c.LeaderCommit + 1 <= Len(v)
                         /\ \A i \in 1..(c.LeaderCommit + 1) : v[i] = l[2][i]
      BY DEF SameUpTo
    <3>1. \A i \in 1..(c.LeaderCommit + 1) : i \in 1..Len(l[2])
      BY <1>8, <2>3, <2>4
    <3>. QED
      BY <1>8, <2>3, <2>4, <2>5, <3>1
  <2>7. KnownChosen(A, v, c.LeaderCommit + 1, l[1])
    BY <1>2, <1>6, <1>8, <2>2, <2>4, <2>6, KnownLater DEF Accepts
  <2>. QED
    BY <2>1, <2>7
<1>11. \E B : Chronicle(L, B, V)'
  <2>3. \A d \in aeCalls' : \E e \in aeCalls : SameCall(d, e)
    BY <1>6 DEF SameCall, Alike, Accepts
  <2>4. ASSUME NEW d \in aeCalls', d.done, d.reply.Success
        PROVE  \/ \E e \in aeCalls : Alike(d, e) /\ e.done /\ e.reply.Success
               \/ ok /\ d.to = s /\ d.Term = l[1] /\ d.PrevLogIndex + Len(d.Entries) < Len(l[2])
    <3>1. CASE d \in aeCalls
      BY <2>4, <3>1 DEF Alike
    <3>2. CASE SameCall(d, c) /\ d.reply.Success = ok
      <4>1. /\ d.to = s /\ d.Term = c.Term /\ d.PrevLogIndex = c.PrevLogIndex /\ d.Entries = c.Entries
            /\ ok
        BY <2>4, <3>2 DEF SameCall, Alike
      <4>2. c.PrevLogIndex + Len(c.Entries) < Len(l[2])
        BY <1>2, <1>6 DEF Accepts
      <4>. QED
        BY <1>6, <4>1, <4>2 DEF Accepts
    <3>. QED
      BY <1>6, <2>4, <3>1, <3>2 DEF Accepts
  <2>5. h.currentTerm = l[1]
    BY <1>6 DEF Accepts
  <2>6. PICK q \in Server : q = s
    BY <1>2
  <2>11. PICK b \in Seq(LogEntry) : b = l[2]
    BY <1>8
  <2>7. /\ rf' = [rf EXCEPT ![q] = h] /\ disk' = [disk EXCEPT ![q] = Persistent(h)]
        /\ rf[q].currentTerm <= l[1] /\ h.currentTerm = l[1]
        /\ h.role # "leader" /\ (h.role = "candidate" => Led(l[1]))
        /\ (ok => Merged(W[q], b, V[q])) /\ (~ok => Refused(W[q], b, V[q]))
        /\ led' = led /\ granted' = granted /\ \A p \in Server : p # q => V[p] = W[p]
        /\ h.commitIndex = rf[q].commitIndex \/ KnownChosen(A, V[q], h.commitIndex + 1, l[1])
    BY <1>3, <1>6, <1>9, <1>10, <1>18, <2>5, <2>6, <2>11 DEF Accepts
  <2>8. \A d \in aeCalls' : d.done /\ d.reply.Success =>
            \/ \E e \in aeCalls : Alike(d, e) /\ e.done /\ e.reply.Success
            \/ ok /\ d.to = q /\ d.Term = l[1] /\ d.PrevLogIndex + Len(d.Entries) < Len(b)
    BY <2>4, <2>6, <2>11
  <2>9. InstallsStay
    BY <1>3, AnsweredStay
  <2>10. Begins(b, l[2]) /\ V \in [Server -> Seq(LogEntry)]
    BY <1>18, <2>11, BeginsSelf
  <2>. HIDE DEF s
  <2>12. Took(A, W, V, q, h, l, b, ok)
    BY <2>3, <2>7, <2>8, <2>9, <2>10 DEF Took
  <2>. QED
    BY <1>5, <1>19, <2>10, <2>12, FollowerChronicle
<1>12. NoLeftovers'
  <2>1. <<s, h.currentTerm>> \notin won'
    <3>1. <<c.from, c.Term>> \in led /\ c.from # s
      BY <1>5 DEF Chronicle, CallsFit, Sent
    <3>2. <<c.from, c.Term>> \in won /\ CleanHistory
      BY <3>1 DEF CleanHistory
    <3>. QED
      BY <1>2, <1>3, <1>6, <3>1, <3>2, OneWinner DEF Accepts
  <2>. QED
    BY <1>2, <1>3, <1>4, <1>6, <2>1, LeftoversKept DEF Accepts
<1>13. CallsAsk'
  <2>1. AsksStay
    BY <1>3 DEF AsksStay
  <2>2. h.role # "candidate" /\ rf' = [rf EXCEPT ![s] = h]
    BY <1>6 DEF Accepts
  <2>. HIDE DEF s
  <2>. QED
    BY <1>2, <1>3, <1>4, <2>1, <2>2, AsksKept
<1>14. AppliedIsCommitted(V)'
  <2>1. ASSUME NEW p \in Server PROVE Applied(service'[p], V[p], rf'[p].commitIndex + 1)
    <3>1. CASE p = s
      <4>1. Applied(svc, v, h.commitIndex + 1)
        BY <1>6 DEF Accepts
      <4>. QED
        BY <1>7, <1>18, <3>1, <4>1
    <3>2. CASE p # s
      BY <1>5, <1>7, <1>18, <3>2 DEF AppliedIsCommitted
    <3>. QED
      BY <3>1, <3>2
  <2>. QED
    BY <2>1 DEF AppliedIsCommitted, Applied
<1>. QED
  <2>1. (\E X, B, Y : Chronicle(X, B, Y) /\ AppliedIsCommitted(Y))'
    BY <1>11, <1>14
  <2>. QED
    BY <1>12, <1>13, <2>1 DEF CommitInv

\* appendEntriesRequestHandler: an old request only learns the term.
LEMMA AppendRequestKeepsCommit ==
    ASSUME RaftInv, RaftInv', TallyInv, GaplessInv, CommitInv, CleanHistory, CleanHistory',
           NEW c \in aeCalls, AppendEntriesRequestHandler(c)
    PROVE  CommitInv'
<1>1. CASE c.Term < rf[c.to].currentTerm
  <2>. DEFINE s == c.to
              r == Refusal(rf[s].currentTerm)
  <2>1. s \in Server
    BY DEF RaftInv, CallInv, AppendEntriesCall
  <2>2. /\ Save(s, rf[s]) /\ aeCalls' = Answered(aeCalls, c, r)
        /\ rvCalls' = rvCalls /\ isCalls' = isCalls /\ goroutines' = goroutines
        /\ granted' = granted /\ won' = won /\ led' = led
    BY <1>1 DEF AppendEntriesRequestHandler
  <2>3. ~r.Success
    BY DEF Refusal
  <2>4. AsksStay /\ CallsStay /\ InstallsStay
    BY <2>2, <2>3, AnsweredStay
  <2>5. PICK h \in RaftState : h = rf[s]
    BY <2>1, PeerIn
  <2>6. /\ rf' = [rf EXCEPT ![s] = h] /\ disk' = [disk EXCEPT ![s] = Persistent(h)]
        /\ service' = service
        /\ LogKept(rf[s], h) /\ h.commitIndex = rf[s].commitIndex /\ KeepsRole(rf[s], h)
        /\ \A q \in Server : h.role = "leader" /\ h.matchIndex[q] >= 0 =>
               h.matchIndex[q] = rf[s].matchIndex[q]
    BY <2>2, <2>5 DEF Save, LogKept, KeepsRole
  <2>. QED
    BY <2>1, <2>2, <2>4, <2>6, HandlerKeepsCommit
<1>2. CASE ~(c.Term < rf[c.to].currentTerm)
  BY <1>2, AcceptKeepsCommit
<1>. QED
  BY <1>1, <1>2

-----------------------------------------------------------------------------
(* The handler of InstallSnapshot requests *)

\* What was chosen has no gaps.
LEMMA ChosenFollows ==
    ASSUME RaftInv, NEW L, NEW A, NEW W, Chronicle(L, A, W), NEW a \in Seq(LogEntry),
           NEW k \in Nat, k > 0, NEW t, KnownChosen(A, a, k, t)
    PROVE  /\ SubSeq(a, 1, k) \in Seq(LogEntry) /\ Len(SubSeq(a, 1, k)) = k
           /\ Begins(SubSeq(a, 1, k), a) /\ Follows(SubSeq(a, 1, k), -1)
<1>. DEFINE b == SubSeq(a, 1, k)
<1>1. PICK x \in Filled : Chosen(A, x) /\ k <= Len(x) /\ k <= Len(a) /\ SameUpTo(a, x, k)
  BY DEF KnownChosen
<1>2. b \in Seq(LogEntry) /\ Len(b) = k /\ Begins(b, a)
  BY <1>1, CutShort
<1>3. PICK p \in Server : HasAccepted(A, p, x) /\ Choosable(A, x)
  BY <1>1, ChosenChoosable
<1>4. Begins(x, W[p]) /\ Follows(W[p], -1) /\ W[p] \in Seq(LogEntry)
  BY <1>3 DEF Chronicle, AcceptedStays, WholeLogs, Whole
<1>5. Len(x) \in Nat /\ Len(W[p]) \in Nat
  BY <1>4, FilledIn
<1>. HIDE DEF b
<1>6. ASSUME NEW i \in DOMAIN b PROVE b[i].Index = -1 + i
  <2>1. i \in 1..k /\ i \in 1..Len(x) /\ i \in 1..Len(b)
    BY <1>1, <1>2, <1>5
  <2>2. b[i] = a[i] /\ a[i] = x[i] /\ x[i] = W[p][i]
    BY <1>1, <1>2, <1>4, <2>1 DEF Begins, SameUpTo
  <2>3. i \in DOMAIN W[p]
    BY <1>4, <1>5, <2>1 DEF Begins
  <2>. QED
    BY <1>4, <2>2, <2>3 DEF Follows
<1>7. Follows(b, -1)
  BY <1>6 DEF Follows
<1>. QED
  BY <1>2, <1>7 DEF b

(***************************************************************************)
(* InstallSnapshot of a snapshot of log b that the peer does not have yet, *)
(* on the whole log w: nothing happens (the code panics), or b is merged   *)
(* into w and the service moves to the snapshot.                           *)
(***************************************************************************)
Installed(w, b, g, svc, n, v, out) ==
    /\ Whole(out.g, v) /\ Merged(w, b, v)
    /\ Applied(out.service, v, out.g.commitIndex + 1) /\ Len(out.service) = n + 1
    /\ out.g.commitIndex = IF g.commitIndex < n THEN n ELSE g.commitIndex
    /\ out.g.role = g.role /\ out.g.currentTerm = g.currentTerm
    /\ out.g.snapshotIndex = n /\ out.g.snapshot = out.service
    /\ out.fault = "none"

\* InstallSnapshot with a snapshot that is new, of entries the whole log matches.
LEMMA InstallTakes ==
    ASSUME NEW g \in RaftState, NEW w \in Seq(LogEntry), Whole(g, w), g.commitIndex + 1 <= Len(w),
           NEW args, NEW n \in Nat, args.LastIncludedIndex = n, g.snapshotIndex < n,
           args.Snapshot \in Seq(Command), Len(args.Snapshot) = n + 1,
           NEW b \in Seq(LogEntry), Len(b) = n + 1, Follows(b, -1),
           Covers(args.Snapshot, n, args.LastIncludedTerm, b), Matching(w, b),
           NEW svc
    PROVE  LET out == AfterInstall(g, svc, args)
           IN  \/ out.g = g /\ out.service = svc /\ out.fault = "panic"
               \/ \E v \in Seq(LogEntry) : Installed(w, b, g, svc, n, v, out)
<1>. DEFINE out == AfterInstall(g, svc, args)
            at  == FindIndex(g.log, n)
            snapshot == args.Snapshot
<1>1. /\ g.log \in Seq(LogEntry) /\ Len(g.log) \in Nat /\ Len(w) \in Nat
      /\ g.snapshotIndex \in Int /\ Len(w) = g.snapshotIndex + 1 + Len(g.log)
      /\ \A i \in 1..Len(g.log) : g.log[i] = w[g.snapshotIndex + 1 + i]
      /\ Follows(g.log, g.snapshotIndex) /\ g.commitIndex \in Int
  <2>1. g.commitIndex \in Int
    BY DEF RaftState, LogIndex
  <2>. QED
    BY <2>1, WholeTail
<1>2. /\ n \in Int /\ (at # 0 => at = n - g.snapshotIndex)
      /\ at # 0 <=> g.snapshotIndex < n /\ n <= g.snapshotIndex + Len(g.log)
  <2>1. n \in Int
    OBVIOUS
  <2>2. PICK log \in Seq(LogEntry), i \in Int : log = g.log /\ i = g.snapshotIndex /\ Follows(log, i)
    BY <1>1
  <2>3. /\ FindIndex(log, n) # 0 => FindIndex(log, n) = n - i
        /\ FindIndex(log, n) # 0 <=> i < n /\ n <= i + Len(log)
    BY <2>1, <2>2, FindFollows
  <2>. QED
    BY <2>1, <2>2, <2>3
<1>3. /\ \A i \in 1..(n + 1) : snapshot[i] = b[i].Command
      /\ args.LastIncludedTerm = b[n + 1].Term
  BY DEF Covers
<1>. HIDE DEF at, snapshot
<1>4. CASE at = 0
  <2>. DEFINE h == [g EXCEPT !.snapshot = snapshot, !.log = <<>>, !.snapshotIndex = n,
                             !.snapshotTerm = args.LastIncludedTerm, !.commitIndex = n]
  <2>1. Len(w) <= n + 1 /\ g.commitIndex <= n
    <3>1. PICK i \in Int, x \in Nat, y \in Nat :
              i = g.snapshotIndex /\ x = Len(g.log) /\ y = Len(w)
      BY <1>1
    <3>2. ~(n <= i + x) /\ y = i + 1 + x
      BY <1>1, <1>2, <1>4, <3>1
    <3>3. y <= n + 1
      BY <3>2
    <3>. QED
      BY <1>1, <3>1, <3>3
  <2>2. out.g = h /\ out.service = snapshot /\ out.fault = "none"
    <3>1. ~(n < g.commitIndex)
      BY <1>1, <2>1
    <3>. QED
      BY <1>4, <3>1 DEF AfterInstall, Outcome, at, snapshot
  <2>3. /\ h.snapshot = snapshot /\ h.log = <<>> /\ h.snapshotIndex = n
        /\ h.snapshotTerm = args.LastIncludedTerm /\ h.commitIndex = n
        /\ h.role = g.role /\ h.currentTerm = g.currentTerm
    BY DEF RaftState
  <2>. HIDE DEF h, out
  <2>4. Whole(h, b)
    <3>1. Covers(h.snapshot, h.snapshotIndex, h.snapshotTerm, b)
      BY <2>3 DEF snapshot
    <3>2. Len(h.log) = 0 /\ Len(b) - (n + 1) = 0 /\ h.snapshotIndex <= h.commitIndex
      BY <2>3
    <3>3. Len(h.log) = Len(b) - (h.snapshotIndex + 1)
      BY <2>3, <3>2
    <3>4. \A i \in 1..Len(h.log) : h.log[i] = b[h.snapshotIndex + 1 + i]
      BY <3>2
    <3>. QED
      BY <3>1, <3>2, <3>3, <3>4 DEF Whole
  <2>5. Merged(w, b, b)
    BY <2>1, BeginsSelf DEF Merged
  <2>6. Applied(snapshot, b, n + 1) /\ Len(snapshot) = n + 1
    BY <1>3 DEF Applied, snapshot
  <2>7. Installed(w, b, g, svc, n, b, out)
    <3>1. h.commitIndex = IF g.commitIndex < n THEN n ELSE g.commitIndex
      BY <1>1, <2>1, <2>3
    <3>. QED
      BY <2>2, <2>3, <2>4, <2>5, <2>6, <3>1 DEF Installed
  <2>. QED
    BY <2>7 DEF out
<1>5. CASE at # 0 /\ g.log[at].Term # args.LastIncludedTerm
  BY <1>5 DEF AfterInstall, Outcome, at
<1>6. CASE at # 0 /\ g.log[at].Term = args.LastIncludedTerm
  <2>. DEFINE m == IF g.commitIndex < n THEN n ELSE g.commitIndex
              k == [g EXCEPT !.commitIndex = m]
              h == Compacted(k, at, snapshot)
  <2>0. m \in Nat /\ n <= m /\ g.commitIndex <= m
    BY <1>1
  <2>. HIDE DEF m
  <2>1. out.service = snapshot /\ out.fault = "none" /\ out.g = h
    <3>1. out.service = snapshot /\ out.fault = "none"
          /\ out.g = [Compacted(g, at, snapshot) EXCEPT !.commitIndex = IF @ < n THEN n ELSE @]
      BY <1>6 DEF AfterInstall, Outcome, at, snapshot
    <3>2. Compacted(g, at, snapshot).commitIndex = g.commitIndex
      BY DEF Compacted, RaftState
    <3>3. out.g = [Compacted(g, at, snapshot) EXCEPT !.commitIndex = m]
      BY <3>1, <3>2 DEF m
    <3>4. [Compacted(g, at, snapshot) EXCEPT !.commitIndex = m] = h
      BY DEF Compacted, RaftState
    <3>. QED
      BY <3>1, <3>3, <3>4
  <2>2. /\ k \in RaftState /\ k.log = g.log /\ k.commitIndex = m /\ k.role = g.role
        /\ k.currentTerm = g.currentTerm /\ k.snapshot = g.snapshot
        /\ k.snapshotIndex = g.snapshotIndex /\ k.snapshotTerm = g.snapshotTerm
    BY <2>0 DEF RaftState, LogIndex
  <2>. HIDE DEF k, out
  <2>3. Whole(k, w)
    <3>1. k.snapshotIndex <= k.commitIndex
      BY <1>1, <2>0, <2>2
    <3>. QED
      BY <2>2, <3>1 DEF Whole
  <2>4. n + 1 \in DOMAIN w /\ n + 1 \in DOMAIN b /\ g.log[at] = w[n + 1]
    <3>1. PICK i \in Int, x \in Nat, y \in Nat :
              i = g.snapshotIndex /\ x = Len(g.log) /\ y = Len(w)
      BY <1>1
    <3>2. at = n - i /\ i < n /\ n <= i + x /\ y = i + 1 + x
      BY <1>1, <1>2, <1>6, <3>1
    <3>3. n + 1 \in 1..y /\ at \in 1..x /\ i + 1 + at = n + 1
      BY <3>2
    <3>4. g.log[at] = w[n + 1]
      BY <1>1, <3>1, <3>3
    <3>. QED
      BY <3>1, <3>3, <3>4
  <2>5. \A i \in 1..(n + 1) : w[i] = b[i]
    BY <1>3, <1>6, <2>4 DEF Matching
  <2>6. n + 1 <= Len(w)
    BY <1>1, <2>4
  <2>7. Begins(b, w)
    BY <2>5, <2>6 DEF Begins
  <2>8. \A i \in 1..(n + 1) : snapshot[i] = w[i].Command
    BY <1>3, <2>5
  <2>9. snapshot \in Seq(Command) /\ FindIndex(k.log, n) = at /\ at # 0 /\ n <= k.commitIndex
    BY <1>6, <2>0, <2>2 DEF snapshot, at
  <2>10. /\ Whole(h, w) /\ h.commitIndex = k.commitIndex /\ h.role = k.role
         /\ h.currentTerm = k.currentTerm /\ h.snapshot = snapshot /\ h.snapshotIndex = n
    BY <2>2, <2>3, <2>8, <2>9, CompactedWhole
  <2>. HIDE DEF h
  <2>11. Applied(snapshot, w, m + 1) /\ Len(snapshot) = n + 1
    <3>1. Len(snapshot) = n + 1 /\ n + 1 <= m + 1
      BY <2>0 DEF snapshot
    <3>2. \A i \in 1..(n + 1) : i <= Len(w)
      BY <1>1, <2>6
    <3>. QED
      BY <2>8, <3>1, <3>2 DEF Applied
  <2>12. Installed(w, b, g, svc, n, w, out)
    <3>1. Merged(w, b, w)
      BY <2>7 DEF Merged
    <3>. QED
      BY <2>1, <2>2, <2>10, <2>11, <3>1 DEF Installed, m
  <2>. QED
    BY <2>12 DEF out
<1>. QED
  BY <1>4, <1>5, <1>6

(***************************************************************************)
(* The snapshot in call c covers b, which begins the log of pair l and was *)
(* chosen, and its receiver, which has less in its snapshot, takes b over, *)
(* so that v is its whole log.                                             *)
(***************************************************************************)
Installs(A, W, c, l, b, v) ==
    LET s == c.to
        n == c.LastIncludedIndex
    IN  /\ n \in Nat /\ rf[s].snapshotIndex < n /\ rf[s].currentTerm <= c.Term
        /\ l[1] = c.Term /\ KnownChosen(A, l[2], n + 1, c.Term)
        /\ Begins(b, l[2]) /\ Len(b) = n + 1
        /\ Installed(W[s], b, Observe(rf[s], c.Term), service[s], n, v,
                     InstallOutcome(rf[s], service[s], c))

\* The handler does that, or the call changes nothing but the term.
LEMMA InstallOutcomes ==
    ASSUME RaftInv, NEW L, NEW A, NEW W, Chronicle(L, A, W), NEW c \in isCalls
    PROVE  LET s == c.to
               out == InstallOutcome(rf[s], service[s], c)
           IN  \/ /\ out.g = rf[s] \/ out.g = Observe(rf[s], c.Term)
                  /\ out.service = service[s] /\ out.fault \in {"none", "panic"}
               \/ \E l \in L, b \in Seq(LogEntry), v \in Seq(LogEntry) : Installs(A, W, c, l, b, v)
<1>. DEFINE s == c.to
            n == c.LastIncludedIndex
            out == InstallOutcome(rf[s], service[s], c)
            g == Observe(rf[s], c.Term)
            Same == /\ out.g = rf[s] \/ out.g = g
                    /\ out.service = service[s] /\ out.fault \in {"none", "panic"}
            Taken == \E l \in L, b \in Seq(LogEntry), v \in Seq(LogEntry) : Installs(A, W, c, l, b, v)
<1>0. SUFFICES Same \/ Taken
  OBVIOUS
<1>1. /\ rf \in [Server -> RaftState] /\ service \in [Server -> Seq(Command)]
      /\ isCalls \subseteq InstallSnapshotCall /\ Len(c.Snapshot) = n + 1
  BY DEF RaftInv, NodeInv, CallInv
<1>2. /\ s \in Server /\ c.from \in Server /\ c.Term \in Nat /\ n \in Int /\ n >= -1
      /\ c.Snapshot \in Seq(Command) /\ rf[s] \in RaftState /\ service[s] \in Seq(Command)
      /\ rf[s].currentTerm \in Nat
  BY <1>1, PeerIn DEF InstallSnapshotCall, LogIndex
<1>4. /\ g \in RaftState /\ LogKept(rf[s], g) /\ g.commitIndex = rf[s].commitIndex
  BY <1>2, ObserveIn, ObserveKeepsRole
<1>8. CASE /\ out = AfterInstall(g, service[s], c) /\ rf[s].currentTerm <= c.Term
           /\ rf[s].snapshotIndex < n
  <2>3. PICK w \in Seq(LogEntry) : w = W[s]
    BY <1>2, CommitsWithin
  <2>4. /\ rf[s].commitIndex + 1 <= Len(w) /\ Whole(rf[s], w) /\ Whole(g, w)
        /\ g.commitIndex + 1 <= Len(w)
    <3>1. rf[s].commitIndex + 1 <= Len(w) /\ Whole(rf[s], w)
      BY <1>2, <2>3, CommitsWithin
    <3>2. Whole(g, w)
      BY <1>4, <3>1 DEF Whole, LogKept
    <3>. HIDE DEF g
    <3>. QED
      BY <1>4, <3>1, <3>2
  <2>5. PICK l \in L : /\ l[1] = c.Term /\ Covers(c.Snapshot, n, c.LastIncludedTerm, l[2])
                       /\ KnownChosen(A, l[2], n + 1, c.Term)
    BY DEF Chronicle, SnapshotsFit
  <2>7. LeaderLogs(L) /\ LogsRooted(L, W) /\ WholeLogs(W) /\ W \in [Server -> Seq(LogEntry)]
    BY DEF Chronicle, WholeLogs
  <2>8. l[2] \in Seq(LogEntry) /\ Rooted(L, l[2]) /\ Rooted(L, w) /\ Len(l[2]) \in Nat
    BY <1>2, <2>3, <2>7 DEF LeaderLogs, LogsRooted
  <2>9. n \in Nat /\ n + 1 \in Nat /\ n + 1 > 0
    <3>1. rf[s].snapshotIndex \in Int /\ rf[s].snapshotIndex >= -1
      BY <1>2, <2>4, WholeTail
    <3>. HIDE DEF n
    <3>. QED
      BY <1>2, <1>8, <3>1
  <2>10. PICK b : b = SubSeq(l[2], 1, n + 1)
    OBVIOUS
  <2>11. b \in Seq(LogEntry) /\ Len(b) = n + 1 /\ Begins(b, l[2]) /\ Follows(b, -1)
    <3>. HIDE DEF n
    <3>. QED
      BY <2>5, <2>8, <2>9, <2>10, ChosenFollows
  <2>12. Matching(w, b)
    <3>1. Rooted(L, b)
      BY <2>8, <2>11, RootedBegins
    <3>. QED
      BY <2>7, <2>8, <2>11, <3>1, RootedMatch
  <2>13. Covers(c.Snapshot, n, c.LastIncludedTerm, b)
    <3>. HIDE DEF n
    <3>1. \A i \in 1..(n + 1) : b[i] = l[2][i]
      BY <2>11 DEF Begins
    <3>2. n + 1 \in 1..(n + 1) /\ n # -1
      BY <2>9
    <3>. QED
      BY <2>5, <2>9, <2>11, <3>1, <3>2 DEF Covers
  <2>14. g.snapshotIndex < n
    BY <1>4, <1>8 DEF LogKept
  <2>15. \/ out.g = g /\ out.service = service[s] /\ out.fault = "panic"
         \/ \E v \in Seq(LogEntry) : Installed(w, b, g, service[s], n, v, out)
    <3>1. PICK svc : svc = service[s]
      OBVIOUS
    <3>2. PICK k \in RaftState : k = g
      BY <1>4
    <3>3. LET o == AfterInstall(k, svc, c)
          IN  \/ o.g = k /\ o.service = svc /\ o.fault = "panic"
              \/ \E v \in Seq(LogEntry) : Installed(w, b, k, svc, n, v, o)
      <4>. HIDE DEF g, out, s
      <4>. QED
        BY <1>1, <1>2, <2>4, <2>9, <2>11, <2>12, <2>13, <2>14, <3>2, InstallTakes
    <3>. HIDE DEF g, out, s, n
    <3>. QED
      BY <1>8, <3>1, <3>2, <3>3
  <2>16. ASSUME NEW v \in Seq(LogEntry), Installed(w, b, g, service[s], n, v, out) PROVE Taken
    <3>1. Installs(A, W, c, l, b, v)
      BY <1>8, <2>3, <2>5, <2>9, <2>11, <2>16 DEF Installs
    <3>. QED
      BY <2>11, <3>1
  <2>. HIDE DEF out, g, Taken
  <2>. QED
    BY <2>15, <2>16
<1>. QED
  <2>1. ~(rf[s].currentTerm > c.Term) => rf[s].currentTerm <= c.Term
    BY <1>2
  <2>2. ~(rf[s].snapshotIndex >= n) => rf[s].snapshotIndex < n
    <3>1. rf[s].snapshotIndex \in Int
      BY <1>2 DEF RaftState, LogIndex
    <3>. HIDE DEF n
    <3>. QED
      BY <1>2, <3>1
  <2>3. \/ out.g = rf[s] /\ out.service = service[s] /\ out.fault \in {"none", "panic"}
        \/ /\ out = AfterInstall(g, service[s], c)
           /\ ~(rf[s].currentTerm > c.Term) /\ ~(rf[s].snapshotIndex >= n)
    BY DEF InstallOutcome, Outcome
  <2>. HIDE DEF out, g, n, Taken
  <2>. QED
    BY <1>8, <2>1, <2>2, <2>3

\* InstallSnapshot requests.
LEMMA InstallRequestKeepsCommit ==
    ASSUME RaftInv, RaftInv', TallyInv, LeadInv, CommitInv, CleanHistory, NEW c \in isCalls,
           InstallSnapshotRequestHandler(c)
    PROVE  CommitInv'
<1>. DEFINE s == c.to
            n == c.LastIncludedIndex
            out == InstallOutcome(rf[s], service[s], c)
            g == Observe(rf[s], c.Term)
<1>1. /\ rf \in [Server -> RaftState] /\ service \in [Server -> Seq(Command)]
      /\ isCalls \subseteq InstallSnapshotCall /\ Len(c.Snapshot) = n + 1
  BY DEF RaftInv, NodeInv, CallInv
<1>2. /\ s \in Server /\ c.from \in Server /\ c.Term \in Nat /\ n \in Int /\ n >= -1
      /\ c.Snapshot \in Seq(Command) /\ rf[s] \in RaftState /\ service[s] \in Seq(Command)
      /\ rf[s].currentTerm \in Nat
  BY <1>1, PeerIn DEF InstallSnapshotCall, LogIndex
<1>3. /\ Finish(s, out)
      /\ AsksStay /\ CallsStay /\ InstallsStay /\ goroutines' = goroutines
      /\ granted' = granted /\ won' = won /\ led' = led
  <2>1. /\ Finish(s, out) /\ isCalls' = Answered(isCalls, c, [Term |-> out.g.currentTerm])
        /\ rvCalls' = rvCalls /\ aeCalls' = aeCalls /\ goroutines' = goroutines /\ UNCHANGED history
    BY DEF InstallSnapshotRequestHandler
  <2>2. AsksStay /\ CallsStay /\ InstallsStay
    BY <2>1, AnsweredStay
  <2>. QED
    BY <2>1, <2>2 DEF history
<1>4. /\ g \in RaftState /\ LogKept(rf[s], g) /\ g.commitIndex = rf[s].commitIndex
      /\ KeepsRole(rf[s], g) /\ g.matchIndex = rf[s].matchIndex
  BY <1>2, ObserveIn, ObserveKeepsRole
<1>5. ASSUME NEW h \in RaftState, h = rf[s] \/ h = g, out.g = h, out.service = service[s]
      PROVE  CommitInv'
  <2>1. /\ LogKept(rf[s], h) /\ h.commitIndex = rf[s].commitIndex /\ KeepsRole(rf[s], h)
        /\ h.matchIndex = rf[s].matchIndex
    <3>. HIDE DEF g
    <3>1. CASE h = rf[s]
      BY <3>1 DEF LogKept, KeepsRole
    <3>2. CASE h = g
      BY <1>4, <3>2
    <3>. QED
      BY <1>5, <3>1, <3>2
  <2>2. /\ rf' = [rf EXCEPT ![s] = h] /\ disk' = [disk EXCEPT ![s] = Persistent(h)]
        /\ service' = service
    BY <1>1, <1>3, <1>5 DEF Finish
  <2>. HIDE DEF s, out, g
  <2>. QED
    BY <1>2, <1>3, <2>1, <2>2, HandlerKeepsCommit
<1>6. PICK L, A, W : Chronicle(L, A, W) /\ AppliedIsCommitted(W)
  BY DEF CommitInv
<1>7. CASE (out.g = rf[s] \/ out.g = g) /\ out.service = service[s]
  <2>. HIDE DEF out, g
  <2>. QED
    BY <1>2, <1>4, <1>5, <1>7
<1>8. ASSUME NEW l \in L, NEW b \in Seq(LogEntry), NEW v \in Seq(LogEntry), Installs(A, W, c, l, b, v)
      PROVE  CommitInv'
  <2>1. Chronicle(L, A, W) /\ AppliedIsCommitted(W)
    BY <1>6
  <2>2. NoLeftovers /\ CallsAsk
    BY DEF CommitInv
  <2>3. PICK w \in Seq(LogEntry) : w = W[s]
    BY <1>2, <2>1, CommitsWithin
  <2>5. /\ n \in Nat /\ rf[s].snapshotIndex < n /\ rf[s].currentTerm <= c.Term
        /\ l[1] = c.Term /\ KnownChosen(A, l[2], n + 1, c.Term)
        /\ Begins(b, l[2]) /\ Len(b) = n + 1
    BY <1>8 DEF Installs
  <2>6. Sent(c)
    BY <2>1 DEF Chronicle, SnapshotsFit
  <2>7. LeaderLogs(L) /\ WholeLogs(W) /\ W \in [Server -> Seq(LogEntry)]
    BY <2>1 DEF Chronicle, WholeLogs
  <2>8. l[2] \in Seq(LogEntry) /\ Len(l[2]) \in Nat
    BY <2>7 DEF LeaderLogs
  <2>9. n + 1 \in Nat /\ n + 1 > 0
    BY <2>5
  <2>14. Installed(w, b, g, service[s], n, v, out)
    BY <1>8, <2>3 DEF Installs
  <2>15. PICK h, svc : h = out.g /\ svc = out.service
    OBVIOUS
  <2>16. /\ rf' = [rf EXCEPT ![s] = h] /\ disk' = [disk EXCEPT ![s] = Persistent(h)]
         /\ service' = [service EXCEPT ![s] = svc]
         /\ Whole(h, v) /\ Merged(w, b, v) /\ Applied(svc, v, h.commitIndex + 1)
         /\ h.commitIndex = (IF rf[s].commitIndex < n THEN n ELSE rf[s].commitIndex)
         /\ h.role = g.role /\ h.currentTerm = g.currentTerm
    BY <1>3, <1>4, <2>14, <2>15 DEF Finish, Installed
  <2>17. /\ \A p \in Server : rf'[p] = IF p = s THEN h ELSE rf[p]
         /\ \A p \in Server : service'[p] = IF p = s THEN svc ELSE service[p]
         /\ h \in RaftState
    <3>1. rf'[s] \in RaftState /\ rf'[s] = h
      BY <1>1, <1>2, <2>16, PeerInNext
    <3>. QED
      BY <1>1, <2>16, <3>1
  <2>18. g.currentTerm = c.Term
    <3>1. CASE rf[s].currentTerm < c.Term
      BY <1>2, <3>1, ToFollowerFields DEF Observe
    <3>2. CASE ~(rf[s].currentTerm < c.Term)
      BY <1>2, <2>5, <3>2 DEF Observe
    <3>. QED
      BY <3>1, <3>2
  <2>19. <<c.from, c.Term>> \in led /\ <<c.from, c.Term>> \in won /\ c.from # s /\ Led(c.Term)
    BY <1>2, <2>6 DEF Sent, CleanHistory, Led
  <2>. HIDE DEF g, out, n
  <2>20. h.role # "leader" /\ <<s, c.Term>> \notin won
    <3>1. <<s, c.Term>> \notin won
      BY <1>2, <2>19, OneWinner
    <3>2. ASSUME h.role = "leader" PROVE FALSE
      <4>1. rf[s].role = "leader" /\ rf[s].currentTerm = c.Term
        BY <1>4, <2>16, <2>18, <3>2 DEF KeepsRole
      <4>2. <<s, rf[s].currentTerm>> \in led
        BY <1>2, <4>1 DEF LeadInv, LeadsOwnTerm
      <4>. QED
        BY <3>1, <4>1, <4>2 DEF CleanHistory
    <3>. QED
      BY <3>1, <3>2
  <2>21. PICK V : V = [W EXCEPT ![s] = v]
    OBVIOUS
  <2>22. /\ V \in [Server -> Seq(LogEntry)] /\ V[s] = v
         /\ \A p \in Server : p # s => V[p] = W[p]
    BY <1>2, <2>7, <2>21
  <2>23. WholeLogs(V)'
    <3>1. ASSUME NEW p \in Server PROVE Whole(rf'[p], V[p])
      <4>1. CASE p = s
        BY <2>16, <2>17, <2>22, <4>1
      <4>2. CASE p # s
        BY <2>7, <2>17, <2>22, <4>2 DEF WholeLogs
      <4>. QED
        BY <4>1, <4>2
    <3>. QED
      BY <2>22, <3>1 DEF WholeLogs, Whole, Follows, Covers
  <2>24. h.commitIndex = rf[s].commitIndex \/ KnownChosen(A, v, h.commitIndex + 1, c.Term)
    <3>1. CASE rf[s].commitIndex < n
      <4>1. Begins(b, v) /\ Len(v) \in Nat
        BY <2>16, MergedHas
      <4>2. n + 1 <= Len(v) /\ SameUpTo(v, l[2], n + 1)
        <5>1. n + 1 <= Len(v)
          BY <2>5, <4>1 DEF Begins
        <5>2. \A i \in 1..(n + 1) : v[i] = b[i] /\ b[i] = l[2][i]
          BY <2>5, <4>1 DEF Begins
        <5>. QED
          BY <5>1, <5>2 DEF SameUpTo
      <4>3. PICK k \in Int, t \in Int : k = n + 1 /\ t = c.Term
        BY <1>2, <2>9
      <4>4. PICK a \in Seq(LogEntry) : a = l[2]
        BY <2>8
      <4>5. /\ KnownChosen(A, a, k, t) /\ A \subseteq A /\ k <= k /\ t <= t
            /\ k > 0 => k <= Len(v) /\ SameUpTo(v, a, k)
        BY <2>5, <4>2, <4>3, <4>4
      <4>6. KnownChosen(A, v, k, t)
        BY <4>5, KnownLater
      <4>. QED
        BY <2>16, <3>1, <4>3, <4>6
    <3>2. CASE ~(rf[s].commitIndex < n)
      BY <2>16, <3>2
    <3>. QED
      BY <3>1, <3>2
  <2>25. \E B : Chronicle(L, B, V)'
    <3>1. PICK q \in Server, ok \in BOOLEAN : q = s /\ ok = TRUE
      BY <1>2
    <3>2. /\ rf' = [rf EXCEPT ![q] = h] /\ disk' = [disk EXCEPT ![q] = Persistent(h)]
          /\ rf[q].currentTerm <= l[1] /\ h.currentTerm = l[1]
          /\ h.role # "leader" /\ (h.role = "candidate" => Led(l[1]))
          /\ (ok => Merged(W[q], b, V[q])) /\ (~ok => Refused(W[q], b, V[q]))
          /\ \A p \in Server : p # q => V[p] = W[p]
          /\ h.commitIndex = rf[q].commitIndex \/ KnownChosen(A, V[q], h.commitIndex + 1, l[1])
      BY <2>3, <2>5, <2>16, <2>18, <2>19, <2>20, <2>22, <2>24, <3>1
    <3>3. /\ \A d \in aeCalls' : \E e \in aeCalls : SameCall(d, e)
          /\ \A d \in aeCalls' : d.done /\ d.reply.Success =>
                 \E e \in aeCalls : Alike(d, e) /\ e.done /\ e.reply.Success
      BY <1>3 DEF CallsStay, SameCall
    <3>. HIDE DEF s
    <3>4. Took(A, W, V, q, h, l, b, ok)
      BY <1>3, <2>5, <3>2, <3>3 DEF Took
    <3>. QED
      BY <2>1, <2>17, <2>22, <2>23, <3>4, FollowerChronicle
  <2>26. NoLeftovers'
    <3>1. <<s, h.currentTerm>> \notin won'
      BY <1>3, <2>16, <2>18, <2>20
    <3>. HIDE DEF s
    <3>. QED
      BY <1>2, <1>3, <2>2, <2>16, <3>1, LeftoversKept
  <2>27. CallsAsk'
    <3>1. h.role = "candidate" =>
              rf[s].role = "candidate" /\ h.currentTerm = rf[s].currentTerm /\ Led(rf[s].currentTerm)
      BY <1>4, <2>16, <2>18, <2>19 DEF KeepsRole
    <3>. HIDE DEF s
    <3>. QED
      BY <1>2, <1>3, <2>2, <2>16, <3>1, AsksKept
  <2>28. AppliedIsCommitted(V)'
    <3>1. ASSUME NEW p \in Server PROVE Applied(service'[p], V[p], rf'[p].commitIndex + 1)
      <4>1. CASE p = s
        BY <2>16, <2>17, <2>22, <4>1
      <4>2. CASE p # s
        BY <2>1, <2>17, <2>22, <4>2 DEF AppliedIsCommitted
      <4>. QED
        BY <4>1, <4>2
    <3>. QED
      BY <3>1 DEF AppliedIsCommitted, Applied
  <2>29. (\E X, B, Y : Chronicle(X, B, Y) /\ AppliedIsCommitted(Y))'
    BY <2>25, <2>28
  <2>. QED
    BY <2>26, <2>27, <2>29 DEF CommitInv
<1>. QED
  BY <1>6, <1>7, <1>8, InstallOutcomes

-----------------------------------------------------------------------------
(* The invariant *)

\* No step makes a history clean again: in particular nobody wins the term
\* it already leads.
LEMMA CleanNeverReturns ==
    ASSUME RaftInv, LeadInv, Next, CleanHistory'
    PROVE  CleanHistory
<1>. DEFINE Grown == /\ granted \subseteq granted' /\ led \subseteq led'
                     /\ strayed \subseteq strayed' /\ overlaid \subseteq overlaid'
<1>2. Grown /\ (\A a \in led : a \in won' => a \in won) => CleanHistory
  BY Zenon DEF CleanHistory
<1>3. ASSUME NEW c \in rvCalls, RequestVoteResponseHandler(c)
      PROVE  Grown /\ \A a \in led : a \in won' => a \in won
  <2>. DEFINE s == c.from
              g == rf[s]
              h == AfterVoteReply(g, c, c.reply)
  <2>1. s \in Server /\ g \in RaftState
    BY PeerIn DEF RaftInv, CallInv, RequestVoteCall
  <2>2. /\ led' = led /\ strayed' = strayed /\ overlaid' = overlaid /\ granted' = granted
        /\ won' = won \cup (IF WinsWith(g, h) THEN {<<s, h.currentTerm>>} ELSE {})
    BY <1>3 DEF RequestVoteResponseHandler
  <2>3. WinsWith(g, h) => g.role = "candidate" /\ h.currentTerm = g.currentTerm
    <3>1. /\ ToFollower(g, c.reply.Term).voteCnt = g.voteCnt /\ ~(g.voteCnt > g.voteCnt)
          /\ [g EXCEPT !.voteCnt = @ + 1].currentTerm = g.currentTerm
      <4>. HIDE DEF g
      <4>. QED
        BY <2>1 DEF ToFollower, RaftState
    <3>2. \/ h \in {g, ToFollower(g, c.reply.Term)}
          \/ g.role = "candidate" /\ h = [g EXCEPT !.voteCnt = @ + 1]
      BY DEF AfterVoteReply, CountsReply
    <3>. HIDE DEF g, h
    <3>. QED
      BY <3>1, <3>2 DEF WinsWith
  <2>4. g.role = "candidate" => <<s, g.currentTerm>> \notin led
    BY <2>1 DEF LeadInv, LeadsOwnTerm
  <2>. HIDE DEF g, h, s
  <2>5. \A a \in led : a \in won' => a \in won
    BY <2>2, <2>3, <2>4
  <2>. QED
    BY <2>2, <2>5
<1>4. CASE Deliveries
  <2>1. ASSUME NEW c \in rvCalls, RequestVoteRequestHandler(c) PROVE Grown /\ won' = won
    BY <2>1 DEF RequestVoteRequestHandler
  <2>2. ASSUME NEW c \in aeCalls, AppendEntriesRequestHandler(c) PROVE Grown /\ won' = won
    BY <2>2 DEF AppendEntriesRequestHandler
  <2>3. ASSUME NEW c \in aeCalls, NEW r \in Returns(c, NoAnswer), AppendEntriesResponseHandler(c, r)
        PROVE  Grown /\ won' = won
    BY <2>3 DEF AppendEntriesResponseHandler, history
  <2>4. ASSUME NEW c \in isCalls, InstallSnapshotRequestHandler(c) PROVE Grown /\ won' = won
    BY <2>4 DEF InstallSnapshotRequestHandler, history
  <2>5. ASSUME NEW c \in isCalls, NEW r \in Returns(c, NoInstall), InstallSnapshotResponseHandler(c, r)
        PROVE  Grown /\ won' = won
    BY <2>5 DEF InstallSnapshotResponseHandler, history
  <2>. HIDE DEF Grown
  <2>. QED
    BY <1>2, <1>3, <1>4, <2>1, <2>2, <2>3, <2>4, <2>5 DEF Deliveries
<1>5. ASSUME NEW s \in Server, ServerStep(s) PROVE Grown /\ won' = won
  <2>1. CASE ToCandidate(s)
    BY <2>1 DEF ToCandidate
  <2>2. CASE ToLeader(s)
    BY <2>2 DEF ToLeader
  <2>3. CASE LeaderTickerCheck(s)
    BY <2>3 DEF LeaderTickerCheck, history
  <2>4. CASE LeaderUpdateCommitIndex(s)
    BY <2>4 DEF LeaderUpdateCommitIndex
  <2>5. CASE LeaderTickerSend(s) \/ StartSend(s)
    BY <2>5 DEF LeaderTickerSend, StartSend, LeaderSendAppendEntriesRPC
  <2>6. CASE \E command \in Command : Start(s, command)
    BY <2>6 DEF Start, history
  <2>7. CASE \E i \in 1..Len(service[s]) : Snapshot(s, i - 1)
    BY <2>7 DEF Snapshot, history
  <2>8. CASE Restart(s)
    BY <2>8 DEF Restart, history
  <2>. HIDE DEF Grown
  <2>. QED
    BY <1>5, <2>1, <2>2, <2>3, <2>4, <2>5, <2>6, <2>7, <2>8 DEF ServerStep
<1>. HIDE DEF Grown
<1>. QED
  BY <1>2, <1>4, <1>5 DEF Next

\* The first state: nobody has led, accepted or applied anything.
LEMMA InitCommit ==
    ASSUME Init
    PROVE  CommitInv
<1>1. /\ \A s \in Server :
             /\ rf[s].log = <<>> /\ rf[s].role = "follower" /\ rf[s].snapshotTerm = 0
             /\ rf[s].snapshotIndex = -1 /\ rf[s].commitIndex = -1 /\ service[s] = <<>>
      /\ rvCalls = {} /\ aeCalls = {} /\ isCalls = {} /\ led = {} /\ granted = {} /\ won = {}
  BY DEF Init, Booted, NewDisk
<1>2. Len(<<>>) = 0 /\ DOMAIN <<>> = {} /\ 1..0 = {} /\ <<>> \in Seq(LogEntry)
  BY EmptySeq
<1>3. PICK W : W = [s \in Server |-> <<>>]
  OBVIOUS
<1>4. W \in [Server -> Seq(LogEntry)] /\ \A s \in Server : W[s] = <<>>
  BY <1>2, <1>3
<1>5. /\ LeaderLogs({}) /\ LeadersHaveTheirs({}, W) /\ AcceptedFits({}, {}) /\ LaterLeadersHave({}, {})
      /\ VotesCarry({}, W) /\ MatchAccepted({}) /\ RepliesAccepted({}) /\ CallsFit({}, {})
      /\ SnapshotsFit({}, {})
  BY <1>1 DEF LeaderLogs, LeadersHaveTheirs, AcceptedFits, LaterLeadersHave, VotesCarry,
              MatchAccepted, RepliesAccepted, CallsFit, SnapshotsFit
<1>6. LogsRooted({}, W)
  BY <1>2, <1>4 DEF LogsRooted, Rooted
<1>7. AcceptedStays({}, W)
  BY DEF AcceptedStays, HasAccepted
<1>8. CommitsChosen({}, W)
  <2>1. ~(-1 + 1 > 0)
    OBVIOUS
  <2>. QED
    BY <1>1, <2>1 DEF CommitsChosen, KnownChosen
<1>9. WholeLogs(W)
  <2>1. ASSUME NEW s \in Server PROVE Whole(rf[s], <<>>)
    <3>1. -1 + 1 = 0 /\ 0 <= Len(<<>>) /\ Len(<<>>) = Len(<<>>) - 0 /\ -1 <= -1
      BY <1>2
    <3>2. Follows(<<>>, -1)
      BY <1>2 DEF Follows
    <3>3. Covers(rf[s].snapshot, -1, 0, <<>>)
      BY <1>2, <3>1 DEF Covers
    <3>. QED
      BY <1>1, <1>2, <2>1, <3>1, <3>2, <3>3 DEF Whole
  <2>. QED
    BY <1>4, <2>1 DEF WholeLogs
<1>10. Chronicle({}, {}, W)
  BY <1>5, <1>6, <1>7, <1>8, <1>9 DEF Chronicle
<1>11. NoLeftovers /\ CallsAsk
  BY <1>1 DEF NoLeftovers, CallsAsk
<1>12. AppliedIsCommitted(W)
  <2>1. Len(<<>>) <= -1 + 1
    BY <1>2
  <2>. QED
    BY <1>1, <1>2, <2>1 DEF AppliedIsCommitted, Applied
<1>. QED
  BY <1>10, <1>11, <1>12 DEF CommitInv

(***************************************************************************)
(* In every history without the known races there is a chronicle of what   *)
(* the leaders had, of what the servers accepted and of the logs they      *)
(* would have without snapshots, and what the services applied is          *)
(* committed in it.                                                        *)
(***************************************************************************)
THEOREM CommitInvariant == Spec => []CommitInv
<1>1. Init => CommitInv
  BY InitCommit
<1>2. ASSUME RaftInv, RaftInv', TallyInv, GaplessInv, GaplessInv', LeadInv, LeadInv',
             CleanElectionSafety', CommitInv, Next, CleanHistory'
      PROVE  CommitInv'
  <2>1. CleanHistory
    BY <1>2, CleanNeverReturns
  <2>2. CASE Deliveries
    <3>1. ASSUME NEW c \in rvCalls, RequestVoteRequestHandler(c) PROVE CommitInv'
      BY <1>2, <2>1, <3>1, VoteRequestKeepsCommit
    <3>2. ASSUME NEW c \in rvCalls, RequestVoteResponseHandler(c) PROVE CommitInv'
      BY <1>2, <2>1, <3>2, VoteReplyKeepsCommit
    <3>3. ASSUME NEW c \in aeCalls, AppendEntriesRequestHandler(c) PROVE CommitInv'
      BY <1>2, <2>1, <3>3, AppendRequestKeepsCommit
    <3>4. ASSUME NEW c \in aeCalls, NEW r \in Returns(c, NoAnswer), AppendEntriesResponseHandler(c, r)
          PROVE  CommitInv'
      BY <1>2, <2>1, <3>4, AppendReplyKeepsCommit
    <3>5. ASSUME NEW c \in isCalls, InstallSnapshotRequestHandler(c) PROVE CommitInv'
      BY <1>2, <2>1, <3>5, InstallRequestKeepsCommit
    <3>6. ASSUME NEW c \in isCalls, NEW r \in Returns(c, NoInstall), InstallSnapshotResponseHandler(c, r)
          PROVE  CommitInv'
      BY <1>2, <2>1, <3>6, InstallReplyKeepsCommit
    <3>. QED
      BY <2>2, <3>1, <3>2, <3>3, <3>4, <3>5, <3>6 DEF Deliveries
  <2>3. ASSUME NEW s \in Server, ServerStep(s) PROVE CommitInv'
    <3>1. CASE ToCandidate(s)
      BY <1>2, <2>1, <3>1, ToCandidateKeepsCommit
    <3>2. CASE ToLeader(s)
      BY <1>2, <2>1, <3>2, ToLeaderKeepsCommit
    <3>3. CASE LeaderTickerCheck(s)
      BY <1>2, <2>1, <3>3, TickerCheckKeepsCommit
    <3>4. CASE LeaderUpdateCommitIndex(s)
      BY <1>2, <2>1, <3>4, CommitCheckKeepsCommit
    <3>5. CASE LeaderTickerSend(s) \/ StartSend(s)
      BY <1>2, <2>1, <3>5, RoundsKeepCommit
    <3>6. ASSUME NEW command \in Command, Start(s, command) PROVE CommitInv'
      BY <1>2, <2>1, <3>6, StartKeepsCommit
    <3>7. CASE \E i \in 1..Len(service[s]) : Snapshot(s, i - 1)
      <4>1. PICK i \in 1..Len(service[s]) : Snapshot(s, i - 1)
        BY <3>7
      <4>2. service[s] \in Seq(Command)
        BY <1>2, PeerIn
      <4>3. i - 1 \in Nat
        BY <4>1, <4>2
      <4>. QED
        BY <1>2, <2>1, <4>1, <4>3, SnapshotKeepsCommit
    <3>8. CASE Restart(s)
      BY <1>2, <2>1, <3>8, RestartKeepsCommit
    <3>. QED
      BY <2>3, <3>1, <3>2, <3>3, <3>4, <3>5, <3>6, <3>7, <3>8 DEF ServerStep
  <2>. QED
    BY <1>2, <2>2, <2>3 DEF Next
<1>3. ASSUME RaftInv, RaftInv', CommitInv, UNCHANGED vars PROVE CommitInv'
  <2>1. UNCHANGED <<rf, disk, service, goroutines, rvCalls, aeCalls, isCalls, granted, won, led,
                    strayed, overlaid>>
    BY <1>3 DEF vars, node, calls, history
  <2>. SUFFICES ASSUME CleanHistory' PROVE CommitInv'
    BY DEF CommitInv
  <2>2. CleanHistory
    BY <2>1 DEF CleanHistory
  <2>3. NoLeftovers' /\ CallsAsk'
    BY <1>3, <2>1, <2>2 DEF CommitInv, NoLeftovers, CallsAsk, LastIndex, LastTerm, Led
  <2>4. PICK L, A, W : Chronicle(L, A, W) /\ AppliedIsCommitted(W)
    BY <1>3, <2>2 DEF CommitInv
  <2>5. /\ TermsGrow /\ LogsStay /\ VotesStay /\ MatchesStay /\ CommitsStay /\ CallsStay
        /\ InstallsStay
    <3>1. \A p \in Server : disk[p].currentTerm \in Nat /\ rf[p].commitIndex \in Int
      BY <1>3, PeerIn
    <3>. QED
      BY <2>1, <3>1 DEF TermsGrow, LogsStay, VotesStay, MatchesStay, CommitsStay, CallsStay,
                        InstallsStay, SameCall, SameInstall, Alike, LogKept
  <2>6. Chronicle(L, A, W)'
    BY <1>3, <2>1, <2>4, <2>5, QuietChronicle
  <2>7. AppliedIsCommitted(W)'
    BY <2>1, <2>4 DEF AppliedIsCommitted
  <2>8. (\E X, B, Y : Chronicle(X, B, Y) /\ AppliedIsCommitted(Y))'
    BY <2>6, <2>7
  <2>. QED
    BY <2>3, <2>8 DEF CommitInv
<1>4. ASSUME RaftInv, RaftInv', TallyInv, GaplessInv, GaplessInv', LeadInv, LeadInv',
             CleanElectionSafety', CommitInv, [Next]_vars
      PROVE  CommitInv'
  <2>1. CASE Next /\ CleanHistory'
    BY <1>2, <1>4, <2>1
  <2>2. CASE ~CleanHistory'
    BY <2>2 DEF CommitInv
  <2>. QED
    BY <1>3, <1>4, <2>1, <2>2
<1>5. /\ RaftInv /\ TallyInv /\ GaplessInv /\ LeadInv /\ CommitInv /\ [Next]_vars
      /\ RaftInv' /\ GaplessInv' /\ LeadInv' /\ CleanElectionSafety'
      => CommitInv'
  BY <1>4
<1>. QED
  BY <1>1, <1>5, RaftInvariant, TallyInvariant, GaplessInvariant, LeadInvariant,
     OneLeaderInCleanHistories, PTL DEF Spec

(***************************************************************************)
(* What is behind an applied command: a log x that a majority has accepted *)
(* and that has the command at its index.                                  *)
(***************************************************************************)
LEMMA AppliedIsChosen ==
    ASSUME RaftInv, NEW A, NEW W, AppliedIsCommitted(W), CommitsChosen(A, W),
           NEW s \in Server, NEW i \in DOMAIN service[s]
    PROVE  \E x \in Filled : /\ Chosen(A, x) /\ i \in 1..Len(x) /\ service[s][i] = x[i].Command
                             /\ TermOf(x) <= disk[s].currentTerm
<1>. DEFINE k == rf[s].commitIndex + 1
<1>1. /\ service[s] \in Seq(Command) /\ Len(service[s]) \in Nat /\ i \in 1..Len(service[s])
      /\ rf[s].commitIndex \in Int
  BY PeerIn DEF RaftInv, NodeInv
<1>2. Len(service[s]) <= k /\ i <= Len(W[s]) /\ service[s][i] = W[s][i].Command
  BY <1>1 DEF AppliedIsCommitted, Applied
<1>3. i \in 1..k /\ k > 0 /\ k \in Nat
  BY <1>1, <1>2
<1>4. KnownChosen(A, W[s], k, disk[s].currentTerm)
  BY DEF CommitsChosen
<1>. HIDE DEF k
<1>5. PICK x \in Filled : /\ Chosen(A, x) /\ TermOf(x) <= disk[s].currentTerm
                          /\ k <= Len(x) /\ k <= Len(W[s]) /\ SameUpTo(W[s], x, k)
  BY <1>3, <1>4 DEF KnownChosen
<1>6. W[s][i] = x[i] /\ Len(x) \in Nat
  BY <1>3, <1>5, FilledIn DEF SameUpTo
<1>7. i \in 1..Len(x)
  BY <1>3, <1>5, <1>6
<1>. QED
  BY <1>2, <1>5, <1>6, <1>7

\* A peer whose whole log begins with x holds what x has, in its snapshot or
\* in its log.
LEMMA BeginningHolds ==
    ASSUME NEW g, g.log \in Seq(LogEntry), g.snapshot \in Seq(Command), g.snapshotIndex \in Int,
           g.snapshotIndex >= -1, Len(g.snapshot) = g.snapshotIndex + 1,
           NEW w \in Seq(LogEntry), Whole(g, w), NEW x \in Filled, Begins(x, w), NEW i \in 1..Len(x)
    PROVE  Holds(g, i, x[i].Command)
<1>1. Len(x) \in Nat /\ Len(w) \in Nat /\ DOMAIN w = 1..Len(w)
  BY FilledIn
<1>2. i \in DOMAIN w /\ x[i] = w[i] /\ i \in Nat
  BY <1>1 DEF Begins
<1>3. w[i].Index = i - 1
  BY <1>2 DEF Whole, Follows
<1>4. PICK n \in Int, y \in Nat : n = g.snapshotIndex /\ y = Len(g.log)
  OBVIOUS
<1>5. y = Len(w) - (n + 1) /\ DOMAIN g.log = 1..y /\ DOMAIN g.snapshot = 1..(n + 1)
  BY <1>4 DEF Whole
<1>6. CASE i <= n + 1
  <2>1. i \in DOMAIN g.snapshot
    BY <1>1, <1>2, <1>5, <1>6
  <2>2. \A j \in 1..(n + 1) : g.snapshot[j] = w[j].Command
    BY <1>4 DEF Whole, Covers
  <2>3. g.snapshot[i] = w[i].Command
    BY <1>1, <1>2, <1>4, <1>6, <2>2
  <2>. QED
    BY <1>2, <2>1, <2>3 DEF Holds
<1>7. CASE ~(i <= n + 1)
  <2>0. i \in Nat /\ i <= n + 1 + y /\ ~(i <= n + 1)
    BY <1>1, <1>2, <1>5, <1>7
  <2>1. i - (n + 1) \in 1..y /\ n + 1 + (i - (n + 1)) = i
    BY <2>0
  <2>2. \A j \in 1..y : g.log[j] = w[n + 1 + j]
    BY <1>4 DEF Whole
  <2>3. g.log[i - (n + 1)] = w[i]
    BY <2>1, <2>2
  <2>. QED
    BY <1>2, <1>3, <1>5, <2>1, <2>3 DEF Holds
<1>. QED
  BY <1>1, <1>2, <1>4, <1>6, <1>7

\* A set of servers that includes a majority is one.
LEMMA MoreIsQuorum ==
    ASSUME NEW Q, NEW R \in SUBSET Server, Q \subseteq R, IsQuorum(Cardinality(Q))
    PROVE  IsQuorum(Cardinality(R))
<1>1. IsFiniteSet(Server)
  BY ServerAssumption
<1>2. IsFiniteSet(R) /\ IsFiniteSet(Q)
  BY <1>1, FS_Subset
<1>3. /\ Cardinality(Q) <= Cardinality(R)
      /\ Cardinality(Q) \in Nat /\ Cardinality(R) \in Nat /\ Cardinality(Server) \in Nat
  BY <1>1, <1>2, FS_Subset, FS_CardinalityType
<1>. QED
  BY <1>3 DEF IsQuorum

\* Two chosen logs have the same entry wherever both have one.
LEMMA ChosenAgree ==
    ASSUME NEW L, NEW A, LeaderLogs(L), AcceptedFits(L, A), LaterLeadersHave(L, A),
           NEW x \in Filled, NEW y \in Filled, Chosen(A, x), Chosen(A, y), TermOf(x) <= TermOf(y),
           NEW i \in 1..Len(x), i \in 1..Len(y)
    PROVE  x[i] = y[i]
<1>1. PICK p \in Server : HasAccepted(A, p, x) /\ Choosable(A, x)
  BY ChosenChoosable
<1>2. PICK q \in Server : HasAccepted(A, q, y)
  BY ChosenChoosable
<1>3. PICK l \in L : l[1] = TermOf(y) /\ l[2] \in Seq(LogEntry) /\ Begins(y, l[2])
  BY <1>2, AcceptedRoot
<1>4. Comparable(x, l[2])
  BY <1>1, <1>3, ChoosableAgrees
<1>5. Len(x) \in Nat /\ Len(y) \in Nat
  BY FilledIn
<1>6. i \in 1..Len(l[2]) /\ y[i] = l[2][i]
  BY <1>3, <1>5 DEF Begins
<1>. QED
  BY <1>4, <1>5, <1>6 DEF Comparable, Begins

\* What Holds asks of a peer.
LEMMA PeerHolds ==
    ASSUME RaftInv, NEW p \in Server, NEW w \in Seq(LogEntry), Whole(rf[p], w),
           NEW x \in Filled, Begins(x, w), NEW i \in 1..Len(x)
    PROVE  Holds(rf[p], i, x[i].Command)
<1>1. rf[p] \in RaftState
  BY PeerIn
<1>2. \A g \in RaftState : /\ g.log \in Seq(LogEntry) /\ g.snapshot \in Seq(Command)
                           /\ g.snapshotIndex \in Int /\ g.snapshotIndex >= -1
  BY DEF RaftState, LogIndex
<1>3. Len(rf[p].snapshot) = rf[p].snapshotIndex + 1
  BY RaftInvImplies DEF SnapshotCoversIndex
<1>4. PICK g \in RaftState : g = rf[p]
  BY <1>1
<1>5. Holds(g, i, x[i].Command)
  BY <1>2, <1>3, <1>4, BeginningHolds
<1>. QED
  BY <1>4, <1>5

\* The disk holds what the peer holds.
LEMMA DiskHolds ==
    ASSUME RaftInv, NEW p \in Server, NEW i, NEW cmd, Holds(rf[p], i, cmd)
    PROVE  Holds(disk[p], i, cmd)
<1>1. disk[p].log = rf[p].log /\ disk[p].snapshot = rf[p].snapshot
  BY RaftInvImplies DEF DurableState, Durable
<1>. QED
  BY <1>1 DEF Holds

(***************************************************************************)
(* Leader completeness: the newest leader holds everything any service has *)
(* applied, in its log or in its snapshot, in every history without the    *)
(* known races.                                                            *)
(***************************************************************************)
THEOREM LeadersAreComplete == Spec => []CleanLeaderCompleteness
<1>1. ASSUME RaftInv, CommitInv, CleanHistory,
             NEW s \in Server, rf[s].role = "leader", \A a \in led : a[2] <= rf[s].currentTerm,
             NEW t \in Server, NEW i \in DOMAIN service[t]
      PROVE  Holds(rf[s], i, service[t][i])
  <2>1. PICK L, A, W : Chronicle(L, A, W) /\ AppliedIsCommitted(W)
    BY <1>1 DEF CommitInv
  <2>2. /\ LeaderLogs(L) /\ LeadersHaveTheirs(L, W) /\ AcceptedFits(L, A) /\ LaterLeadersHave(L, A)
        /\ CommitsChosen(A, W) /\ WholeLogs(W)
    BY <2>1 DEF Chronicle
  <2>3. PICK x \in Filled : Chosen(A, x) /\ i \in 1..Len(x) /\ service[t][i] = x[i].Command
    BY <1>1, <2>1, <2>2, AppliedIsChosen
  <2>4. PICK p \in Server : HasAccepted(A, p, x) /\ Choosable(A, x)
    BY <2>3, ChosenChoosable
  <2>5. PICK l \in L : l[1] = TermOf(x) /\ l[2] \in Seq(LogEntry) /\ Begins(x, l[2])
    BY <2>2, <2>4, AcceptedRoot
  <2>6. TermOf(x) <= rf[s].currentTerm
    <3>1. PICK q \in Server : <<q, l[1]>> \in led
      BY <2>2 DEF LeaderLogs
    <3>2. <<q, l[1]>>[2] = l[1]
      OBVIOUS
    <3>. QED
      BY <1>1, <2>5, <3>1, <3>2
  <2>7. /\ W[s] \in Seq(LogEntry) /\ rf[s].currentTerm \in Nat /\ Whole(rf[s], W[s])
        /\ TermOf(x) \in Nat /\ x \in Seq(LogEntry)
    BY <1>1, <2>2, PeerIn, FilledIn DEF WholeLogs
  <2>8. /\ <<rf[s].currentTerm, W[s]>> \in L
        /\ \A m \in L : m[1] = rf[s].currentTerm => Begins(m[2], W[s])
    BY <1>1, <2>2 DEF LeadersHaveTheirs
  <2>9. Begins(x, W[s])
    <3>1. CASE TermOf(x) < rf[s].currentTerm
      <4>1. /\ <<rf[s].currentTerm, W[s]>>[1] = rf[s].currentTerm
            /\ <<rf[s].currentTerm, W[s]>>[2] = W[s]
        OBVIOUS
      <4>. QED
        BY <2>2, <2>4, <2>8, <3>1, <4>1 DEF LaterLeadersHave
    <3>2. CASE TermOf(x) = rf[s].currentTerm
      <4>1. Begins(l[2], W[s])
        BY <2>5, <2>8, <3>2
      <4>. QED
        BY <2>5, <2>7, <4>1, BeginsTrans
    <3>. QED
      BY <2>6, <2>7, <3>1, <3>2
  <2>10. Holds(rf[s], i, x[i].Command)
    BY <1>1, <2>3, <2>7, <2>9, PeerHolds
  <2>. QED
    BY <2>3, <2>10
<1>2. RaftInv /\ CommitInv => CleanLeaderCompleteness
  BY <1>1 DEF CleanLeaderCompleteness, LeaderCompleteness, IsLeader
<1>. QED
  BY <1>2, RaftInvariant, CommitInvariant, PTL

(***************************************************************************)
(* Durability: what any service has applied is on the disks of a majority, *)
(* in the log or in the snapshot, in every history without the known       *)
(* races.                                                                  *)
(***************************************************************************)
THEOREM AppliedIsOnMajorityOfDisks == Spec => []CleanCommittedDurable
<1>1. ASSUME RaftInv, CommitInv, CleanHistory, NEW s \in Server, NEW i \in DOMAIN service[s]
      PROVE  IsQuorum(Cardinality({t \in Server : Holds(disk[t], i, service[s][i])}))
  <2>1. PICK L, A, W : Chronicle(L, A, W) /\ AppliedIsCommitted(W)
    BY <1>1 DEF CommitInv
  <2>2. AcceptedStays(A, W) /\ CommitsChosen(A, W) /\ WholeLogs(W)
    BY <2>1 DEF Chronicle
  <2>3. PICK x \in Filled : Chosen(A, x) /\ i \in 1..Len(x) /\ service[s][i] = x[i].Command
    BY <1>1, <2>1, <2>2, AppliedIsChosen
  <2>4. PICK Q \in SUBSET Server : IsQuorum(Cardinality(Q)) /\ \A p \in Q : HasAccepted(A, p, x)
    BY <2>3 DEF Chosen
  <2>5. Choosable(A, x)
    BY <2>3, ChosenChoosable
  <2>6. ASSUME NEW p \in Q PROVE Holds(disk[p], i, x[i].Command)
    <3>1. p \in Server /\ Begins(x, W[p])
      BY <2>2, <2>4, <2>5, <2>6 DEF AcceptedStays
    <3>2. W[p] \in Seq(LogEntry) /\ Whole(rf[p], W[p])
      BY <2>2, <3>1 DEF WholeLogs
    <3>3. Holds(rf[p], i, x[i].Command)
      BY <1>1, <2>3, <3>1, <3>2, PeerHolds
    <3>. QED
      BY <1>1, <3>1, <3>3, DiskHolds
  <2>. DEFINE R == {t \in Server : Holds(disk[t], i, service[s][i])}
  <2>7. Q \subseteq R /\ R \subseteq Server
    BY <2>3, <2>4, <2>6
  <2>. HIDE DEF R
  <2>8. IsQuorum(Cardinality(R))
    BY <2>4, <2>7, MoreIsQuorum
  <2>. QED
    BY <2>8 DEF R
<1>2. RaftInv /\ CommitInv => CleanCommittedDurable
  BY <1>1 DEF CleanCommittedDurable, CommittedDurable
<1>. QED
  BY <1>2, RaftInvariant, CommitInvariant, PTL

\* Two services do not disagree where both have a command.
LEMMA AppliedAgree ==
    ASSUME RaftInv, CommitInv, CleanHistory
    PROVE  StateMachineSafety
<1>1. ASSUME NEW s \in Server, NEW t \in Server,
             NEW i \in 1..Smaller(Len(service[s]), Len(service[t]))
      PROVE  service[s][i] = service[t][i]
  <2>1. PICK L, A, W : Chronicle(L, A, W) /\ AppliedIsCommitted(W)
    BY DEF CommitInv
  <2>2. LeaderLogs(L) /\ AcceptedFits(L, A) /\ LaterLeadersHave(L, A) /\ CommitsChosen(A, W)
    BY <2>1 DEF Chronicle
  <2>3. i \in DOMAIN service[s] /\ i \in DOMAIN service[t]
    <3>1. service[s] \in Seq(Command) /\ service[t] \in Seq(Command)
      BY DEF RaftInv, NodeInv
    <3>. QED
      BY <3>1 DEF Smaller
  <2>4. PICK x \in Filled : Chosen(A, x) /\ i \in 1..Len(x) /\ service[s][i] = x[i].Command
    BY <2>1, <2>2, <2>3, AppliedIsChosen
  <2>5. PICK y \in Filled : Chosen(A, y) /\ i \in 1..Len(y) /\ service[t][i] = y[i].Command
    BY <2>1, <2>2, <2>3, AppliedIsChosen
  <2>6. x[i] = y[i]
    <3>1. TermOf(x) \in Nat /\ TermOf(y) \in Nat
      BY FilledIn
    <3>2. CASE TermOf(x) <= TermOf(y)
      BY <2>2, <2>4, <2>5, <3>2, ChosenAgree
    <3>3. CASE TermOf(y) <= TermOf(x)
      BY <2>2, <2>4, <2>5, <3>3, ChosenAgree
    <3>. QED
      BY <3>1, <3>2, <3>3
  <2>. QED
    BY <2>4, <2>5, <2>6
<1>. QED
  BY <1>1 DEF StateMachineSafety

(***************************************************************************)
(* State machine safety: two services never disagree on the command at an  *)
(* index, in every history without the known races.                        *)
(***************************************************************************)
THEOREM ServicesAgree == Spec => [](CleanHistory => StateMachineSafety)
<1>1. RaftInv /\ CommitInv => (CleanHistory => StateMachineSafety)
  BY AppliedAgree
<1>. QED
  BY <1>1, RaftInvariant, CommitInvariant, PTL

\* An entry of a peer's log is in the whole log, where its index says.
LEMMA TailAt ==
    ASSUME NEW g \in RaftState, NEW w \in Seq(LogEntry), Whole(g, w), NEW x \in DOMAIN g.log
    PROVE  /\ g.log[x].Index + 1 \in DOMAIN w /\ g.log[x].Index \in Nat
           /\ g.log[x] = w[g.log[x].Index + 1]
           /\ g.log[x].Index = g.snapshotIndex + x /\ x \in Nat
<1>0. /\ g.log \in Seq(LogEntry) /\ Len(g.log) \in Nat /\ Len(w) \in Nat
      /\ g.snapshotIndex \in Int /\ g.snapshotIndex >= -1
      /\ Len(w) = g.snapshotIndex + 1 + Len(g.log)
      /\ \A i \in 1..Len(g.log) : g.log[i] = w[g.snapshotIndex + 1 + i]
      /\ Follows(g.log, g.snapshotIndex)
  BY WholeTail
<1>1. PICK n \in Int, y \in Nat, z \in Nat : n = g.snapshotIndex /\ y = Len(g.log) /\ z = Len(w)
  BY <1>0
<1>2. /\ n >= -1 /\ z = n + 1 + y /\ Follows(g.log, n) /\ DOMAIN w = 1..z /\ x \in 1..y
      /\ g.log \in Seq(LogEntry) /\ \A i \in 1..y : g.log[i] = w[n + 1 + i]
  BY <1>0, <1>1
<1>3. g.log[x].Index = n + x /\ g.log[x] = w[n + 1 + x]
  BY <1>2 DEF Follows
<1>4. x \in Nat /\ x >= 1 /\ x <= y
  BY <1>2
<1>5. n + x \in Nat /\ (n + x) + 1 \in 1..z /\ n + 1 + x = (n + x) + 1
  <2>1. n >= -1 /\ z = n + 1 + y
    BY <1>2
  <2>. QED
    BY <1>4, <2>1
<1>. QED
  BY <1>1, <1>2, <1>3, <1>4, <1>5

\* And what is after the snapshot in the whole log is in the log.
LEMMA TailHas ==
    ASSUME NEW g \in RaftState, NEW w \in Seq(LogEntry), Whole(g, w), NEW k \in DOMAIN w,
           g.snapshotIndex + 1 < k
    PROVE  \E y \in DOMAIN g.log : g.log[y] = w[k]
<1>0. /\ g.log \in Seq(LogEntry) /\ Len(g.log) \in Nat /\ Len(w) \in Nat
      /\ g.snapshotIndex \in Int /\ g.snapshotIndex >= -1
      /\ Len(w) = g.snapshotIndex + 1 + Len(g.log)
      /\ \A i \in 1..Len(g.log) : g.log[i] = w[g.snapshotIndex + 1 + i]
      /\ Follows(g.log, g.snapshotIndex)
  BY WholeTail
<1>1. PICK n \in Int, y \in Nat, z \in Nat : n = g.snapshotIndex /\ y = Len(g.log) /\ z = Len(w)
  BY <1>0
<1>2. /\ n >= -1 /\ z = n + 1 + y /\ DOMAIN w = 1..z /\ k \in 1..z /\ n + 1 < k
      /\ g.log \in Seq(LogEntry) /\ \A i \in 1..y : g.log[i] = w[n + 1 + i]
  BY <1>0, <1>1
<1>3. k - (n + 1) \in 1..y /\ n + 1 + (k - (n + 1)) = k
  <2>1. k \in Nat /\ k <= z /\ n + 1 < k /\ z = n + 1 + y
    BY <1>2
  <2>2. k - (n + 1) \in Int /\ k - (n + 1) >= 1 /\ k - (n + 1) <= y
    BY <2>1
  <2>. QED
    BY <2>1, <2>2
<1>4. PICK j \in 1..y : n + 1 + j = k
  BY <1>3
<1>5. g.log[j] = w[n + 1 + j] /\ j \in DOMAIN g.log
  BY <1>1, <1>2
<1>. QED
  BY <1>4, <1>5

\* Logs that match match in what they show of each other.
LEMMA MatchingTails ==
    ASSUME NEW g \in RaftState, NEW w \in Seq(LogEntry), Whole(g, w),
           NEW h \in RaftState, NEW v \in Seq(LogEntry), Whole(h, v), Matching(w, v),
           NEW x \in DOMAIN g.log, NEW y \in DOMAIN h.log,
           g.log[x].Index = h.log[y].Index, g.log[x].Term = h.log[y].Term
    PROVE  AgreeUpTo(g.log, h.log, g.log[x].Index)
<1>. DEFINE n == g.log[x].Index + 1
<1>1. n \in DOMAIN w /\ n \in DOMAIN v /\ w[n].Term = v[n].Term /\ g.log[x].Index \in Nat
  BY TailAt
<1>2. \A i \in 1..n : w[i] = v[i]
  BY <1>1 DEF Matching
<1>3. ASSUME NEW a \in DOMAIN g.log, NEW b \in DOMAIN h.log, g.log[a].Index = h.log[b].Index,
             g.log[a].Index <= g.log[x].Index
      PROVE  g.log[a] = h.log[b]
  <2>1. /\ g.log[a] = w[g.log[a].Index + 1] /\ g.log[a].Index \in Nat
        /\ h.log[b] = v[h.log[b].Index + 1]
    BY TailAt
  <2>2. g.log[a].Index + 1 \in 1..n
    BY <1>1, <1>3, <2>1
  <2>. QED
    BY <1>2, <1>3, <2>1, <2>2
<1>. QED
  BY <1>3 DEF AgreeUpTo

(***************************************************************************)
(* Log matching: the logs of two peers that share an entry agree on it and *)
(* on everything before it that both still hold, in every history without  *)
(* the known races, with snapshots or without.                             *)
(***************************************************************************)
THEOREM LogsMatch == Spec => []CleanLogMatching
<1>1. ASSUME RaftInv, CommitInv, CleanHistory, NEW s \in Server, NEW t \in Server,
             NEW x \in DOMAIN rf[s].log, NEW y \in DOMAIN rf[t].log,
             rf[s].log[x].Index = rf[t].log[y].Index, rf[s].log[x].Term = rf[t].log[y].Term
      PROVE  AgreeUpTo(rf[s].log, rf[t].log, rf[s].log[x].Index)
  <2>1. PICK L, A, W : Chronicle(L, A, W)
    BY <1>1 DEF CommitInv
  <2>2. /\ W \in [Server -> Seq(LogEntry)] /\ Whole(rf[s], W[s]) /\ Whole(rf[t], W[t])
        /\ LeaderLogs(L) /\ Rooted(L, W[s]) /\ Rooted(L, W[t])
    BY <2>1 DEF Chronicle, WholeLogs, LogsRooted
  <2>3. Matching(W[s], W[t])
    BY <2>2, RootedMatch
  <2>4. PICK g \in RaftState, h \in RaftState : g = rf[s] /\ h = rf[t]
    BY <1>1, PeerIn
  <2>5. PICK w \in Seq(LogEntry), v \in Seq(LogEntry) : w = W[s] /\ v = W[t]
    BY <2>2
  <2>6. Whole(g, w) /\ Whole(h, v) /\ Matching(w, v)
    BY <2>2, <2>3, <2>4, <2>5
  <2>7. AgreeUpTo(g.log, h.log, g.log[x].Index)
    BY <1>1, <2>4, <2>6, MatchingTails
  <2>. QED
    BY <2>4, <2>7
<1>2. RaftInv /\ CommitInv => CleanLogMatching
  BY <1>1 DEF CleanLogMatching, LogMatching
<1>. QED
  BY <1>2, RaftInvariant, CommitInvariant, PTL

\* A peer holds every command of its whole log.
LEMMA WholeHolds ==
    ASSUME NEW h \in RaftState, NEW v \in Seq(LogEntry), Whole(h, v), NEW k \in DOMAIN v,
           Len(h.snapshot) = h.snapshotIndex + 1
    PROVE  Holds(h, k, v[k].Command)
<1>1. v \in Filled /\ k \in 1..Len(v) /\ Begins(v, v)
  BY BeginsSelf, EmptySeq DEF Filled
<1>2. h.log \in Seq(LogEntry) /\ h.snapshot \in Seq(Command) /\ h.snapshotIndex \in Int /\ h.snapshotIndex >= -1
  <2>1. h.snapshot \in Seq(Command)
    BY DEF RaftState
  <2>. QED
    BY <2>1, WholeTail
<1>. QED
  BY <1>1, <1>2, BeginningHolds

\* And nothing else.
LEMMA HeldIsWhole ==
    ASSUME NEW g \in RaftState, NEW w \in Seq(LogEntry), Whole(g, w), NEW k \in DOMAIN w,
           Len(g.snapshot) = g.snapshotIndex + 1, NEW cmd, Holds(g, k, cmd)
    PROVE  cmd = w[k].Command
<1>1. g.snapshot \in Seq(Command) /\ DOMAIN g.snapshot = 1..(g.snapshotIndex + 1)
  BY DEF RaftState
<1>2. CASE k \in DOMAIN g.snapshot /\ g.snapshot[k] = cmd
  BY <1>1, <1>2 DEF Whole, Covers
<1>3. ASSUME NEW x \in DOMAIN g.log, g.log[x].Index = k - 1, g.log[x].Command = cmd
      PROVE  cmd = w[k].Command
  <2>1. g.log[x] = w[g.log[x].Index + 1] /\ k \in Nat
    BY TailAt
  <2>2. (k - 1) + 1 = k
    BY <2>1
  <2>. QED
    BY <1>3, <2>1, <2>2
<1>. QED
  BY <1>2, <1>3 DEF Holds

\* Two peers have the same entry where both have committed one.
LEMMA CommittedSame ==
    ASSUME RaftInv, NEW L, NEW A, NEW W, Chronicle(L, A, W), NEW s \in Server, NEW t \in Server,
           NEW i \in Nat, i >= 1, i <= rf[s].commitIndex + 1, i <= rf[t].commitIndex + 1
    PROVE  W[s][i] = W[t][i]
<1>1. LeaderLogs(L) /\ AcceptedFits(L, A) /\ LaterLeadersHave(L, A) /\ CommitsChosen(A, W)
  BY DEF Chronicle
<1>2. ASSUME NEW p \in Server, i <= rf[p].commitIndex + 1
      PROVE  \E x \in Filled : Chosen(A, x) /\ i \in 1..Len(x) /\ W[p][i] = x[i]
  <2>1. rf[p].commitIndex \in Int
    BY PeerIn
  <2>2. PICK k \in Int : k = rf[p].commitIndex + 1
    BY <2>1
  <2>3. KnownChosen(A, W[p], k, disk[p].currentTerm) /\ i <= k
    BY <1>1, <1>2, <2>2 DEF CommitsChosen
  <2>4. k > 0
    BY <2>2, <2>3
  <2>5. PICK x \in Filled : Chosen(A, x) /\ k <= Len(x) /\ SameUpTo(W[p], x, k)
    BY <2>3, <2>4 DEF KnownChosen
  <2>6. Len(x) \in Nat
    BY FilledIn
  <2>7. i \in 1..k /\ i \in 1..Len(x)
    BY <2>3, <2>5, <2>6
  <2>. QED
    BY <2>5, <2>7 DEF SameUpTo
<1>3. PICK x \in Filled : Chosen(A, x) /\ i \in 1..Len(x) /\ W[s][i] = x[i]
  BY <1>2
<1>4. PICK y \in Filled : Chosen(A, y) /\ i \in 1..Len(y) /\ W[t][i] = y[i]
  BY <1>2
<1>5. TermOf(x) \in Nat /\ TermOf(y) \in Nat
  BY FilledIn
<1>6. CASE TermOf(x) <= TermOf(y)
  BY <1>1, <1>3, <1>4, <1>6, ChosenAgree
<1>7. CASE TermOf(y) <= TermOf(x)
  BY <1>1, <1>3, <1>4, <1>7, ChosenAgree
<1>. QED
  BY <1>5, <1>6, <1>7

(***************************************************************************)
(* What is committed is one sequence of commands: up to its commitIndex    *)
(* every peer has a command at every index, in its snapshot or its log,    *)
(* and no two peers have different ones, in every history without the      *)
(* known races.  It speaks of the peers alone, so it does not rest on when *)
(* their goroutines hand over what is committed.                           *)
(***************************************************************************)
THEOREM CommittedIsAgreed == Spec => []CleanCommitsAgree
<1>1. ASSUME RaftInv, CommitInv, CleanHistory, NEW s \in Server, NEW i \in 1..(rf[s].commitIndex + 1)
      PROVE  /\ \E c \in Command : Holds(rf[s], i, c)
             /\ \A t \in Server : i <= rf[t].commitIndex + 1 =>
                  \A b, c \in Command : Holds(rf[s], i, b) /\ Holds(rf[t], i, c) => b = c
  <2>1. PICK L, A, W : Chronicle(L, A, W)
    BY <1>1 DEF CommitInv
  <2>2. \A p \in Server : /\ rf[p] \in RaftState /\ rf[p].commitIndex \in Int
                          /\ Len(rf[p].snapshot) = rf[p].snapshotIndex + 1
    BY <1>1, PeerIn, RaftInvImplies DEF SnapshotCoversIndex
  <2>3. i \in Nat /\ i >= 1 /\ i <= rf[s].commitIndex + 1
    BY <1>1, <2>2
  <2>4. ASSUME NEW p \in Server, i <= rf[p].commitIndex + 1
        PROVE  W[p] \in Seq(LogEntry) /\ Whole(rf[p], W[p]) /\ i \in DOMAIN W[p]
    <3>1. /\ rf[p].commitIndex + 1 <= Len(W[p]) /\ W[p] \in Seq(LogEntry) /\ Len(W[p]) \in Nat
          /\ Whole(rf[p], W[p])
      BY <1>1, <2>1, CommitsWithin
    <3>. QED
      BY <2>2, <2>3, <2>4, <3>1
  <2>5. \E c \in Command : Holds(rf[s], i, c)
    <3>1. W[s] \in Seq(LogEntry) /\ Whole(rf[s], W[s]) /\ i \in DOMAIN W[s]
      BY <2>3, <2>4
    <3>2. Holds(rf[s], i, W[s][i].Command)
      BY <2>2, <3>1, WholeHolds
    <3>3. W[s][i] \in LogEntry
      BY <3>1, ElementOfSeq
    <3>. QED
      BY <3>2, <3>3 DEF LogEntry
  <2>6. ASSUME NEW t \in Server, i <= rf[t].commitIndex + 1, NEW b \in Command, NEW c \in Command,
               Holds(rf[s], i, b), Holds(rf[t], i, c)
        PROVE  b = c
    <3>1. /\ W[s] \in Seq(LogEntry) /\ Whole(rf[s], W[s]) /\ i \in DOMAIN W[s]
          /\ W[t] \in Seq(LogEntry) /\ Whole(rf[t], W[t]) /\ i \in DOMAIN W[t]
      BY <2>3, <2>4, <2>6
    <3>2. b = W[s][i].Command /\ c = W[t][i].Command
      BY <2>2, <2>6, <3>1, HeldIsWhole
    <3>3. W[s][i] = W[t][i]
      BY <1>1, <2>1, <2>3, <2>6, CommittedSame
    <3>. QED
      BY <3>2, <3>3
  <2>. QED
    BY <2>5, <2>6
<1>2. RaftInv /\ CommitInv => CleanCommitsAgree
  BY <1>1 DEF CleanCommitsAgree, CommitsAgree
<1>. QED
  BY <1>2, RaftInvariant, CommitInvariant, PTL

-----------------------------------------------------------------------------
(* What a step does to what is committed and applied *)

\* Nothing that is committed or applied at p changes.
Still(p) ==
    /\ LogKept(rf[p], rf'[p]) /\ rf'[p].commitIndex = rf[p].commitIndex
    /\ service'[p] = service[p]

\* A step that applies nothing and moves no peer's log or commit index.
Idle == service' = service /\ \A p \in Server : Still(p)

\* A handler that saves a peer with the same log and commit index is idle.
LEMMA IdleSave ==
    ASSUME RaftInv, NEW s \in Server, NEW g, rf' = [rf EXCEPT ![s] = g],
           LogKept(rf[s], g), g.commitIndex = rf[s].commitIndex, UNCHANGED <<service, fault>>
    PROVE  Idle
<1>1. \A p \in Server : rf'[p] = IF p = s THEN g ELSE rf[p]
  BY DEF RaftInv, NodeInv
<1>2. \A p \in Server : LogKept(rf[p], rf'[p]) /\ rf'[p].commitIndex = rf[p].commitIndex
  BY <1>1 DEF LogKept
<1>. QED
  BY <1>2 DEF Idle, Still

\* The steps of elections are idle.
LEMMA ElectionsIdle ==
    ASSUME RaftInv,
           \/ \E c \in rvCalls : RequestVoteRequestHandler(c) \/ RequestVoteResponseHandler(c)
           \/ \E s \in Server : ToCandidate(s) \/ ToLeader(s)
    PROVE  Idle
<1>1. ASSUME NEW c \in rvCalls, RequestVoteRequestHandler(c) PROVE Idle
  <2>. DEFINE s == c.to
              g == Observe(rf[s], c.Term)
              h == [g EXCEPT !.votedFor = IF GrantsVote(g, c) THEN c.from ELSE @]
  <2>1. s \in Server /\ c.Term \in Nat /\ rf[s] \in RaftState
    BY PeerIn DEF RaftInv, CallInv, RequestVoteCall
  <2>2. g \in RaftState /\ LogKept(rf[s], g) /\ g.commitIndex = rf[s].commitIndex
    BY <2>1, ObserveIn, ObserveKeepsRole
  <2>3. Save(s, h)
    BY <1>1 DEF RequestVoteRequestHandler
  <2>4. LogKept(g, h) /\ h.commitIndex = g.commitIndex
    <3>. HIDE DEF g
    <3>. QED
      BY <2>2 DEF RaftState, LogKept
  <2>5. LogKept(rf[s], h) /\ h.commitIndex = rf[s].commitIndex
    BY <2>2, <2>4 DEF LogKept
  <2>. HIDE DEF g, h
  <2>. QED
    BY <2>1, <2>3, <2>5, IdleSave DEF Save
<1>2. ASSUME NEW c \in rvCalls, RequestVoteResponseHandler(c) PROVE Idle
  <2>. DEFINE s == c.from
              g == rf[s]
              h == AfterVoteReply(g, c, c.reply)
  <2>1. s \in Server /\ c.reply.Term \in Nat /\ rf[s] \in RaftState
    BY PeerIn DEF RaftInv, CallInv, RequestVoteCall
  <2>2. rf' = [rf EXCEPT ![s] = h] /\ UNCHANGED <<service, fault>>
    BY <1>2 DEF RequestVoteResponseHandler
  <2>3. LogKept(g, h) /\ h.commitIndex = g.commitIndex
    <3>1. /\ LogKept(g, ToFollower(g, c.reply.Term))
          /\ ToFollower(g, c.reply.Term).commitIndex = g.commitIndex
      BY <2>1, ToFollowerIn, ObserveKeepsRole
    <3>. HIDE DEF g
    <3>2. /\ LogKept(g, [g EXCEPT !.voteCnt = @ + 1]) /\ LogKept(g, g)
          /\ [g EXCEPT !.voteCnt = @ + 1].commitIndex = g.commitIndex
      BY <2>1 DEF RaftState, LogKept, g
    <3>3. h \in {g, ToFollower(g, c.reply.Term), [g EXCEPT !.voteCnt = @ + 1]}
      BY DEF AfterVoteReply
    <3>. HIDE DEF h
    <3>. QED
      BY <3>1, <3>2, <3>3
  <2>. HIDE DEF h
  <2>. QED
    BY <2>1, <2>2, <2>3, IdleSave
<1>3. ASSUME NEW s \in Server, ToCandidate(s) PROVE Idle
  <2>1. rf[s] \in RaftState
    BY PeerIn
  <2>2. LogKept(rf[s], Candidate(rf[s], s)) /\ Candidate(rf[s], s).commitIndex = rf[s].commitIndex
    BY <2>1 DEF Candidate, RaftState, LogKept
  <2>3. Save(s, Candidate(rf[s], s))
    BY <1>3 DEF ToCandidate
  <2>. QED
    BY <2>2, <2>3, IdleSave DEF Save
<1>4. ASSUME NEW s \in Server, ToLeader(s) PROVE Idle
  <2>1. rf[s] \in RaftState
    BY PeerIn
  <2>2. LogKept(rf[s], Leader(rf[s], s)) /\ Leader(rf[s], s).commitIndex = rf[s].commitIndex
    BY <2>1 DEF Leader, RaftState, LogKept
  <2>3. Save(s, Leader(rf[s], s))
    BY <1>4 DEF ToLeader
  <2>. QED
    BY <2>2, <2>3, IdleSave DEF Save
<1>. QED
  BY <1>1, <1>2, <1>3, <1>4

\* So are the replies and the rounds of a leader as far as they only send.
LEMMA RepliesIdle ==
    ASSUME RaftInv,
           \/ \E c \in aeCalls : \E r \in Returns(c, NoAnswer) : AppendEntriesResponseHandler(c, r)
           \/ \E c \in isCalls : \E r \in Returns(c, NoInstall) : InstallSnapshotResponseHandler(c, r)
           \/ \E s \in Server : LeaderTickerCheck(s) \/ LeaderTickerSend(s) \/ StartSend(s)
    PROVE  Idle
<1>0. rf \in [Server -> RaftState] /\ fault \in [Server -> Fault] /\ service \in [Server -> Seq(Command)]
  BY DEF RaftInv, NodeInv
<1>1. ASSUME NEW c \in aeCalls, NEW r \in Returns(c, NoAnswer), AppendEntriesResponseHandler(c, r)
      PROVE  Idle
  <2>. DEFINE s == c.from
              g == AfterAppendReply(rf[s], c, r)
  <2>1. s \in Server /\ c.to \in Server /\ rf[s] \in RaftState /\ r.Term \in Nat
    <3>1. c \in AppendEntriesCall
      BY DEF RaftInv, CallInv
    <3>2. r.Term \in Nat
      BY <3>1 DEF AppendEntriesCall, Returns, NoAnswer, Refusal
    <3>. QED
      BY <1>0, <3>1, <3>2 DEF AppendEntriesCall
  <2>2. Save(s, g)
    BY <1>1 DEF AppendEntriesResponseHandler
  <2>3. LogKept(rf[s], g) /\ g.commitIndex = rf[s].commitIndex
    <3>1. PICK h \in RaftState : h = rf[s]
      BY <2>1
    <3>2. /\ LogKept(h, ToFollower(h, r.Term)) /\ ToFollower(h, r.Term).commitIndex = h.commitIndex
          /\ LogKept(h, h)
      BY <2>1, ToFollowerIn, ObserveKeepsRole DEF LogKept
    <3>3. LogKept(h, LeaderHandleLog(h, c, r)) /\ LeaderHandleLog(h, c, r).commitIndex = h.commitIndex
      BY DEF LeaderHandleLog, RaftState, LogKept
    <3>4. AfterAppendReply(h, c, r) \in {h, ToFollower(h, r.Term), LeaderHandleLog(h, c, r)}
      BY DEF AfterAppendReply
    <3>. QED
      BY <3>1, <3>2, <3>3, <3>4
  <2>. HIDE DEF g
  <2>. QED
    BY <2>1, <2>2, <2>3, IdleSave DEF Save
<1>3. ASSUME NEW c \in isCalls, NEW r \in Returns(c, NoInstall), InstallSnapshotResponseHandler(c, r)
      PROVE  Idle
  <2>. DEFINE s == c.from
              g == AfterInstallReply(rf[s], c, r)
  <2>1. s \in Server /\ rf[s] \in RaftState /\ r.Term \in Nat
    <3>1. c \in InstallSnapshotCall
      BY DEF RaftInv, CallInv
    <3>2. r \in [Term : Nat]
      BY <3>1 DEF InstallSnapshotCall, Returns, NoInstall
    <3>. QED
      BY <1>0, <3>1, <3>2 DEF InstallSnapshotCall
  <2>2. Save(s, g)
    BY <1>3 DEF InstallSnapshotResponseHandler
  <2>3. LogKept(rf[s], g) /\ g.commitIndex = rf[s].commitIndex
    <3>1. PICK h \in RaftState : h = rf[s]
      BY <2>1
    <3>2. /\ LogKept(h, ToFollower(h, r.Term)) /\ ToFollower(h, r.Term).commitIndex = h.commitIndex
          /\ LogKept(h, h)
      BY <2>1, ToFollowerIn, ObserveKeepsRole DEF LogKept
    <3>. DEFINE k == [h EXCEPT !.nextIndex[c.to] = c.LastIncludedIndex + 1,
                               !.matchIndex[c.to] = c.LastIncludedIndex]
    <3>3. LogKept(h, k) /\ k.commitIndex = h.commitIndex
      BY DEF RaftState, LogKept
    <3>4. AfterInstallReply(h, c, r) \in {h, ToFollower(h, r.Term), k}
      BY DEF AfterInstallReply
    <3>. HIDE DEF k
    <3>. QED
      BY <3>1, <3>2, <3>3, <3>4
  <2>. HIDE DEF g
  <2>. QED
    BY <2>1, <2>2, <2>3, IdleSave DEF Save
<1>4. ASSUME NEW s \in Server, LeaderTickerCheck(s) PROVE Idle
  BY <1>4 DEF LeaderTickerCheck, node, Idle, Still, LogKept
<1>5. ASSUME NEW s \in Server, LeaderTickerSend(s) \/ StartSend(s) PROVE Idle
  <2>1. LeaderSendAppendEntriesRPC(s)
    BY <1>5 DEF LeaderTickerSend, StartSend
  <2>2. /\ rf' = rf /\ service' = service
        /\ fault' = fault \/ fault' = [fault EXCEPT ![s] = "panic"]
    BY <2>1 DEF LeaderSendAppendEntriesRPC, node
  <2>. QED
    BY <1>0, <2>2 DEF Idle, Still, LogKept
<1>. QED
  BY <1>1, <1>3, <1>4, <1>5

\* What w has of term t is in v.
KeepsTerm(w, v, t) == \A i \in DOMAIN w : w[i].Term = t => i \in DOMAIN v /\ v[i] = w[i]

(***************************************************************************)
(* Peer p takes nothing back: what was committed is still in its whole     *)
(* log, and so is what it has of its term.  Without snapshots its service  *)
(* is at least as far as it was.                                           *)
(***************************************************************************)
Forward(p) ==
    /\ \E w, v \in Seq(LogEntry) :
           /\ Whole(rf[p], w) /\ Whole(rf'[p], v)
           /\ rf[p].commitIndex + 1 <= Len(v) /\ SameUpTo(v, w, rf[p].commitIndex + 1)
           /\ rf'[p].currentTerm = rf[p].currentTerm => KeepsTerm(w, v, rf[p].currentTerm)
    /\ rf[p].commitIndex <= rf'[p].commitIndex
    /\ used'.snapshots = 0 => Len(service[p]) <= Len(service'[p])

\* A peer to which nothing happens moves nowhere.
LEMMA StillForward ==
    ASSUME RaftInv, CommitInv, CleanHistory, NEW p \in Server, Still(p)
    PROVE  Forward(p)
<1>1. PICK L, A, W : Chronicle(L, A, W)
  BY DEF CommitInv
<1>2. /\ rf[p].commitIndex + 1 <= Len(W[p]) /\ W[p] \in Seq(LogEntry) /\ Whole(rf[p], W[p])
  BY <1>1, CommitsWithin
<1>3. PICK w \in Seq(LogEntry) : w = W[p]
  BY <1>2
<1>4. Whole(rf[p], w) /\ rf[p].commitIndex + 1 <= Len(w)
  BY <1>2, <1>3
<1>5. Whole(rf'[p], w)
  BY <1>4 DEF Whole, Still, LogKept
<1>6. SameUpTo(w, w, rf[p].commitIndex + 1) /\ KeepsTerm(w, w, rf[p].currentTerm)
  BY DEF SameUpTo, KeepsTerm
<1>7. rf[p].commitIndex <= rf'[p].commitIndex /\ Len(service[p]) <= Len(service'[p])
  <2>1. rf[p].commitIndex \in Int /\ Len(service[p]) \in Nat
    BY PeerIn
  <2>. QED
    BY <2>1 DEF Still
<1>. QED
  BY <1>4, <1>5, <1>6, <1>7 DEF Forward

\* Start only makes a log longer.
LEMMA StartForward ==
    ASSUME RaftInv, CommitInv, CleanHistory, NEW s \in Server, NEW command \in Command,
           Start(s, command), NEW p \in Server
    PROVE  Forward(p) /\ service' = service
<1>1. PICK L, A, W : Chronicle(L, A, W)
  BY DEF CommitInv
<1>2. /\ rf[s].commitIndex + 1 <= Len(W[s]) /\ W[s] \in Seq(LogEntry) /\ Whole(rf[s], W[s])
  BY <1>1, CommitsWithin
<1>3. PICK w \in Seq(LogEntry), g \in RaftState : w = W[s] /\ g = rf[s]
  BY <1>2, PeerIn
<1>4. Whole(g, w) /\ g.commitIndex + 1 <= Len(w) /\ g.commitIndex \in Int /\ Len(w) \in Nat
  BY <1>2, <1>3, PeerIn
<1>. DEFINE e == [Term |-> g.currentTerm, Index |-> LastIndex(g) + 1, Command |-> command]
            h == WithCommand(g, s, command)
            v == Append(w, e)
<1>5. /\ rf' = [rf EXCEPT ![s] = h] /\ service' = service /\ fault' = fault
      /\ \A q \in Server : rf'[q] = IF q = s THEN h ELSE rf[q]
  BY <1>3 DEF Start, Save, RaftInv, NodeInv
<1>6. CASE p = s
  <2>1. /\ h.log = Append(g.log, e) /\ h.currentTerm = g.currentTerm
        /\ h.commitIndex = g.commitIndex /\ h.snapshotTerm = g.snapshotTerm
        /\ h.snapshot = g.snapshot /\ h.snapshotIndex = g.snapshotIndex
    BY DEF WithCommand, RaftState
  <2>2. e.Index = Len(w) /\ e \in LogEntry
    <3>1. LastIndex(g) = Len(w) - 1
      BY <1>4, LastOfWhole
    <3>2. g.currentTerm \in Nat
      BY DEF RaftState
    <3>3. LastIndex(g) + 1 = Len(w)
      BY <1>4, <3>1
    <3>. QED
      BY <1>4, <3>2, <3>3 DEF LogEntry
  <2>3. LogKept([g EXCEPT !.log = h.log], h)
    <3>. HIDE DEF h
    <3>. QED
      BY <2>1 DEF LogKept, RaftState
  <2>. HIDE DEF e, h
  <2>4. Whole(h, v)
    BY <1>4, <2>1, <2>2, <2>3, AppendWhole
  <2>5. /\ v \in Seq(LogEntry) /\ Len(v) = Len(w) + 1 /\ \A i \in 1..Len(w) : v[i] = w[i]
    BY <2>2
  <2>. HIDE DEF v
  <2>6. SameUpTo(v, w, g.commitIndex + 1) /\ g.commitIndex + 1 <= Len(v)
    BY <1>4, <2>5 DEF SameUpTo
  <2>7. KeepsTerm(w, v, g.currentTerm)
    BY <1>4, <2>5 DEF KeepsTerm
  <2>8. rf[p] = g /\ rf'[p] = h /\ service'[p] = service[p] /\ Len(service[p]) \in Nat
    BY <1>3, <1>5, <1>6, PeerIn
  <2>9. Forward(p)
    <3>1. Len(service[p]) <= Len(service'[p]) /\ g.commitIndex <= h.commitIndex
      BY <1>4, <2>1, <2>8
    <3>. QED
      BY <1>4, <2>4, <2>5, <2>6, <2>7, <2>8, <3>1 DEF Forward
  <2>. QED
    BY <1>5, <2>9
<1>7. CASE p # s
  <2>1. Still(p)
    BY <1>5, <1>7 DEF Still, LogKept
  <2>. QED
    BY <1>5, <2>1, StillForward
<1>. QED
  BY <1>6, <1>7

\* What a handler of s that finishes with out leaves behind.
LEMMA Finished ==
    ASSUME RaftInv, NEW s \in Server, NEW out, Finish(s, out)
    PROVE  /\ rf'[s] = out.g /\ service'[s] = out.service
           /\ \A p \in Server \ {s} : Still(p)
<1>1. rf \in [Server -> RaftState] /\ service \in [Server -> Seq(Command)]
  BY DEF RaftInv, NodeInv
<1>2. rf'[s] = out.g /\ service'[s] = out.service
  BY <1>1 DEF Finish
<1>3. \A p \in Server \ {s} : rf'[p] = rf[p] /\ service'[p] = service[p]
  BY <1>1 DEF Finish
<1>. QED
  BY <1>2, <1>3 DEF Still, LogKept

\* leaderUpdateCommitIndex leaves the leader as it is, or commits up to n.
LEMMA CheckOutcome ==
    ASSUME NEW g \in RaftState, NEW w \in Seq(LogEntry), Whole(g, w), NEW svc \in Seq(Command),
           Applied(svc, w, g.commitIndex + 1), NEW n \in Int
    PROVE  LET out == AfterCommitCheck(g, svc, n)
           IN  \/ out.g = g /\ out.service = svc
               \/ /\ n > g.commitIndex /\ out.g = [g EXCEPT !.commitIndex = n]
                  /\ Len(svc) <= Len(out.service)
<1>. DEFINE out == AfterCommitCheck(g, svc, n)
<1>1. \/ out \in {Outcome(g, svc, "none"), Outcome(g, svc, "panic")}
      \/ MayCommit(g, n) /\ FindIndex(g.log, n) # 0 /\ out = CommitTo(g, svc, n)
  BY DEF AfterCommitCheck
<1>2. CASE out \in {Outcome(g, svc, "none"), Outcome(g, svc, "panic")}
  BY <1>2 DEF Outcome
<1>3. CASE MayCommit(g, n) /\ FindIndex(g.log, n) # 0 /\ out = CommitTo(g, svc, n)
  <2>1. PICK k \in Int, y \in Nat, z \in Nat : k = g.snapshotIndex /\ y = Len(g.log) /\ z = Len(w)
    BY WholeTail
  <2>2. g.log \in Seq(LogEntry) /\ Follows(g.log, k) /\ z = k + 1 + y
    BY <2>1, WholeTail
  <2>3. n <= k + y
    BY <1>3, <2>1, <2>2, FindFollows
  <2>4. n + 1 <= Len(w) /\ g.commitIndex \in Int
    <3>1. g.commitIndex \in Int
      BY DEF RaftState, LogIndex
    <3>2. n + 1 <= z
      BY <2>2, <2>3
    <3>. QED
      BY <2>1, <3>1, <3>2
  <2>5. n > g.commitIndex /\ g.commitIndex < n /\ g.commitIndex <= n
    BY <1>3, <2>4 DEF MayCommit
  <2>6. LET made == CommitTo(g, svc, n)
        IN  /\ made.g = [g EXCEPT !.commitIndex = n]
            /\ Len(svc) <= Len(made.service)
    BY <2>4, <2>5, CommitToApplies
  <2>. HIDE DEF out
  <2>. QED
    BY <1>3, <2>5, <2>6 DEF out
<1>. QED
  BY <1>1, <1>2, <1>3

\* So it takes nobody back.
LEMMA CommitForward ==
    ASSUME RaftInv, CommitInv, CleanHistory, NEW s \in Server,
           LeaderUpdateCommitIndex(s), NEW p \in Server
    PROVE  /\ Forward(p)
           /\ p # s => service'[p] = service[p]
<1>1. PICK L, A, W : Chronicle(L, A, W) /\ AppliedIsCommitted(W)
  BY DEF CommitInv
<1>2. /\ rf[s].commitIndex + 1 <= Len(W[s]) /\ W[s] \in Seq(LogEntry) /\ Whole(rf[s], W[s])
      /\ Applied(service[s], W[s], rf[s].commitIndex + 1)
  <2>1. Applied(service[s], W[s], rf[s].commitIndex + 1)
    BY <1>1 DEF AppliedIsCommitted
  <2>. QED
    BY <1>1, <2>1, CommitsWithin
<1>3. PICK w \in Seq(LogEntry), g \in RaftState, svc \in Seq(Command) :
          w = W[s] /\ g = rf[s] /\ svc = service[s]
  BY <1>2, PeerIn
<1>4. /\ Whole(g, w) /\ g.commitIndex + 1 <= Len(w) /\ Applied(svc, w, g.commitIndex + 1)
      /\ g.commitIndex \in Int /\ Len(svc) \in Nat
  BY <1>2, <1>3, PeerIn
<1>5. PICK n \in Int : Finish(s, AfterCommitCheck(g, svc, n))
  <2>1. g.matchIndex \in [Server -> Int]
    BY <1>3, PeerIn
  <2>2. \E n \in {g.matchIndex[q] : q \in Server} : Finish(s, AfterCommitCheck(g, svc, n))
    BY <1>3 DEF LeaderUpdateCommitIndex
  <2>. QED
    BY <2>1, <2>2
<1>6. PICK out : out = AfterCommitCheck(g, svc, n)
  OBVIOUS
<1>7. \/ out.g = g /\ out.service = svc
      \/ /\ n > g.commitIndex /\ out.g = [g EXCEPT !.commitIndex = n]
         /\ Len(svc) <= Len(out.service)
  BY <1>4, <1>6, CheckOutcome
<1>8. /\ rf'[s] = out.g /\ service'[s] = out.service
      /\ \A q \in Server \ {s} : Still(q)
  BY <1>5, <1>6, Finished
<1>9. CASE p # s
  BY <1>8, <1>9, StillForward DEF Still
<1>10. CASE p = s
  <2>1. CASE out.g = g /\ out.service = svc
    <3>1. Still(p)
      BY <1>3, <1>8, <1>10, <2>1 DEF Still, LogKept
    <3>. QED
      BY <1>10, <3>1, StillForward
  <2>2. CASE /\ n > g.commitIndex /\ out.g = [g EXCEPT !.commitIndex = n]
             /\ Len(svc) <= Len(out.service)
    <3>1. PICK h : h = out.g
      OBVIOUS
    <3>2. LogKept(g, h) /\ h.commitIndex = n
      BY <2>2, <3>1 DEF RaftState, LogKept
    <3>3. g.commitIndex <= n
      BY <1>4, <2>2
    <3>4. Whole(h, w)
      <4>1. g.snapshotIndex <= g.commitIndex /\ g.snapshotIndex \in Int
        BY <1>4 DEF Whole, RaftState, LogIndex
      <4>2. g.snapshotIndex <= n
        BY <1>4, <3>3, <4>1
      <4>. QED
        BY <1>4, <3>2, <4>2 DEF Whole, LogKept
    <3>5. SameUpTo(w, w, g.commitIndex + 1) /\ KeepsTerm(w, w, g.currentTerm)
      BY DEF SameUpTo, KeepsTerm
    <3>6. rf[p] = g /\ rf'[p] = h /\ service[p] = svc /\ service'[p] = out.service
      BY <1>3, <1>8, <1>10, <3>1
    <3>7. Forward(p)
      BY <1>4, <2>2, <3>2, <3>3, <3>4, <3>5, <3>6 DEF Forward
    <3>. QED
      BY <1>10, <3>7
  <2>. QED
    BY <1>7, <2>1, <2>2
<1>. QED
  BY <1>9, <1>10

(***************************************************************************)
(* A request of a term is part of a log its leader had, and so is what the *)
(* follower has of this term: one begins the other, and the merge does not *)
(* cut.                                                                    *)
(***************************************************************************)
LEMMA MergeKeepsTerm ==
    ASSUME NEW L, LeaderLogs(L), NEW w \in Seq(LogEntry), Rooted(L, w), NEW l \in L,
           NEW b \in Seq(LogEntry), Begins(b, l[2]), NEW v \in Seq(LogEntry),
           Refused(w, b, v) \/ Merged(w, b, v)
    PROVE  KeepsTerm(w, v, l[1])
<1>1. /\ l[2] \in Seq(LogEntry) /\ Len(w) \in Nat /\ Len(v) \in Nat
      /\ \A m \in L : m[1] = l[1] => Begins(m[2], l[2]) \/ Begins(l[2], m[2])
  BY DEF LeaderLogs
<1>2. ASSUME NEW x \in DOMAIN w, w[x].Term = l[1] PROVE x \in DOMAIN v /\ v[x] = w[x]
  <2>. DEFINE y == SubSeq(w, 1, x)
  <2>1. x \in Nat /\ x >= 1 /\ x <= Len(w)
    BY <1>1
  <2>2. y \in Seq(LogEntry) /\ Len(y) = x /\ Begins(y, w)
    BY <1>1, <2>1, CutShort
  <2>. HIDE DEF y
  <2>3. y \in Filled /\ TermOf(y) = l[1]
    <3>1. y[x] = w[x]
      BY <2>1, <2>2 DEF Begins, SameUpTo
    <3>. QED
      BY <1>2, <2>1, <2>2, <3>1 DEF Filled, TermOf
  <2>4. Rooted(L, y)
    BY <1>1, <2>2, RootedBegins
  <2>5. PICK m \in L : m[1] = l[1] /\ m[2] \in Seq(LogEntry) /\ Begins(y, m[2])
    BY <2>3, <2>4, RootOf
  <2>6. Comparable(m[2], l[2])
    BY <1>1, <2>5 DEF Comparable
  <2>7. Comparable(y, l[2])
    BY <1>1, <2>2, <2>5, <2>6, ComparableBelow
  <2>8. Comparable(l[2], y)
    BY <2>7 DEF Comparable
  <2>9. Comparable(b, y)
    BY <1>1, <2>2, <2>8, ComparableBelow
  <2>10. Comparable(y, b)
    BY <2>9 DEF Comparable
  <2>11. Begins(y, v)
    BY <2>2, <2>10, MergeKeeps
  <2>. QED
    BY <1>1, <2>1, <2>2, <2>11 DEF Begins, SameUpTo
<1>. QED
  BY <1>2 DEF KeepsTerm

\* A follower keeps what it has committed, and its service moves on.
LEMMA AcceptForward ==
    ASSUME RaftInv, RaftInv', GaplessInv, CommitInv, CleanHistory, CleanHistory',
           NEW c \in aeCalls, AppendEntriesRequestHandler(c), ~(c.Term < rf[c.to].currentTerm),
           NEW p \in Server
    PROVE  /\ Forward(p)
           /\ p # c.to => service'[p] = service[p]
<1>. DEFINE s == c.to
            g == rf[s]
<1>1. /\ rf \in [Server -> RaftState] /\ service \in [Server -> Seq(Command)]
      /\ s \in Server /\ c.LeaderCommit \in Int
  BY DEF RaftInv, NodeInv, CallInv, AppendEntriesCall, LogIndex
<1>2. PICK L, A, W : Chronicle(L, A, W) /\ AppliedIsCommitted(W)
  BY DEF CommitInv
<1>3. PICK l \in L, h \in RaftState, v \in Seq(LogEntry), svc \in Seq(Command), ok \in BOOLEAN :
          Accepts(A, W, c, l, h, v, svc, ok)
  BY <1>2, AcceptOutcome, Zenon
<1>4. /\ \A q \in Server : rf'[q] = IF q = s THEN h ELSE rf[q]
      /\ \A q \in Server : service'[q] = IF q = s THEN svc ELSE service[q]
  BY <1>1, <1>3 DEF Accepts
<1>5. /\ h.commitIndex = IF ok /\ g.commitIndex < c.LeaderCommit THEN c.LeaderCommit ELSE g.commitIndex
      /\ g.commitIndex + 1 <= Len(v) /\ SameUpTo(v, W[s], g.commitIndex + 1)
      /\ Len(service[s]) <= Len(svc) /\ Whole(h, v)
      /\ h.currentTerm = c.Term /\ l[1] = c.Term
      /\ Refused(W[s], l[2], v) \/ Merged(W[s], l[2], v)
  BY <1>3 DEF Accepts
<1>6. CASE p # s
  <2>1. rf'[p] = rf[p] /\ service'[p] = service[p]
    BY <1>4, <1>6
  <2>2. Still(p)
    BY <2>1 DEF Still, LogKept
  <2>. QED
    BY <2>1, <2>2, StillForward
<1>7. CASE p = s
  <2>1. PICK w \in Seq(LogEntry) : w = W[s]
    BY <1>1, <1>2, CommitsWithin
  <2>2. Whole(g, w) /\ LeaderLogs(L) /\ Rooted(L, w) /\ l[2] \in Seq(LogEntry)
    BY <1>1, <1>2, <2>1 DEF Chronicle, LeaderLogs, LogsRooted, WholeLogs
  <2>3. KeepsTerm(w, v, l[1])
    <3>1. Begins(l[2], l[2])
      BY <2>2, BeginsSelf
    <3>2. Refused(w, l[2], v) \/ Merged(w, l[2], v)
      BY <1>5, <2>1
    <3>. QED
      BY <2>2, <3>1, <3>2, MergeKeepsTerm
  <2>4. g.commitIndex <= h.commitIndex
    <3>1. g.commitIndex \in Int
      BY <1>1, PeerIn
    <3>. QED
      BY <1>1, <1>5, <3>1
  <2>5. rf'[p] = h /\ service'[p] = svc /\ rf[p] = g
    BY <1>1, <1>4, <1>7
  <2>6. h.currentTerm = g.currentTerm => KeepsTerm(w, v, g.currentTerm)
    BY <1>5, <2>3
  <2>. HIDE DEF g
  <2>7. Forward(p)
    BY <1>5, <1>7, <2>1, <2>2, <2>4, <2>5, <2>6 DEF Forward
  <2>. QED
    BY <1>7, <2>7
<1>. QED
  BY <1>6, <1>7

\* Snapshot moves the beginning of the log into the snapshot, and the service
\* to everything that is committed.
LEMMA SnapshotForward ==
    ASSUME RaftInv, CommitInv, CleanHistory, NEW s \in Server,
           NEW n \in Nat, Snapshot(s, n), NEW p \in Server
    PROVE  /\ Forward(p)
           /\ p # s => service'[p] = service[p]
<1>1. PICK L, A, W : Chronicle(L, A, W) /\ AppliedIsCommitted(W)
  BY DEF CommitInv
<1>2. /\ rf[s].commitIndex + 1 <= Len(W[s]) /\ W[s] \in Seq(LogEntry) /\ Whole(rf[s], W[s])
      /\ Applied(service[s], W[s], rf[s].commitIndex + 1)
  <2>1. Applied(service[s], W[s], rf[s].commitIndex + 1)
    BY <1>1 DEF AppliedIsCommitted
  <2>. QED
    BY <1>1, <2>1, CommitsWithin
<1>3. PICK w \in Seq(LogEntry), g \in RaftState, svc \in Seq(Command) :
          w = W[s] /\ g = rf[s] /\ svc = service[s]
  BY <1>2, PeerIn
<1>4. /\ Whole(g, w) /\ g.commitIndex + 1 <= Len(w) /\ Applied(svc, w, g.commitIndex + 1)
      /\ g.commitIndex \in Int /\ Len(svc) \in Nat
  BY <1>2, <1>3, PeerIn
<1>5. PICK out : out = AfterSnapshot(g, svc, n)
  OBVIOUS
<1>6. Finish(s, out) /\ n + 1 <= Len(svc)
  BY <1>3, <1>5 DEF Snapshot
<1>7. used'.snapshots # 0
  <2>1. used \in [elections : Nat, commands : SUBSET Command, restarts : Nat, snapshots : Nat]
    BY DEF RaftInv, RestInv
  <2>. QED
    BY <2>1 DEF Snapshot, Use
<1>8. /\ rf'[s] = out.g /\ service'[s] = out.service
      /\ \A q \in Server \ {s} : Still(q)
  BY <1>6, Finished
<1>9. CASE p # s
  BY <1>8, <1>9, StillForward DEF Still
<1>10. CASE p = s
  <2>1. CASE FindIndex(g.log, n) = 0
    <3>1. out.g = g /\ out.service = svc
      BY <1>5, <2>1 DEF AfterSnapshot, Outcome
    <3>2. Still(p)
      BY <1>3, <1>8, <1>10, <3>1 DEF Still, LogKept
    <3>. QED
      BY <1>10, <3>2, StillForward
  <2>2. CASE FindIndex(g.log, n) # 0
    <3>1. LET made == AfterSnapshot(g, svc, n)
          IN  /\ Whole(made.g, w) /\ made.g.snapshotIndex = n
              /\ made.g.commitIndex = g.commitIndex /\ made.g.role = g.role
              /\ made.g.currentTerm = g.currentTerm /\ made.g.matchIndex = g.matchIndex
              /\ Applied(made.service, w, g.commitIndex + 1)
              /\ Len(made.service) = g.commitIndex + 1 /\ made.fault = "none"
      BY <1>4, <1>6, <2>2, SnapshotApplies
    <3>2. PICK h : h = out.g
      OBVIOUS
    <3>3. Whole(h, w) /\ h.commitIndex = g.commitIndex
      BY <1>5, <3>1, <3>2
    <3>4. SameUpTo(w, w, g.commitIndex + 1) /\ KeepsTerm(w, w, g.currentTerm)
      BY DEF SameUpTo, KeepsTerm
    <3>5. rf[p] = g /\ rf'[p] = h /\ service'[p] = out.service
      BY <1>3, <1>8, <1>10, <3>2
    <3>6. Forward(p)
      BY <1>4, <1>7, <3>3, <3>4, <3>5 DEF Forward
    <3>. QED
      BY <1>10, <3>6
  <2>. QED
    BY <2>1, <2>2
<1>. QED
  BY <1>9, <1>10

\* Observing a term that is not older moves there.
LEMMA ObservedTerm ==
    ASSUME NEW g \in RaftState, NEW t \in Nat, g.currentTerm <= t
    PROVE  Observe(g, t).currentTerm = t
<1>1. g.currentTerm \in Nat
  BY DEF RaftState
<1>2. ToFollower(g, t).currentTerm = IF g.currentTerm < t THEN t ELSE g.currentTerm
  BY DEF ToFollower, RaftState
<1>3. Observe(g, t) = g \/ Observe(g, t) = ToFollower(g, t)
  BY DEF Observe
<1>4. g.currentTerm < t => Observe(g, t) = ToFollower(g, t)
  BY DEF Observe
<1>5. CASE g.currentTerm < t
  BY <1>2, <1>4, <1>5
<1>6. CASE g.currentTerm = t
  BY <1>1, <1>2, <1>3, <1>6
<1>. QED
  BY <1>1, <1>5, <1>6

\* InstallSnapshot moves the service to the snapshot and keeps what is
\* committed after it.
LEMMA InstallForward ==
    ASSUME RaftInv, LeadInv, CommitInv, CleanHistory, NEW c \in isCalls,
           InstallSnapshotRequestHandler(c), NEW p \in Server
    PROVE  /\ Forward(p)
           /\ p # c.to => service'[p] = service[p]
<1>. DEFINE s == c.to
            n == c.LastIncludedIndex
<1>1. PICK L, A, W : Chronicle(L, A, W)
  BY DEF CommitInv
<1>2. /\ s \in Server /\ c.Term \in Nat /\ n \in Int /\ rf[s] \in RaftState
      /\ rf[s].currentTerm \in Nat /\ rf[s].commitIndex \in Int /\ disk[s].currentTerm \in Nat
      /\ disk[s].currentTerm <= rf[s].currentTerm
  <2>1. c \in InstallSnapshotCall
    BY DEF RaftInv, CallInv
  <2>. QED
    BY <2>1, PeerIn DEF InstallSnapshotCall, LogIndex
<1>0. PICK g \in RaftState : g = rf[s]
  BY <1>2
<1>8. PICK out : out = InstallOutcome(rf[s], service[s], c)
  OBVIOUS
<1>3. g = rf[s] /\ out = InstallOutcome(rf[s], service[s], c)
  BY <1>0, <1>8
<1>4. Finish(s, out) /\ used' = used
  BY <1>3 DEF InstallSnapshotRequestHandler
<1>5. /\ rf'[s] = out.g /\ service'[s] = out.service
      /\ \A q \in Server \ {s} : Still(q)
  BY <1>2, <1>4, Finished
<1>6. CASE p # s
  BY <1>5, <1>6, StillForward DEF Still
<1>7. CASE p = s
  <2>1. CASE /\ out.g = rf[s] \/ out.g = Observe(rf[s], c.Term)
             /\ out.service = service[s]
    <3>1. /\ LogKept(g, Observe(g, c.Term)) /\ Observe(g, c.Term).commitIndex = g.commitIndex
          /\ LogKept(g, g)
      BY <1>2, ObserveIn, ObserveKeepsRole DEF LogKept
    <3>2. LogKept(g, out.g) /\ out.g.commitIndex = g.commitIndex
      BY <1>3, <2>1, <3>1
    <3>3. Still(p)
      BY <1>3, <1>5, <1>7, <2>1, <3>2 DEF Still
    <3>. QED
      BY <1>7, <3>3, StillForward
  <2>2. ASSUME NEW l \in L, NEW b \in Seq(LogEntry), NEW v \in Seq(LogEntry), Installs(A, W, c, l, b, v)
        PROVE  Forward(p)
    <3>1. PICK w \in Seq(LogEntry) : w = W[s]
      BY <1>1, <1>2, CommitsWithin
    <3>2. /\ n \in Nat /\ rf[s].currentTerm <= c.Term /\ l[1] = c.Term
          /\ Begins(b, l[2]) /\ Installed(w, b, Observe(g, c.Term), service[s], n, v, out)
      BY <1>3, <2>2, <3>1 DEF Installs
    <3>3. PICK h, svc : h = out.g /\ svc = out.service
      OBVIOUS
    <3>4. /\ Whole(h, v) /\ Merged(w, b, v)
          /\ h.commitIndex = IF Observe(g, c.Term).commitIndex < n
                               THEN n ELSE Observe(g, c.Term).commitIndex
          /\ h.currentTerm = Observe(g, c.Term).currentTerm
      BY <3>2, <3>3 DEF Installed
    <3>5. Observe(g, c.Term).commitIndex = g.commitIndex /\ Observe(g, c.Term).currentTerm = c.Term
      BY <1>2, <1>3, <3>2, ObserveKeepsRole, ObservedTerm
    <3>6. g.commitIndex <= h.commitIndex
      BY <1>2, <1>3, <3>4, <3>5
    <3>7. Whole(g, w) /\ LeaderLogs(L) /\ Rooted(L, w)
      BY <1>1, <1>2, <1>3, <3>1 DEF Chronicle, WholeLogs, LogsRooted
    <3>8. g.commitIndex + 1 <= Len(v) /\ SameUpTo(v, w, g.commitIndex + 1)
      <4>1. disk[s].currentTerm <= l[1]
        BY <1>2, <3>2
      <4>2. Refused(W[s], b, v) \/ Merged(W[s], b, v)
        BY <3>1, <3>4
      <4>3. /\ rf[s].commitIndex + 1 <= Len(v)
            /\ SameUpTo(v, W[s], rf[s].commitIndex + 1)
        BY <1>1, <1>2, <3>2, <4>1, <4>2, CommittedKept
      <4>. QED
        BY <1>3, <3>1, <4>3
    <3>9. KeepsTerm(w, v, l[1])
      BY <3>2, <3>4, <3>7, MergeKeepsTerm
    <3>10. used'.snapshots # 0
      <4>1. used.snapshots # 0
        BY <3>2 DEF LeadInv, NoSnapshotYet
      <4>. QED
        BY <1>4, <4>1
    <3>11. rf[p] = g /\ rf'[p] = h /\ service'[p] = svc
      BY <1>3, <1>5, <1>7, <3>3
    <3>12. h.currentTerm = g.currentTerm => KeepsTerm(w, v, g.currentTerm)
      BY <3>2, <3>4, <3>5, <3>9
    <3>. QED
      BY <3>4, <3>6, <3>7, <3>8, <3>10, <3>11, <3>12 DEF Forward
  <2>3. \/ /\ out.g = rf[s] \/ out.g = Observe(rf[s], c.Term)
           /\ out.service = service[s]
        \/ \E l \in L, b \in Seq(LogEntry), v \in Seq(LogEntry) : Installs(A, W, c, l, b, v)
    BY <1>1, <1>3, InstallOutcomes
  <2>. QED
    BY <1>7, <2>1, <2>2, <2>3
<1>. QED
  BY <1>6, <1>7

-----------------------------------------------------------------------------
(* Steps that are no restart *)

\* Nobody goes back, and one service at most moves.
Onward ==
    /\ \A p \in Server : Forward(p)
    /\ \/ service' = service
       \/ \E s \in Server : \A p \in Server \ {s} : service'[p] = service[p]

\* A restart is counted.
LEMMA UsesCount ==
    ASSUME RaftInv, NEW s \in Server, Restart(s)
    PROVE  used'.restarts = used.restarts + 1 /\ used.restarts \in Nat
<1>1. used \in [elections : Nat, commands : SUBSET Command, restarts : Nat, snapshots : Nat]
  BY DEF RaftInv, RestInv
<1>. QED
  BY <1>1 DEF Restart, Use

\* Every step that is no restart is a step forward.
LEMMA NextOnward ==
    ASSUME RaftInv, RaftInv', GaplessInv, LeadInv, CommitInv, CleanHistory', Next,
           \A s \in Server : ~Restart(s)
    PROVE  Onward
<1>1. CleanHistory
  BY CleanNeverReturns
<1>2. ASSUME Idle PROVE Onward
  <2>1. \A p \in Server : Forward(p)
    BY <1>1, <1>2, StillForward DEF Idle
  <2>. QED
    BY <1>2, <2>1 DEF Onward, Idle
<1>3. ASSUME NEW c \in aeCalls, AppendEntriesRequestHandler(c) PROVE Onward
  <2>1. c.to \in Server
    BY DEF RaftInv, CallInv, AppendEntriesCall
  <2>2. CASE c.Term < rf[c.to].currentTerm
    <3>1. Save(c.to, rf[c.to])
      BY <1>3, <2>2 DEF AppendEntriesRequestHandler
    <3>2. LogKept(rf[c.to], rf[c.to])
      BY DEF LogKept
    <3>. QED
      BY <1>2, <2>1, <3>1, <3>2, IdleSave DEF Save
  <2>3. CASE ~(c.Term < rf[c.to].currentTerm)
    <3>1. \A p \in Server : /\ Forward(p)
                            /\ p # c.to => service'[p] = service[p]
      BY <1>1, <1>3, <2>3, AcceptForward
    <3>. QED
      BY <2>1, <3>1 DEF Onward
  <2>. QED
    BY <2>2, <2>3
<1>4. CASE Deliveries
  <2>1. ASSUME NEW c \in rvCalls, RequestVoteRequestHandler(c) \/ RequestVoteResponseHandler(c)
        PROVE  Onward
    BY <1>2, <2>1, ElectionsIdle
  <2>2. CASE \/ \E c \in aeCalls : \E r \in Returns(c, NoAnswer) : AppendEntriesResponseHandler(c, r)
             \/ \E c \in isCalls : \E r \in Returns(c, NoInstall) : InstallSnapshotResponseHandler(c, r)
    BY <1>2, <2>2, RepliesIdle
  <2>3. ASSUME NEW c \in isCalls, InstallSnapshotRequestHandler(c) PROVE Onward
    <3>1. \A p \in Server : /\ Forward(p)
                            /\ p # c.to => service'[p] = service[p]
      BY <1>1, <2>3, InstallForward
    <3>2. c.to \in Server
      BY DEF RaftInv, CallInv, InstallSnapshotCall
    <3>. QED
      BY <3>1, <3>2 DEF Onward
  <2>. QED
    BY <1>3, <1>4, <2>1, <2>2, <2>3 DEF Deliveries
<1>5. ASSUME NEW s \in Server, ServerStep(s) PROVE Onward
  <2>1. CASE ToCandidate(s) \/ ToLeader(s)
    BY <1>2, <2>1, ElectionsIdle
  <2>2. CASE LeaderTickerCheck(s) \/ LeaderTickerSend(s) \/ StartSend(s)
    BY <1>2, <2>2, RepliesIdle
  <2>3. CASE LeaderUpdateCommitIndex(s)
    <3>1. \A p \in Server : /\ Forward(p)
                            /\ p # s => service'[p] = service[p]
      BY <1>1, <2>3, CommitForward
    <3>. QED
      BY <3>1 DEF Onward
  <2>4. ASSUME NEW command \in Command, Start(s, command) PROVE Onward
    <3>1. \A p \in Server : Forward(p) /\ service' = service
      BY <1>1, <2>4, StartForward
    <3>. QED
      BY <3>1 DEF Onward
  <2>5. ASSUME NEW i \in 1..Len(service[s]), Snapshot(s, i - 1) PROVE Onward
    <3>1. PICK n \in Nat : n = i - 1
      <4>1. Len(service[s]) \in Nat
        BY PeerIn
      <4>. QED
        BY <4>1
    <3>2. Snapshot(s, n)
      BY <2>5, <3>1
    <3>3. \A p \in Server : /\ Forward(p)
                            /\ p # s => service'[p] = service[p]
      BY <1>1, <3>2, SnapshotForward
    <3>. QED
      BY <3>3 DEF Onward
  <2>. QED
    BY <1>5, <2>1, <2>2, <2>3, <2>4, <2>5 DEF ServerStep
<1>. QED
  BY <1>4, <1>5 DEF Next

(***************************************************************************)
(* A peer that runs never moves commitIndex back and never drops or        *)
(* replaces an entry it has committed, except into a snapshot: no request  *)
(* of an older leader, late or repeated, makes a follower cut its log that *)
(* far, and no snapshot does.                                              *)
(***************************************************************************)
THEOREM CommittedIsKept == Spec => CommittedStays
<1>. DEFINE Kept == CleanHistory' => \A s \in Server :
                        used'.restarts = used.restarts => KeepsCommitted(rf[s], rf'[s])
<1>1. ASSUME RaftInv, RaftInv', GaplessInv, LeadInv, CommitInv, Next, CleanHistory', NEW s \in Server,
             used'.restarts = used.restarts
      PROVE  KeepsCommitted(rf[s], rf'[s])
  <2>1. \A p \in Server : ~Restart(p)
    <3>1. \A p \in Server : Restart(p) => used'.restarts = used.restarts + 1 /\ used.restarts \in Nat
      BY <1>1, UsesCount
    <3>. QED
      BY <1>1, <3>1
  <2>2. Forward(s)
    BY <1>1, <2>1, NextOnward DEF Onward
  <2>3. PICK w \in Seq(LogEntry), v \in Seq(LogEntry) :
            /\ Whole(rf[s], w) /\ Whole(rf'[s], v)
            /\ rf[s].commitIndex + 1 <= Len(v) /\ SameUpTo(v, w, rf[s].commitIndex + 1)
    BY <2>2 DEF Forward
  <2>4. PICK g \in RaftState, h \in RaftState : g = rf[s] /\ h = rf'[s]
    BY <1>1, PeerIn, PeerInNext
  <2>5. /\ Whole(g, w) /\ Whole(h, v) /\ g.commitIndex \in Int /\ Len(v) \in Nat
        /\ g.commitIndex + 1 <= Len(v) /\ SameUpTo(v, w, g.commitIndex + 1)
        /\ h.snapshotIndex \in Int
    BY <1>1, <2>3, <2>4, PeerIn, WholeTail
  <2>6. ASSUME NEW x \in DOMAIN g.log, g.log[x].Index <= g.commitIndex
        PROVE  g.log[x].Index <= h.snapshotIndex \/ \E y \in DOMAIN h.log : h.log[y] = g.log[x]
    <3>. DEFINE k == g.log[x].Index + 1
    <3>1. g.log[x] = w[k] /\ g.log[x].Index \in Nat
      BY <2>5, TailAt
    <3>2. k \in 1..(g.commitIndex + 1) /\ k \in DOMAIN v
      BY <2>5, <2>6, <3>1
    <3>3. v[k] = g.log[x]
      BY <2>5, <3>1, <3>2 DEF SameUpTo
    <3>4. CASE h.snapshotIndex + 1 < k
      <4>. HIDE DEF k
      <4>. QED
        BY <2>5, <3>2, <3>3, <3>4, TailHas
    <3>5. CASE ~(h.snapshotIndex + 1 < k)
      BY <2>5, <3>1, <3>5
    <3>. QED
      BY <3>4, <3>5
  <2>7. h.commitIndex >= g.commitIndex
    <3>1. rf[s].commitIndex <= rf'[s].commitIndex
      BY <2>2 DEF Forward
    <3>2. rf[s].commitIndex \in Int /\ rf'[s].commitIndex \in Int
      BY <1>1, PeerIn, PeerInNext
    <3>. QED
      BY <2>4, <3>1, <3>2
  <2>8. KeepsCommitted(g, h)
    BY <2>6, <2>7 DEF KeepsCommitted
  <2>. QED
    BY <2>4, <2>8
<1>2. /\ RaftInv /\ RaftInv' /\ GaplessInv /\ LeadInv /\ CommitInv /\ [Next]_vars
      => [Kept]_vars
  BY <1>1
<1>. QED
  BY <1>2, RaftInvariant, GaplessInvariant, LeadInvariant, CommitInvariant, PTL DEF Spec, CommittedStays

-----------------------------------------------------------------------------
(* One agreed log *)

\* Of finitely many services one is furthest.
LEMMA FurthestOf ==
    ASSUME NEW f \in [Server -> Seq(Command)], Server # {}
    PROVE  \E s \in Server : \A p \in Server : Len(f[p]) <= Len(f[s])
<1>. DEFINE Top(U) == \E s \in U : \A p \in U : Len(f[p]) <= Len(f[s])
            sizes == {Cardinality(U) : U \in {V \in SUBSET Server : V # {} /\ ~Top(V)}}
<1>1. \A U \in SUBSET Server : IsFiniteSet(U) /\ Cardinality(U) \in Nat
  BY ServerAssumption, FS_Subset, FS_CardinalityType
<1>2. \A s \in Server : Len(f[s]) \in Nat
  OBVIOUS
<1>3. sizes = {}
  <2>. SUFFICES ASSUME sizes # {} PROVE FALSE
    OBVIOUS
  <2>1. sizes \in SUBSET Nat
    BY <1>1
  <2>2. First(sizes) \in sizes /\ \A n \in sizes : First(sizes) <= n
    BY <2>1, FirstIn
  <2>3. PICK U \in SUBSET Server : U # {} /\ ~Top(U) /\ First(sizes) = Cardinality(U)
    BY <2>2
  <2>4. PICK u \in U : TRUE
    BY <2>3
  <2>. DEFINE V == U \ {u}
  <2>5. V \in SUBSET Server /\ Cardinality(V) = Cardinality(U) - 1
    BY <1>1, <2>4, FS_RemoveElement
  <2>6. V = {} \/ Top(V)
    <3>. SUFFICES ASSUME V # {}, ~Top(V) PROVE FALSE
      OBVIOUS
    <3>1. Cardinality(V) \in sizes
      BY <2>5
    <3>2. Cardinality(U) <= Cardinality(V)
      BY <2>2, <2>3, <3>1
    <3>3. Cardinality(U) \in Nat
      BY <1>1
    <3>. QED
      BY <2>5, <3>2, <3>3
  <2>7. CASE V = {}
    BY <1>2, <2>3, <2>4, <2>7
  <2>8. CASE Top(V)
    <3>1. PICK v \in V : \A p \in V : Len(f[p]) <= Len(f[v])
      BY <2>8
    <3>2. CASE Len(f[u]) <= Len(f[v])
      BY <2>3, <3>1, <3>2
    <3>3. CASE Len(f[v]) <= Len(f[u])
      <4>1. \A p \in U : Len(f[p]) <= Len(f[u])
        BY <1>2, <3>1, <3>3
      <4>. QED
        BY <2>3, <4>1
    <3>. QED
      BY <1>2, <3>2, <3>3
  <2>. QED
    BY <2>6, <2>7, <2>8
<1>4. Top(Server)
  <2>. HIDE DEF Top
  <2>1. ~Top(Server) => Cardinality(Server) \in sizes
    OBVIOUS
  <2>. QED
    BY <1>3, <2>1
<1>. QED
  BY <1>4

\* What is furthest is what some service has, and no service has more.
LEMMA FurthestIn ==
    ASSUME RaftInv, Server # {}
    PROVE  \E s \in Server : Furthest = service[s] /\ \A p \in Server : Len(service[p]) <= Len(service[s])
<1>1. service \in [Server -> Seq(Command)]
  BY DEF RaftInv, NodeInv
<1>2. PICK s \in Server : \A p \in Server : Len(service[p]) <= Len(service[s])
  BY <1>1, FurthestOf
<1>. DEFINE of == {service[p] : p \in Server}
<1>3. service[s] \in of /\ \A y \in of : Len(y) <= Len(service[s])
  BY <1>2
<1>4. Furthest \in of /\ \A y \in of : Len(y) <= Len(Furthest)
  BY <1>3 DEF Furthest
<1>. QED
  BY <1>4

\* The same after a step.
LEMMA FurthestInNext ==
    ASSUME RaftInv', Server # {}
    PROVE  \E s \in Server : /\ Furthest' = service'[s]
                             /\ \A p \in Server : Len(service'[p]) <= Len(service'[s])
<1>1. service' \in [Server -> Seq(Command)]
  BY DEF RaftInv, NodeInv
<1>2. PICK s \in Server : \A p \in Server : Len(service'[p]) <= Len(service'[s])
  BY <1>1, FurthestOf
<1>. DEFINE of == {service'[p] : p \in Server}
<1>3. service'[s] \in of /\ \A y \in of : Len(y) <= Len(service'[s])
  BY <1>2
<1>4. Furthest' \in of /\ \A y \in of : Len(y) <= Len(Furthest')
  BY <1>3 DEF Furthest
<1>. QED
  BY <1>4

\* Beginning of a sequence of commands, as AgreedLog writes it.
LEMMA BeginsAsSubSeq ==
    ASSUME NEW a \in Seq(Command), NEW b \in Seq(Command), Len(a) <= Len(b),
           \A i \in 1..Len(a) : a[i] = b[i]
    PROVE  Agreement!Begins(a, b)
<1>1. Len(a) \in Nat /\ Len(b) \in Nat
  OBVIOUS
<1>2. /\ SubSeq(b, 1, Len(a)) \in Seq(Command) /\ Len(SubSeq(b, 1, Len(a))) = Len(a)
      /\ \A i \in 1..Len(a) : SubSeq(b, 1, Len(a))[i] = b[i]
  BY <1>1, SubSeqProperties
<1>3. a = SubSeq(b, 1, Len(a))
  BY <1>2, SeqEqual
<1>. QED
  BY <1>3 DEF Agreement!Begins

\* The history is clean and no service has taken a snapshot.
Plain == CleanHistory /\ used.snapshots = 0

\* Before the first snapshot the log is all there is.
LEMMA AllInLog ==
    ASSUME NEW g \in RaftState, NEW w \in Seq(LogEntry), Whole(g, w), g.snapshotIndex = -1
    PROVE  w = g.log
<1>1. /\ g.log \in Seq(LogEntry) /\ Len(g.log) \in Nat /\ Len(w) \in Nat
      /\ Len(w) = g.snapshotIndex + 1 + Len(g.log)
      /\ \A i \in 1..Len(g.log) : g.log[i] = w[g.snapshotIndex + 1 + i]
  BY WholeTail
<1>2. Len(w) = Len(g.log)
  BY <1>1
<1>3. \A i \in 1..Len(g.log) : g.log[i] = w[i]
  <2>1. \A i \in 1..Len(g.log) : g.snapshotIndex + 1 + i = i
    BY <1>1
  <2>. QED
    BY <1>1, <2>1
<1>. QED
  BY <1>1, <1>2, <1>3, SeqEqual

\* And what the service has applied is the beginning of the log.
LEMMA PlainApplied ==
    ASSUME RaftInv, LeadInv, CommitInv, Plain, NEW p \in Server
    PROVE  Applied(service[p], rf[p].log, rf[p].commitIndex + 1)
<1>1. PICK L, A, W : Chronicle(L, A, W) /\ AppliedIsCommitted(W)
  BY DEF CommitInv, Plain
<1>2. W[p] \in Seq(LogEntry) /\ Whole(rf[p], W[p]) /\ Applied(service[p], W[p], rf[p].commitIndex + 1)
  BY <1>1 DEF Chronicle, WholeLogs, AppliedIsCommitted
<1>3. rf[p] \in RaftState /\ rf[p].snapshotIndex = -1
  BY PeerIn DEF LeadInv, NoSnapshotYet, Plain
<1>4. W[p] = rf[p].log
  BY <1>2, <1>3, AllInLog
<1>. QED
  BY <1>2, <1>4

\* The same after a step.
LEMMA PlainAppliedNext ==
    ASSUME RaftInv', LeadInv', CommitInv', Plain', NEW p \in Server
    PROVE  Applied(service'[p], rf'[p].log, rf'[p].commitIndex + 1)
<1>1. PICK L, A, W : Chronicle(L, A, W)' /\ AppliedIsCommitted(W)'
  BY DEF CommitInv, Plain
<1>2. W[p] \in Seq(LogEntry) /\ Whole(rf'[p], W[p]) /\ Applied(service'[p], W[p], rf'[p].commitIndex + 1)
  BY <1>1 DEF Chronicle, WholeLogs, AppliedIsCommitted
<1>3. rf'[p] \in RaftState /\ rf'[p].snapshotIndex = -1
  BY PeerInNext DEF LeadInv, NoSnapshotYet, Plain
<1>4. W[p] = rf'[p].log
  BY <1>2, <1>3, AllInLog
<1>. QED
  BY <1>2, <1>4

\* A service only adds to what it has applied.
LEMMA ServiceGrows ==
    ASSUME RaftInv, RaftInv', LeadInv, LeadInv', CommitInv, CommitInv', Plain, Plain',
           NEW p \in Server, Forward(p)
    PROVE  /\ Len(service[p]) <= Len(service'[p])
           /\ \A i \in 1..Len(service[p]) : service[p][i] = service'[p][i]
<1>1. /\ Len(service[p]) \in Nat /\ Len(service'[p]) \in Nat /\ rf[p].commitIndex \in Int
      /\ Len(service[p]) <= Len(service'[p])
  BY PeerIn, PeerInNext DEF Forward, Plain
<1>2. PICK w \in Seq(LogEntry), v \in Seq(LogEntry) :
          Whole(rf[p], w) /\ Whole(rf'[p], v) /\ SameUpTo(v, w, rf[p].commitIndex + 1)
  BY DEF Forward
<1>3. /\ rf[p] \in RaftState /\ rf[p].snapshotIndex = -1
      /\ rf'[p] \in RaftState /\ rf'[p].snapshotIndex = -1
  BY PeerIn, PeerInNext DEF LeadInv, NoSnapshotYet, Plain
<1>4. w = rf[p].log /\ v = rf'[p].log
  BY <1>2, <1>3, AllInLog
<1>5. /\ Len(service[p]) <= rf[p].commitIndex + 1
      /\ \A i \in 1..Len(service[p]) : service[p][i] = w[i].Command
  BY <1>4, PlainApplied DEF Applied
<1>6. \A i \in 1..Len(service'[p]) : service'[p][i] = v[i].Command
  BY <1>4, PlainAppliedNext DEF Applied
<1>7. ASSUME NEW i \in 1..Len(service[p]) PROVE service[p][i] = service'[p][i]
  <2>1. i \in 1..(rf[p].commitIndex + 1) /\ i \in 1..Len(service'[p])
    BY <1>1, <1>5
  <2>. QED
    BY <1>2, <1>5, <1>6, <2>1 DEF SameUpTo
<1>. QED
  BY <1>1, <1>7

\* A step forward is a step of the agreed log, or none.
LEMMA OnwardAgrees ==
    ASSUME RaftInv, RaftInv', LeadInv, LeadInv', CommitInv, CommitInv', Plain, Plain',
           StateMachineSafety', Onward,
           Server # {}
    PROVE  Agreement!Next \/ UNCHANGED <<Furthest, service>>
<1>1. CASE service' = service
  BY <1>1 DEF Furthest
<1>2. ASSUME NEW s \in Server, \A p \in Server \ {s} : service'[p] = service[p]
      PROVE  Agreement!Next
  <2>1. \A p \in Server : service[p] \in Seq(Command) /\ service'[p] \in Seq(Command)
    BY PeerIn, PeerInNext
  <2>2. \A p \in Server : /\ Len(service[p]) <= Len(service'[p])
                          /\ \A i \in 1..Len(service[p]) : service[p][i] = service'[p][i]
    BY ServiceGrows DEF Onward
  <2>3. PICK a \in Server : Furthest = service[a] /\ \A p \in Server : Len(service[p]) <= Len(service[a])
    BY FurthestIn
  <2>4. PICK b \in Server : Furthest' = service'[b] /\ \A p \in Server : Len(service'[p]) <= Len(service'[b])
    BY FurthestInNext
  <2>5. \A p \in Server : \A i \in 1..Len(service'[p]) : service'[p][i] = service'[b][i]
    <3>. SUFFICES ASSUME NEW p \in Server, NEW i \in 1..Len(service'[p])
                  PROVE  service'[p][i] = service'[b][i]
      OBVIOUS
    <3>1. Len(service'[p]) \in Nat /\ Len(service'[b]) \in Nat /\ Len(service'[p]) <= Len(service'[b])
      BY <2>1, <2>4
    <3>2. i \in 1..Smaller(Len(service'[p]), Len(service'[b]))
      BY <3>1 DEF Smaller
    <3>. QED
      BY <3>2 DEF StateMachineSafety
  <2>6. Agreement!Begins(service[s], service'[s])
    BY <2>1, <2>2, BeginsAsSubSeq
  <2>7. Agreement!Begins(service'[s], Furthest')
    BY <2>1, <2>4, <2>5, BeginsAsSubSeq
  <2>8. Agreement!Begins(Furthest, Furthest')
    <3>1. Len(service[a]) \in Nat /\ Len(service'[a]) \in Nat /\ Len(service'[b]) \in Nat
      BY <2>1
    <3>2. Len(service[a]) <= Len(service'[b])
      BY <2>2, <2>4, <3>1
    <3>3. \A i \in 1..Len(service[a]) : service[a][i] = service'[b][i]
      BY <2>2, <2>5, <3>1
    <3>. QED
      BY <2>1, <2>3, <2>4, <3>2, <3>3, BeginsAsSubSeq
  <2>. QED
    BY <1>2, <2>6, <2>7, <2>8 DEF Agreement!Next, Agreement!Apply
<1>. QED
  BY <1>1, <1>2 DEF Onward

(***************************************************************************)
(* Refinement: while nobody restarts or takes a snapshot, and the history  *)
(* has none of the known races, the peers, their elections, retries and    *)
(* lost calls implement one agreed log that each service applies in order. *)
(***************************************************************************)
THEOREM PeersKeepOneLog ==
    ASSUME Server # {}
    PROVE  Spec /\ [](CleanHistory /\ used.snapshots = 0 /\ used.restarts = 0) => ImplementsAgreedLog
<1>. DEFINE Quiet == CleanHistory /\ used.snapshots = 0 /\ used.restarts = 0
<1>1. Init => Agreement!Init
  <2>. SUFFICES ASSUME Init PROVE Furthest = <<>> /\ service = [s \in Server |-> <<>>]
    BY DEF Agreement!Init
  <2>1. service = [s \in Server |-> <<>>]
    BY DEF Init, Booted, NewDisk
  <2>2. {service[s] : s \in Server} = {<<>>}
    BY <2>1
  <2>3. \A x, y \in {<<>>} : Len(y) <= Len(x)
    BY EmptySeq
  <2>. QED
    BY <2>1, <2>2, <2>3 DEF Furthest
<1>2. ASSUME RaftInv, RaftInv', GaplessInv, LeadInv, LeadInv', CommitInv, CommitInv',
             (CleanHistory => StateMachineSafety)', Quiet, Quiet', [Next]_vars
      PROVE  Agreement!Next \/ UNCHANGED <<Furthest, service>>
  <2>1. Plain /\ Plain' /\ StateMachineSafety'
    BY <1>2 DEF Plain
  <2>2. CASE Next
    <3>1. \A s \in Server : ~Restart(s)
      <4>1. \A s \in Server : Restart(s) => used'.restarts = used.restarts + 1 /\ used.restarts \in Nat
        BY <1>2, <2>2, UsesCount
      <4>. QED
        BY <1>2, <4>1
    <3>2. Onward
      BY <1>2, <2>1, <2>2, <3>1, NextOnward
    <3>. QED
      BY <1>2, <2>1, <3>2, OnwardAgrees
  <2>3. CASE UNCHANGED vars
    BY <2>3 DEF vars, node, Furthest
  <2>. QED
    BY <1>2, <2>2, <2>3
<1>3. /\ RaftInv /\ RaftInv' /\ GaplessInv /\ LeadInv /\ LeadInv'
      /\ CommitInv /\ CommitInv' /\ (CleanHistory => StateMachineSafety)'
      /\ Quiet /\ Quiet' /\ [Next]_vars
      => [Agreement!Next]_<<Furthest, service>>
  BY <1>2
<1>. QED
  BY <1>1, <1>3, RaftInvariant, GaplessInvariant, LeadInvariant, CommitInvariant, ServicesAgree, PTL
     DEF Spec, ImplementsAgreedLog, Agreement!Spec

-----------------------------------------------------------------------------
(* Entries of the term that lasts *)

\* What s has of its own term is still there after the step.
KeepsOwnTerm(s) ==
    rf'[s].currentTerm = rf[s].currentTerm =>
        \A x \in DOMAIN rf[s].log :
            rf[s].log[x].Term = rf[s].currentTerm =>
                Holds(rf'[s], rf[s].log[x].Index + 1, rf[s].log[x].Command)

\* Going forward a peer keeps what it has of its own term.
LEMMA ForwardKeepsOwnTerm ==
    ASSUME RaftInv, RaftInv', NEW s \in Server, Forward(s)
    PROVE  KeepsOwnTerm(s)
<1>. SUFFICES ASSUME rf'[s].currentTerm = rf[s].currentTerm, NEW x \in DOMAIN rf[s].log,
                     rf[s].log[x].Term = rf[s].currentTerm
              PROVE  Holds(rf'[s], rf[s].log[x].Index + 1, rf[s].log[x].Command)
  BY DEF KeepsOwnTerm
<1>1. PICK w \in Seq(LogEntry), v \in Seq(LogEntry) :
          Whole(rf[s], w) /\ Whole(rf'[s], v) /\ KeepsTerm(w, v, rf[s].currentTerm)
  BY DEF Forward
<1>2. PICK g \in RaftState, h \in RaftState : g = rf[s] /\ h = rf'[s]
  BY PeerIn, PeerInNext
<1>3. Len(h.snapshot) = h.snapshotIndex + 1
  <2>1. SnapshotCoversIndex'
    BY RaftInvImplies, PTL
  <2>. QED
    BY <1>2, <2>1 DEF SnapshotCoversIndex
<1>4. Whole(g, w) /\ Whole(h, v) /\ KeepsTerm(w, v, g.currentTerm) /\ x \in DOMAIN g.log
      /\ g.log[x].Term = g.currentTerm
  BY <1>1, <1>2
<1>5. PICK k \in DOMAIN w : k = g.log[x].Index + 1 /\ g.log[x] = w[k]
  BY <1>4, TailAt
<1>6. k \in DOMAIN v /\ v[k] = g.log[x]
  BY <1>4, <1>5 DEF KeepsTerm
<1>7. Holds(h, k, v[k].Command)
  BY <1>3, <1>4, <1>6, WholeHolds
<1>. QED
  BY <1>2, <1>5, <1>6, <1>7

\* A restart reads back the log and the snapshot that persist() saved.
LEMMA RestartKeepsOwnTerm ==
    ASSUME RaftInv, GaplessInv, CommitInv, CleanHistory, NEW s \in Server, Restart(s), NEW p \in Server
    PROVE  KeepsOwnTerm(p)
<1>1. rf'[p].log = rf[p].log
  <2>1. rf \in [Server -> RaftState] /\ Durable(disk[s], rf[s])
    BY DEF RaftInv, NodeInv, DurableState
  <2>. QED
    BY <2>1, PeerIn DEF Restart, Booted
<1>2. PICK L, A, W : Chronicle(L, A, W)
  BY DEF CommitInv
<1>3. W[p] \in Seq(LogEntry) /\ Whole(rf[p], W[p]) /\ rf[p] \in RaftState
  BY <1>2, PeerIn DEF Chronicle, WholeLogs
<1>4. PICK w \in Seq(LogEntry) : Whole(rf[p], w)
  BY <1>3
<1>5. ASSUME NEW x \in DOMAIN rf[p].log PROVE Holds(rf'[p], rf[p].log[x].Index + 1, rf[p].log[x].Command)
  <2>1. rf[p].log[x].Index \in Nat
    BY <1>3, <1>4, TailAt
  <2>2. rf[p].log[x].Index = (rf[p].log[x].Index + 1) - 1
    BY <2>1
  <2>. QED
    BY <1>1, <2>2 DEF Holds
<1>. QED
  BY <1>5 DEF KeepsOwnTerm

(***************************************************************************)
(* While a term lasts, no peer loses an entry of it, whatever late or      *)
(* repeated request of its leader arrives: followerHandleLog cuts the log  *)
(* only at an entry of another term, and a snapshot that replaces entries  *)
(* has their commands.                                                     *)
(***************************************************************************)
THEOREM OwnTermIsKept == Spec /\ []CleanHistory => OnlyOverlaysDropEntries
<1>. DEFINE Kept == \A s \in Server : rf'[s].currentTerm = rf[s].currentTerm =>
                        \/ s \in overlaid'
                        \/ \A x \in DOMAIN rf[s].log : LET e == rf[s].log[x] IN
                             e.Term = rf[s].currentTerm => Holds(rf'[s], e.Index + 1, e.Command)
<1>1. ASSUME RaftInv, RaftInv', GaplessInv, LeadInv, CommitInv, CleanHistory', Next
      PROVE  Kept
  <2>1. CleanHistory
    BY <1>1, CleanNeverReturns
  <2>2. ASSUME NEW s \in Server, Restart(s) PROVE \A p \in Server : KeepsOwnTerm(p)
    BY <1>1, <2>1, <2>2, RestartKeepsOwnTerm
  <2>3. CASE \A s \in Server : ~Restart(s)
    <3>1. \A p \in Server : Forward(p)
      BY <1>1, <2>3, NextOnward DEF Onward
    <3>2. \A p \in Server : KeepsOwnTerm(p)
      BY <1>1, <3>1, ForwardKeepsOwnTerm
    <3>. QED
      BY <3>2 DEF KeepsOwnTerm
  <2>. QED
    BY <2>2, <2>3 DEF KeepsOwnTerm
<1>2. /\ RaftInv /\ RaftInv' /\ GaplessInv /\ LeadInv /\ CommitInv /\ CleanHistory' /\ [Next]_vars
      => [Kept]_vars
  BY <1>1
<1>. QED
  BY <1>2, RaftInvariant, GaplessInvariant, LeadInvariant, CommitInvariant, PTL
     DEF Spec, OnlyOverlaysDropEntries
=============================================================================
