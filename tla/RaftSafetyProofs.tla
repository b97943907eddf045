-------------------------- MODULE RaftSafetyProofs --------------------------
(***************************************************************************)
(* Proofs about the logs of the Raft peers, for any number of servers,     *)
(* commands, crashes and lost, late or repeated calls.  A log starts right *)
(* after its snapshot and has no gaps, so that Make never finds an entry   *)
(* its snapshot covers; and as long as one server has led, in one term,    *)
(* nobody panics, with snapshots or without.                               *)
(***************************************************************************)
EXTENDS RaftElectionProofs

\* The entries of log come right after index n, without gaps.
Follows(log, n) == \A i \in DOMAIN log : log[i].Index = n + i

\* The log of g starts right after its snapshot.
Gapless(g) == Follows(g.log, g.snapshotIndex)

-----------------------------------------------------------------------------
(* Slices and concatenations of logs without gaps *)

\* A slice of a log without gaps has none.
LEMMA SliceFollows ==
    ASSUME NEW log \in Seq(LogEntry), NEW n \in Int, Follows(log, n),
           NEW a \in Nat \ {0}, NEW b \in Int, b <= Len(log)
    PROVE  Follows(SubSeq(log, a, b), n + a - 1)
<1>. DEFINE part == SubSeq(log, a, b)
<1>1. part \in Seq(LogEntry)
  BY SliceIn
<1>2. \A i \in DOMAIN part : i \in Nat /\ a + i - 1 \in DOMAIN log /\ part[i] = log[a + i - 1]
  BY SubSeqProperties
<1>. HIDE DEF part
<1>3. ASSUME NEW i \in DOMAIN part PROVE part[i].Index = (n + a - 1) + i
  <2>1. i \in Nat /\ a + i - 1 \in DOMAIN log /\ part[i] = log[a + i - 1]
    BY <1>2
  <2>2. log[a + i - 1].Index = n + (a + i - 1)
    BY <2>1 DEF Follows
  <2>. QED
    BY <2>1, <2>2
<1>. QED
  BY <1>3 DEF Follows, part

\* Two logs without gaps of which the second follows the first.
LEMMA ConcatFollows ==
    ASSUME NEW a \in Seq(LogEntry), NEW b \in Seq(LogEntry), NEW n \in Int,
           Follows(a, n), Follows(b, n + Len(a))
    PROVE  Follows(a \o b, n)
<1>1. /\ Len(a \o b) = Len(a) + Len(b) /\ DOMAIN (a \o b) = 1..Len(a \o b)
      /\ \A i \in 1..(Len(a) + Len(b)) :
            (a \o b)[i] = IF i <= Len(a) THEN a[i] ELSE b[i - Len(a)]
  BY ConcatProperties
<1>2. ASSUME NEW i \in DOMAIN (a \o b) PROVE (a \o b)[i].Index = n + i
  <2>1. CASE i <= Len(a)
    BY <1>1, <2>1 DEF Follows
  <2>2. CASE i > Len(a)
    <3>1. i - Len(a) \in DOMAIN b /\ (a \o b)[i] = b[i - Len(a)]
      BY <1>1, <2>2
    <3>2. b[i - Len(a)].Index = (n + Len(a)) + (i - Len(a))
      BY <3>1 DEF Follows
    <3>. QED
      BY <1>1, <3>1, <3>2
  <2>. QED
    BY <1>1, <2>1, <2>2
<1>. QED
  BY <1>2 DEF Follows

\* In a log without gaps findIndex is arithmetic.
LEMMA FindFollows ==
    ASSUME NEW log \in Seq(LogEntry), NEW n \in Int, Follows(log, n), NEW target \in Int
    PROVE  /\ FindIndex(log, target) # 0 => FindIndex(log, target) = target - n
           /\ FindIndex(log, target) # 0 <=> n < target /\ target <= n + Len(log)
<1>. DEFINE hits == {p \in DOMAIN log : log[p].Index = target}
<1>1. \A p \in DOMAIN log : p \in hits <=> p = target - n
  BY DEF Follows
<1>2. FindIndex(log, target) \in 0..Len(log)
      /\ (FindIndex(log, target) # 0 => FindIndex(log, target) \in hits)
  BY FindIndexIn
<1>3. ASSUME n < target, target <= n + Len(log) PROVE FindIndex(log, target) # 0
  <2>1. target - n \in hits /\ hits \in SUBSET Nat
    BY <1>1, <1>3
  <2>2. First(hits) \in hits
    BY <2>1, FirstIn
  <2>. QED
    BY <2>1, <2>2 DEF FindIndex
<1>. HIDE DEF hits
<1>4. FindIndex(log, target) # 0 => FindIndex(log, target) = target - n
  BY <1>1, <1>2
<1>. QED
  BY <1>2, <1>3, <1>4

-----------------------------------------------------------------------------
(* What the handlers do to a log without gaps *)

\* Merging entries that follow the matched position, or none.
LEMMA MergeFollows ==
    ASSUME NEW log \in Seq(LogEntry), NEW entries \in Seq(LogEntry), NEW at \in 0..Len(log),
           NEW n \in Int, Follows(log, n), entries = <<>> \/ Follows(entries, n + at)
    PROVE  Follows(MergeEntries(log, at, entries), n)
<1>. DEFINE differ == {i \in DOMAIN entries :
                         at + i <= Len(log) /\ log[at + i].Term # entries[i].Term}
<1>0. Follows(entries, n + at)
  BY DEF Follows
<1>1. ASSUME NEW k \in Nat, k <= Len(log), NEW m \in Nat \ {0}, m <= Len(entries) + 1, k = at + m - 1
      PROVE  Follows(SubSeq(log, 1, k) \o SubSeq(entries, m, Len(entries)), n)
  <2>1. SubSeq(log, 1, k) \in Seq(LogEntry) /\ Len(SubSeq(log, 1, k)) = k
    BY <1>1, SliceIn, SubSeqProperties
  <2>2. SubSeq(entries, m, Len(entries)) \in Seq(LogEntry)
    BY <1>1, SliceIn
  <2>3. Follows(SubSeq(log, 1, k), n + 1 - 1)
    BY <1>1, SliceFollows
  <2>4. Follows(SubSeq(entries, m, Len(entries)), (n + at) + m - 1)
    BY <1>0, <1>1, SliceFollows
  <2>5. n + 1 - 1 = n /\ (n + at) + m - 1 = n + k
    BY <1>1
  <2>. QED
    BY <2>1, <2>2, <2>3, <2>4, <2>5, ConcatFollows
<1>2. Follows(SubSeq(log, 1, at) \o entries, n)
  <2>1. SubSeq(log, 1, at) \in Seq(LogEntry) /\ Len(SubSeq(log, 1, at)) = at
    BY SliceIn, SubSeqProperties
  <2>2. Follows(SubSeq(log, 1, at), n + 1 - 1) /\ n + 1 - 1 = n
    BY SliceFollows
  <2>. QED
    BY <1>0, <2>1, <2>2, ConcatFollows
<1>3. CASE differ # {}
  <2>1. differ \in SUBSET Nat
    OBVIOUS
  <2>2. First(differ) \in differ
    BY <1>3, <2>1, FirstIn
  <2>. DEFINE m == First(differ)
              k == at + m - 1
  <2>3. m \in Nat \ {0} /\ m <= Len(entries) + 1 /\ k \in Nat /\ k <= Len(log)
    BY <2>2
  <2>. HIDE DEF m, k
  <2>4. Follows(SubSeq(log, 1, k) \o SubSeq(entries, m, Len(entries)), n)
    BY <1>1, <2>3 DEF k
  <2>. QED
    BY <1>2, <2>4 DEF MergeEntries, k, m
<1>4. CASE differ = {}
  BY <1>2, <1>4 DEF MergeEntries
<1>. QED
  BY <1>3, <1>4

\* The entries that are kept behind a snapshot follow it.
LEMMA MergeBehindFollows ==
    ASSUME NEW log \in Seq(LogEntry), NEW entries \in Seq(LogEntry), NEW n \in Int,
           NEW prev \in Int, Follows(log, n), Follows(entries, prev)
    PROVE  Follows(MergeBehindSnapshot(log, n, entries), n)
<1>. DEFINE from == FindIndex(entries, n + 1)
<1>1. from \in 0..Len(entries)
  BY FindIndexIn
<1>2. from # 0 => from = n + 1 - prev
  BY FindFollows
<1>3. ASSUME from # 0 PROVE Follows(SubSeq(entries, from, Len(entries)), n)
  <2>1. from \in Nat \ {0} /\ from = n + 1 - prev
    BY <1>1, <1>2, <1>3
  <2>. HIDE DEF from
  <2>2. Follows(SubSeq(entries, from, Len(entries)), prev + from - 1)
    BY <2>1, SliceFollows
  <2>3. prev + from - 1 = n
    BY <2>1
  <2>. QED
    BY <2>2, <2>3
<1>. QED
  BY <1>3 DEF MergeBehindSnapshot

\* followerHandleLog leaves no gap, unless the request overlays a snapshot.
LEMMA FollowerHandleLogFollows ==
    ASSUME NEW log \in Seq(LogEntry), NEW n \in LogIndex, NEW args,
           args.PrevLogIndex \in Int, args.Entries \in Seq(LogEntry),
           Follows(log, n), Follows(args.Entries, args.PrevLogIndex),
           args.PrevLogIndex = -1 => args.Entries = <<>> \/ n = -1
    PROVE  Follows(FollowerHandleLog(log, n, args).log, n)
<1>. DEFINE prev == args.PrevLogIndex
            at   == FindIndex(log, prev)
            fromHere == MergeEntries(log, at, args.Entries)
            behind   == MergeBehindSnapshot(log, n, args.Entries)
<1>1. n \in Int /\ at \in 0..Len(log) /\ (at # 0 => at = prev - n /\ n < prev)
  <2>1. n \in Int /\ prev \in Int
    BY DEF LogIndex
  <2>2. at \in 0..Len(log)
    BY FindIndexIn
  <2>. HIDE DEF prev
  <2>. QED
    BY <2>1, <2>2, FindFollows
<1>2. \/ FollowerHandleLog(log, n, args).log \in {log, SubSeq(log, 1, at - 1), behind}
      \/ (at # 0 \/ prev = -1) /\ FollowerHandleLog(log, n, args).log = fromHere
  BY DEF FollowerHandleLog, Answer
<1>3. Follows(SubSeq(log, 1, at - 1), n)
  <2>1. Follows(SubSeq(log, 1, at - 1), n + 1 - 1)
    BY <1>1, SliceFollows
  <2>. QED
    BY <1>1, <2>1
<1>4. Follows(behind, n)
  BY <1>1, MergeBehindFollows
<1>5. ASSUME at # 0 \/ prev = -1 PROVE Follows(fromHere, n)
  <2>1. args.Entries = <<>> \/ prev = n + at
    BY <1>1, <1>5 DEF LogIndex
  <2>. HIDE DEF at
  <2>. QED
    BY <1>1, <2>1, MergeFollows
<1>. HIDE DEF at, fromHere, behind, prev
<1>. QED
  BY <1>2, <1>3, <1>4, <1>5

\* The entries a leader sends follow the index it probes.
LEMMA SendFollows ==
    ASSUME NEW log \in Seq(LogEntry), NEW n \in LogIndex, NEW prev \in Int,
           prev >= n, CanSend(log, n, prev), Follows(log, n)
    PROVE  Follows(EntriesAfter(log, n, prev), prev)
<1>1. CASE prev = n
  BY <1>1 DEF EntriesAfter
<1>2. CASE prev # n
  <2>. DEFINE at == FindIndex(log, prev)
  <2>1. n \in Int /\ at # 0
    BY <1>2 DEF CanSend, LogIndex
  <2>2. at \in 0..Len(log) /\ at = prev - n
    BY <2>1, FindIndexIn, FindFollows
  <2>. HIDE DEF at
  <2>3. Follows(SubSeq(log, at + 1, Len(log)), n + (at + 1) - 1)
    BY <2>1, <2>2, SliceFollows
  <2>4. n + (at + 1) - 1 = prev
    BY <2>1, <2>2
  <2>. QED
    BY <1>2, <2>3, <2>4 DEF EntriesAfter, at
<1>. QED
  BY <1>1, <1>2

\* Start appends after the last index.
LEMMA WithCommandFollows ==
    ASSUME NEW g \in RaftState, NEW s \in Server, NEW command \in Command, Gapless(g)
    PROVE  Gapless(WithCommand(g, s, command))
<1>. DEFINE index == LastIndex(g) + 1
            entry == [Term |-> g.currentTerm, Index |-> index, Command |-> command]
            h     == WithCommand(g, s, command)
<1>1. g.log \in Seq(LogEntry) /\ g.snapshotIndex \in Int
  BY DEF RaftState, LogIndex
<1>2. index = g.snapshotIndex + Len(g.log) + 1
  <2>1. CASE g.log = <<>>
    BY <1>1, <2>1 DEF LastIndex, LastLogIndex
  <2>2. CASE g.log # <<>>
    <3>1. Len(g.log) \in DOMAIN g.log
      BY <1>1, <2>2, EmptySeq
    <3>. QED
      BY <1>1, <2>2, <3>1 DEF LastIndex, LastLogIndex, Gapless, Follows
  <2>. QED
    BY <2>1, <2>2
<1>3. h.log = Append(g.log, entry) /\ h.snapshotIndex = g.snapshotIndex
  BY DEF WithCommand, RaftState
<1>4. entry.Index = index
  OBVIOUS
<1>. HIDE DEF entry, index, h
<1>5. /\ Len(Append(g.log, entry)) = Len(g.log) + 1
      /\ DOMAIN Append(g.log, entry) = 1..(Len(g.log) + 1)
      /\ \A i \in 1..Len(g.log) : Append(g.log, entry)[i] = g.log[i]
      /\ Append(g.log, entry)[Len(g.log) + 1] = entry
  BY <1>1
<1>6. \A i \in 1..Len(g.log) : g.log[i].Index = g.snapshotIndex + i
  BY <1>1 DEF Gapless, Follows
<1>7. ASSUME NEW i \in DOMAIN h.log PROVE h.log[i].Index = h.snapshotIndex + i
  BY <1>1, <1>2, <1>3, <1>4, <1>5, <1>6, <1>7
<1>. QED
  BY <1>7 DEF Gapless, Follows, h

\* Compacting the log up to an entry makes that entry the snapshot's end.
LEMMA CompactedFollows ==
    ASSUME NEW g \in RaftState, NEW at \in DOMAIN g.log, NEW snapshot \in Seq(Command), Gapless(g)
    PROVE  Gapless(Compacted(g, at, snapshot))
<1>. DEFINE h == Compacted(g, at, snapshot)
<1>1. g.log \in Seq(LogEntry) /\ at \in 1..Len(g.log) /\ g.snapshotIndex \in Int
  BY DEF RaftState, LogIndex
<1>2. h.log = SubSeq(g.log, at + 1, Len(g.log)) /\ h.snapshotIndex = g.log[at].Index
  BY DEF Compacted, RaftState
<1>3. g.log[at].Index = g.snapshotIndex + at
  BY DEF Gapless, Follows
<1>. HIDE DEF h
<1>4. Follows(SubSeq(g.log, at + 1, Len(g.log)), g.snapshotIndex + (at + 1) - 1)
  BY <1>1, SliceFollows DEF Gapless
<1>5. g.snapshotIndex + (at + 1) - 1 = h.snapshotIndex
  BY <1>1, <1>2, <1>3
<1>. QED
  BY <1>2, <1>4, <1>5 DEF Gapless, h

\* A snapshot that is installed ends the log or is followed by the rest of it.
LEMMA AfterInstallFollows ==
    ASSUME NEW g \in RaftState, NEW svc \in Seq(Command), NEW args,
           args.Snapshot \in Seq(Command), args.LastIncludedIndex \in LogIndex,
           args.LastIncludedTerm \in Nat, Gapless(g)
    PROVE  Gapless(AfterInstall(g, svc, args).g)
<1>. DEFINE at == FindIndex(g.log, args.LastIncludedIndex)
            whole == [g EXCEPT !.snapshot = args.Snapshot, !.log = <<>>,
                               !.snapshotIndex = args.LastIncludedIndex,
                               !.snapshotTerm  = args.LastIncludedTerm,
                               !.commitIndex   = args.LastIncludedIndex]
            cut   == Compacted(g, at, args.Snapshot)
            part  == [cut EXCEPT !.commitIndex = IF @ < args.LastIncludedIndex
                                                   THEN args.LastIncludedIndex ELSE @]
<1>1. g.log \in Seq(LogEntry)
  BY DEF RaftState
<1>2. whole.log = <<>>
  BY DEF RaftState
<1>3. Gapless(whole)
  BY <1>2 DEF Gapless, Follows
<1>4. ASSUME at # 0 PROVE Gapless(part)
  <2>1. at \in DOMAIN g.log
    BY <1>1, <1>4, FindIndexIn
  <2>. HIDE DEF at
  <2>2. cut \in RaftState /\ Gapless(cut)
    BY <2>1, CompactedIn, CompactedFollows
  <2>. HIDE DEF cut
  <2>3. part.log = cut.log /\ part.snapshotIndex = cut.snapshotIndex
    BY <2>2 DEF RaftState
  <2>. QED
    BY <2>2, <2>3 DEF Gapless
<1>5. AfterInstall(g, svc, args).g \in {whole, g} \cup {x \in {part} : at # 0}
  BY DEF AfterInstall, Outcome
<1>. HIDE DEF at, whole, part
<1>. QED
  BY <1>3, <1>4, <1>5

\* InstallSnapshot, whatever becomes of the request.
LEMMA InstallOutcomeFollows ==
    ASSUME NEW g \in RaftState, NEW svc \in Seq(Command), NEW args \in InstallSnapshotCall, Gapless(g)
    PROVE  Gapless(InstallOutcome(g, svc, args).g)
<1>. DEFINE h == Observe(g, args.Term)
<1>1. /\ args.Snapshot \in Seq(Command) /\ args.LastIncludedIndex \in LogIndex
      /\ args.LastIncludedTerm \in Nat /\ args.Term \in Nat
  BY DEF InstallSnapshotCall
<1>2. h \in RaftState /\ Gapless(h)
  BY <1>1, ObserveIn DEF LogKept, Gapless
<1>. HIDE DEF h
<1>3. Gapless(AfterInstall(h, svc, args).g)
  BY <1>1, <1>2, AfterInstallFollows
<1>4. InstallOutcome(g, svc, args).g \in {g, AfterInstall(h, svc, args).g}
  BY DEF InstallOutcome, Outcome, h
<1>. QED
  BY <1>3, <1>4

\* Snapshot at an index the log has, or has already cut.
LEMMA AfterSnapshotFollows ==
    ASSUME NEW g \in RaftState, NEW svc \in Seq(Command), NEW index \in Nat,
           index + 1 <= Len(svc), Gapless(g)
    PROVE  Gapless(AfterSnapshot(g, svc, index).g)
<1>. DEFINE at == FindIndex(g.log, index)
            h  == Compacted(g, at, SubSeq(svc, 1, index + 1))
<1>1. g.log \in Seq(LogEntry) /\ SubSeq(svc, 1, index + 1) \in Seq(Command)
  BY SliceIn DEF RaftState
<1>2. CASE at = 0
  BY <1>2 DEF AfterSnapshot, Outcome
<1>3. CASE at # 0
  <2>1. at \in DOMAIN g.log
    BY <1>1, <1>3, FindIndexIn
  <2>2. AfterSnapshot(g, svc, index).g = h
    BY <1>3 DEF AfterSnapshot, Deliver, Outcome
  <2>. HIDE DEF at
  <2>3. Gapless(h)
    BY <1>1, <2>1, CompactedFollows
  <2>. QED
    BY <2>2, <2>3
<1>. QED
  BY <1>2, <1>3

\* AppendEntries at a follower whose log has no gaps.
LEMMA FollowerAfterFollows ==
    ASSUME NEW g \in RaftState, NEW svc \in Seq(Command), NEW answer, NEW leaderCommit \in LogIndex,
           answer.log \in Seq(LogEntry), Follows(answer.log, g.snapshotIndex)
    PROVE  Gapless(FollowerAfter(g, svc, answer, leaderCommit).g)
<1>. DEFINE h == [g EXCEPT !.log = answer.log]
            cur == FollowerCommitIndex(h.log, h.snapshotIndex, h.commitIndex, leaderCommit)
<1>1. h \in RaftState /\ h.snapshotIndex = g.snapshotIndex /\ h.log = answer.log
  BY DEF RaftState
<1>. HIDE DEF h
<1>2. cur \in LogIndex
  <2>1. h.log \in Seq(LogEntry) /\ h.snapshotIndex \in LogIndex /\ h.commitIndex \in LogIndex
    BY <1>1 DEF RaftState
  <2>. QED
    BY <2>1, FollowerCommitIn
<1>. HIDE DEF cur
<1>3. LogKept(h, CommitTo(h, svc, cur).g)
  BY <1>1, <1>2, CommitToIn
<1>4. FollowerAfter(g, svc, answer, leaderCommit).g \in {CommitTo(h, svc, cur).g, h}
  BY DEF FollowerAfter, h, cur, Outcome
<1>. QED
  BY <1>1, <1>3, <1>4 DEF Gapless, LogKept

-----------------------------------------------------------------------------
(***************************************************************************)
(* The inductive invariant.  Until a request from index 0 on meets a log   *)
(* that was cut by a snapshot, no log has gaps, neither have the entries   *)
(* of a call, and no Make has blocked.                                     *)
(***************************************************************************)
GaplessCalls == \A c \in aeCalls : Follows(c.Entries, c.PrevLogIndex)

GaplessInv ==
    overlaid = {} =>
        /\ \A s \in Server : Gapless(rf[s]) /\ fault[s] # "blocked"
        /\ GaplessCalls

\* One server changes; the calls that are new or changed are as they should be.
LEMMA PeerKeepsGapless ==
    ASSUME RaftInv, GaplessInv, NEW s \in Server, NEW g, NEW why,
           rf' = [rf EXCEPT ![s] = g], fault' = [fault EXCEPT ![s] = why],
           overlaid \subseteq overlaid', overlaid' = {} => GaplessCalls',
           overlaid' = {} => Gapless(g) /\ why # "blocked"
    PROVE  GaplessInv'
<1>1. SUFFICES ASSUME overlaid' = {}
               PROVE  (\A t \in Server : Gapless(rf'[t]) /\ fault'[t] # "blocked")
  BY DEF GaplessInv, Gapless, Follows
<1>2. overlaid = {}
  BY <1>1
<1>3. \A t \in Server : Gapless(rf[t]) /\ fault[t] # "blocked"
  BY <1>2 DEF GaplessInv
<1>4. rf \in [Server -> RaftState] /\ fault \in [Server -> Fault]
  BY DEF RaftInv, NodeInv
<1>. QED
  BY <1>1, <1>3, <1>4

\* The same when the log of the server stays as it is.
LEMMA SavedKeepsGapless ==
    ASSUME RaftInv, GaplessInv, NEW s \in Server, NEW g, Save(s, g) ,
           overlaid' = overlaid, GaplessCalls => GaplessCalls',
           Gapless(rf[s]) => Gapless(g)
    PROVE  GaplessInv'
<1>1. rf' = [rf EXCEPT ![s] = g] /\ fault' = [fault EXCEPT ![s] = fault[s]]
  BY DEF Save, RaftInv, NodeInv
<1>2. overlaid = {} => GaplessCalls /\ Gapless(rf[s]) /\ fault[s] # "blocked"
  BY DEF GaplessInv
<1>. QED
  BY <1>1, <1>2, PeerKeepsGapless

\* Answering, dropping or orphaning calls leaves their entries alone.
LEMMA CallsKeepGapless ==
    ASSUME RaftInv, GaplessCalls
    PROVE  /\ \A c \in aeCalls : \A r : aeCalls' = Answered(aeCalls, c, r) => GaplessCalls'
           /\ \A s : aeCalls' = Orphaned(aeCalls, s) => GaplessCalls'
           /\ aeCalls' \subseteq aeCalls => GaplessCalls'
<1>1. aeCalls \subseteq AppendEntriesCall /\ \A c \in aeCalls : Follows(c.Entries, c.PrevLogIndex)
  BY DEF RaftInv, CallInv, GaplessCalls
<1>2. ASSUME \A d \in aeCalls' : \E c \in aeCalls :
                d.Entries = c.Entries /\ d.PrevLogIndex = c.PrevLogIndex
      PROVE  GaplessCalls'
  <2>1. ASSUME NEW d \in aeCalls' PROVE Follows(d.Entries, d.PrevLogIndex)
    BY <1>1, <1>2
  <2>. QED
    BY <2>1 DEF GaplessCalls, Follows
<1>3. ASSUME NEW c \in aeCalls, NEW r, aeCalls' = Answered(aeCalls, c, r) PROVE GaplessCalls'
  <2>. DEFINE a == [c EXCEPT !.done = TRUE, !.reply = r]
  <2>1. c \in AppendEntriesCall
    BY <1>1
  <2>2. a.Entries = c.Entries /\ a.PrevLogIndex = c.PrevLogIndex
    BY <2>1 DEF AppendEntriesCall
  <2>3. aeCalls' \subseteq aeCalls \cup {a}
    BY <1>3, AnsweredIn
  <2>. HIDE DEF a
  <2>. QED
    BY <1>2, <2>2, <2>3
<1>4. ASSUME NEW s, aeCalls' = Orphaned(aeCalls, s) PROVE GaplessCalls'
  <2>1. ASSUME NEW d \in aeCalls'
        PROVE  \E c \in aeCalls : d.Entries = c.Entries /\ d.PrevLogIndex = c.PrevLogIndex
    <3>1. CASE d \in aeCalls
      BY <3>1
    <3>2. ASSUME NEW c \in aeCalls, d = [c EXCEPT !.live = FALSE]
          PROVE  d.Entries = c.Entries /\ d.PrevLogIndex = c.PrevLogIndex
      <4>1. c \in AppendEntriesCall
        BY <1>1
      <4>. QED
        BY <3>2, <4>1 DEF AppendEntriesCall
    <3>. QED
      BY <1>4, <3>1, <3>2 DEF Orphaned
  <2>. QED
    BY <1>2, <2>1
<1>5. ASSUME aeCalls' \subseteq aeCalls PROVE GaplessCalls'
  BY <1>2, <1>5
<1>. QED
  BY <1>3, <1>4, <1>5

\* No handler but Make ends blocked.
LEMMA OutcomeNotBlocked ==
    ASSUME NEW g, NEW svc
    PROVE  /\ \A n : AfterCommitCheck(g, svc, n).fault # "blocked"
           /\ \A answer, n : FollowerAfter(g, svc, answer, n).fault # "blocked"
           /\ \A args : InstallOutcome(g, svc, args).fault # "blocked"
           /\ \A index : AfterSnapshot(g, svc, index).fault # "blocked"
<1>1. \A h, v, batch : Deliver(h, v, batch).fault \in {"none", "applyError"}
  BY DEF Deliver, Outcome
<1>2. \A h, cur : CommitTo(h, svc, cur).fault \in {"none", "applyError", "panic"}
  BY <1>1 DEF CommitTo, Outcome
<1>3. \A h, args : AfterInstall(h, svc, args).fault \in {"none", "panic"}
  BY DEF AfterInstall, Outcome
<1>4. \A n : AfterCommitCheck(g, svc, n).fault # "blocked"
  BY <1>2 DEF AfterCommitCheck, Outcome
<1>5. \A answer, n : FollowerAfter(g, svc, answer, n).fault # "blocked"
  BY <1>2 DEF FollowerAfter, Outcome
<1>6. \A args : InstallOutcome(g, svc, args).fault # "blocked"
  BY <1>3 DEF InstallOutcome, Outcome
<1>7. \A index : AfterSnapshot(g, svc, index).fault # "blocked"
  BY <1>1 DEF AfterSnapshot, Outcome
<1>. QED
  BY <1>4, <1>5, <1>6, <1>7

\* A log that starts after the snapshot gives Make nothing more to put.
LEMMA GaplessMakeReturns ==
    ASSUME NEW g \in RaftState, Gapless(g), g.commitIndex = g.snapshotIndex
    PROVE  ~MakeBlocks(g)
<1>. DEFINE covered == {p \in DOMAIN g.log : \A q \in 1..p : g.log[q].Index <= g.commitIndex}
<1>1. g.log \in Seq(LogEntry) /\ g.snapshotIndex \in Int
  BY DEF RaftState, LogIndex
<1>2. ASSUME NEW p \in covered PROVE FALSE
  <2>1. p \in 1..Len(g.log) /\ p \in 1..p /\ g.log[p].Index <= g.commitIndex
    BY <1>1
  <2>2. g.log[p].Index = g.snapshotIndex + p
    BY DEF Gapless, Follows
  <2>. QED
    BY <1>1, <2>1, <2>2
<1>3. Cardinality(covered) = 0
  <2>1. covered = {}
    BY <1>2
  <2>. QED
    BY <2>1, FS_EmptySet
<1>. QED
  BY <1>3 DEF MakeBlocks

\* The calls that arrive and return.
LEMMA DeliveriesKeepGapless ==
    ASSUME RaftInv, GaplessInv, Deliveries
    PROVE  GaplessInv'
<1>1. \A s \in Server : rf[s] \in RaftState /\ service[s] \in Seq(Command) /\ Covered(rf[s])
  BY DEF RaftInv, NodeInv
<1>2. /\ rvCalls \subseteq RequestVoteCall /\ aeCalls \subseteq AppendEntriesCall
      /\ isCalls \subseteq InstallSnapshotCall
      /\ \A c \in isCalls : Len(c.Snapshot) = c.LastIncludedIndex + 1
  BY DEF RaftInv, CallInv
<1>3. aeCalls' = aeCalls => (GaplessCalls => GaplessCalls')
  BY DEF GaplessCalls
<1>4. ASSUME NEW c \in rvCalls, RequestVoteRequestHandler(c) PROVE GaplessInv'
  <2>. DEFINE s == c.to
              h == Observe(rf[s], c.Term)
              g == [h EXCEPT !.votedFor = IF GrantsVote(h, c) THEN c.from ELSE @]
  <2>1. s \in Server /\ c.Term \in Nat /\ rf[s] \in RaftState
    BY <1>1, <1>2 DEF RequestVoteCall
  <2>2. h \in RaftState /\ LogKept(rf[s], h)
    BY <2>1, ObserveIn
  <2>3. Save(s, g) /\ overlaid' = overlaid /\ aeCalls' = aeCalls
    BY <1>4 DEF RequestVoteRequestHandler
  <2>. HIDE DEF h
  <2>4. g.log = h.log /\ g.snapshotIndex = h.snapshotIndex
    BY <2>2 DEF RaftState
  <2>. HIDE DEF g
  <2>5. Gapless(rf[s]) => Gapless(g)
    BY <2>2, <2>4 DEF LogKept, Gapless
  <2>. QED
    BY <1>3, <2>1, <2>3, <2>5, SavedKeepsGapless
<1>5. ASSUME NEW c \in rvCalls, RequestVoteResponseHandler(c) PROVE GaplessInv'
  <2>. DEFINE s == c.from
              g == AfterVoteReply(rf[s], c, c.reply)
  <2>1. s \in Server /\ c.reply.Term \in Nat /\ rf[s] \in RaftState
    BY <1>1, <1>2 DEF RequestVoteCall
  <2>2. LogKept(rf[s], g)
    BY <2>1, AfterVoteReplyIn
  <2>3. /\ rf' = [rf EXCEPT ![s] = g] /\ fault' = [fault EXCEPT ![s] = fault[s]]
        /\ overlaid' = overlaid /\ aeCalls' = aeCalls
    BY <1>5 DEF RequestVoteResponseHandler, RaftInv, NodeInv
  <2>. HIDE DEF g
  <2>4. overlaid' = {} => Gapless(rf[s]) /\ fault[s] # "blocked" /\ GaplessCalls
    BY <2>1, <2>3 DEF GaplessInv
  <2>5. overlaid' = {} => Gapless(g) /\ fault[s] # "blocked"
    BY <2>2, <2>4 DEF LogKept, Gapless
  <2>. QED
    BY <1>3, <2>1, <2>3, <2>4, <2>5, PeerKeepsGapless
<1>6. ASSUME NEW c \in aeCalls, AppendEntriesRequestHandler(c) PROVE GaplessInv'
  <2>. DEFINE s == c.to
              g == ToFollower(rf[s], c.Term)
              answer == FollowerHandleLog(g.log, g.snapshotIndex, c)
              out == FollowerAfter(g, service[s], answer, c.LeaderCommit)
  <2>1. /\ s \in Server /\ c.Term \in Nat /\ c.PrevLogIndex \in Int
        /\ c.Entries \in Seq(LogEntry) /\ c.LeaderCommit \in LogIndex
        /\ rf[s] \in RaftState /\ service[s] \in Seq(Command)
    BY <1>1, <1>2 DEF AppendEntriesCall
  <2>2. CASE c.Term < rf[s].currentTerm
    <3>1. /\ Save(s, rf[s]) /\ aeCalls' = Answered(aeCalls, c, Refusal(rf[s].currentTerm))
          /\ overlaid' = overlaid \cup {x \in {s} : c.Term >= rf[s].currentTerm /\ Overlays(rf[s], c)}
      BY <1>6, <2>2 DEF AppendEntriesRequestHandler
    <3>2. rf[s].currentTerm \in Nat
      BY <2>1 DEF RaftState
    <3>3. overlaid' = overlaid
      BY <2>1, <2>2, <3>1, <3>2
    <3>4. GaplessCalls => GaplessCalls'
      BY <3>1, CallsKeepGapless
    <3>. QED
      BY <2>1, <3>1, <3>3, <3>4, SavedKeepsGapless
  <2>3. CASE ~(c.Term < rf[s].currentTerm)
    <3>. DEFINE r == [Term |-> c.Term, Success |-> answer.Success,
                      XTerm |-> answer.XTerm, XIndex |-> answer.XIndex]
    <3>1. /\ Finish(s, out) /\ aeCalls' = Answered(aeCalls, c, r)
          /\ overlaid' = overlaid \cup {x \in {s} : c.Term >= rf[s].currentTerm /\ Overlays(rf[s], c)}
      BY <1>6, <2>3 DEF AppendEntriesRequestHandler
    <3>2. g \in RaftState /\ LogKept(rf[s], g)
      BY <2>1, ToFollowerIn
    <3>. HIDE DEF g, r
    <3>3. ASSUME overlaid' = {}
          PROVE  Gapless(out.g) /\ GaplessCalls /\ out.fault # "blocked"
      <4>1. overlaid = {} /\ ~Overlays(rf[s], c)
        <5>1. rf[s].currentTerm \in Nat
          BY <2>1 DEF RaftState
        <5>2. c.Term >= rf[s].currentTerm
          BY <2>1, <2>3, <5>1
        <5>. QED
          BY <3>1, <3>3, <5>2, Zenon
      <4>2. Gapless(rf[s]) /\ GaplessCalls
        BY <2>1, <4>1 DEF GaplessInv
      <4>3. Follows(g.log, g.snapshotIndex) /\ Follows(c.Entries, c.PrevLogIndex)
        BY <3>2, <4>2 DEF LogKept, Gapless, GaplessCalls
      <4>4. c.PrevLogIndex = -1 => c.Entries = <<>> \/ g.snapshotIndex = -1
        BY <3>2, <4>1 DEF LogKept, Overlays
      <4>5. g.log \in Seq(LogEntry) /\ g.snapshotIndex \in LogIndex
        BY <3>2 DEF RaftState
      <4>6. answer.log \in Seq(LogEntry)
        BY <2>1, <4>5, FollowerHandleLogIn
      <4>7. Follows(answer.log, g.snapshotIndex)
        BY <2>1, <4>3, <4>4, <4>5, FollowerHandleLogFollows
      <4>. HIDE DEF answer
      <4>8. Gapless(out.g)
        BY <2>1, <3>2, <4>6, <4>7, FollowerAfterFollows
      <4>. QED
        BY <4>2, <4>8, OutcomeNotBlocked
    <3>4. overlaid' = {} => GaplessCalls'
      BY <3>1, <3>3, CallsKeepGapless
    <3>5. rf' = [rf EXCEPT ![s] = out.g] /\ fault' = [fault EXCEPT ![s] = out.fault]
      BY <3>1 DEF Finish
    <3>. HIDE DEF out
    <3>. QED
      BY <2>1, <3>1, <3>3, <3>4, <3>5, PeerKeepsGapless
  <2>. QED
    BY <2>2, <2>3
<1>7. ASSUME NEW c \in aeCalls, NEW r \in Returns(c, NoAnswer), AppendEntriesResponseHandler(c, r)
      PROVE  GaplessInv'
  <2>. DEFINE s == c.from
              g == AfterAppendReply(rf[s], c, r)
  <2>1. c \in AppendEntriesCall /\ s \in Server /\ rf[s] \in RaftState
    BY <1>1, <1>2 DEF AppendEntriesCall
  <2>2. r.Term \in Nat /\ r.XIndex \in Int
    BY <2>1 DEF AppendEntriesCall, NoAnswer, Refusal, Returns
  <2>3. LogKept(rf[s], g)
    BY <2>1, <2>2, AfterAppendReplyIn
  <2>4. Save(s, g) /\ overlaid' = overlaid /\ aeCalls' \subseteq aeCalls
    BY <1>7 DEF AppendEntriesResponseHandler, history
  <2>. HIDE DEF g
  <2>5. Gapless(rf[s]) => Gapless(g)
    BY <2>3 DEF LogKept, Gapless
  <2>6. GaplessCalls => GaplessCalls'
    BY <2>4, CallsKeepGapless
  <2>. QED
    BY <2>1, <2>4, <2>5, <2>6, SavedKeepsGapless
<1>8. ASSUME NEW c \in isCalls, InstallSnapshotRequestHandler(c) PROVE GaplessInv'
  <2>. DEFINE s == c.to
              out == InstallOutcome(rf[s], service[s], c)
  <2>1. /\ s \in Server /\ c \in InstallSnapshotCall
        /\ rf[s] \in RaftState /\ service[s] \in Seq(Command)
    BY <1>1, <1>2 DEF InstallSnapshotCall
  <2>2. Finish(s, out) /\ overlaid' = overlaid /\ aeCalls' = aeCalls
    BY <1>8 DEF InstallSnapshotRequestHandler, history
  <2>3. overlaid' = {} => Gapless(rf[s]) /\ GaplessCalls
    BY <2>1, <2>2 DEF GaplessInv
  <2>4. overlaid' = {} => Gapless(out.g) /\ out.fault # "blocked"
    BY <2>1, <2>3, InstallOutcomeFollows, OutcomeNotBlocked
  <2>5. rf' = [rf EXCEPT ![s] = out.g] /\ fault' = [fault EXCEPT ![s] = out.fault]
    BY <2>2 DEF Finish
  <2>. HIDE DEF out
  <2>. QED
    BY <1>3, <2>1, <2>2, <2>3, <2>4, <2>5, PeerKeepsGapless
<1>9. ASSUME NEW c \in isCalls, NEW r \in Returns(c, NoInstall), InstallSnapshotResponseHandler(c, r)
      PROVE  GaplessInv'
  <2>. DEFINE s == c.from
              g == AfterInstallReply(rf[s], c, r)
  <2>1. c \in InstallSnapshotCall /\ s \in Server /\ rf[s] \in RaftState
    BY <1>1, <1>2 DEF InstallSnapshotCall
  <2>2. r \in [Term : Nat]
    BY <2>1 DEF InstallSnapshotCall, NoInstall, Returns
  <2>3. LogKept(rf[s], g)
    BY <2>1, <2>2, AfterInstallReplyIn
  <2>4. Save(s, g) /\ overlaid' = overlaid /\ aeCalls' = aeCalls
    BY <1>9 DEF InstallSnapshotResponseHandler, history
  <2>. HIDE DEF g
  <2>5. Gapless(rf[s]) => Gapless(g)
    BY <2>3 DEF LogKept, Gapless
  <2>. QED
    BY <1>3, <2>1, <2>4, <2>5, SavedKeepsGapless
<1>. QED
  BY <1>4, <1>5, <1>6, <1>7, <1>8, <1>9 DEF Deliveries

\* A round of AppendEntries sends what follows the probed index.
LEMMA SendKeepsGapless ==
    ASSUME RaftInv, GaplessInv, NEW s \in Server, LeaderSendAppendEntriesRPC(s), overlaid' = overlaid
    PROVE  GaplessInv'
<1>. DEFINE g == rf[s]
            others == Server \ {s}
            behind == {p \in others : Prev(g, p) < g.snapshotIndex}
            able   == \A p \in others : CanSend(g.log, g.snapshotIndex, Prev(g, p))
<1>1. g \in RaftState /\ rf = [rf EXCEPT ![s] = g] /\ fault = [fault EXCEPT ![s] = fault[s]]
  BY DEF RaftInv, NodeInv
<1>2. overlaid' = {} => Gapless(g) /\ GaplessCalls /\ fault[s] # "blocked"
  BY DEF GaplessInv
<1>3. CASE ~able
  <2>1. fault' = [fault EXCEPT ![s] = "panic"] /\ rf' = rf /\ aeCalls' = aeCalls
    BY <1>3 DEF LeaderSendAppendEntriesRPC, calls
  <2>. HIDE DEF g, able
  <2>2. GaplessCalls => GaplessCalls'
    BY <2>1 DEF GaplessCalls
  <2>. QED
    BY <1>1, <1>2, <2>1, <2>2, PeerKeepsGapless
<1>4. CASE able
  <2>1. /\ aeCalls' = aeCalls \cup {AppendEntriesTo(g, s, p) : p \in others \ behind}
        /\ rf' = rf /\ fault' = fault
    BY <1>4 DEF LeaderSendAppendEntriesRPC, node
  <2>2. /\ g.log \in Seq(LogEntry) /\ g.snapshotIndex \in LogIndex
        /\ g.nextIndex \in [Server -> Int]
    BY <1>1 DEF RaftState
  <2>. HIDE DEF g
  <2>3. ASSUME overlaid' = {} PROVE GaplessCalls'
    <3>1. ASSUME NEW p \in others \ behind
          PROVE  Follows(AppendEntriesTo(g, s, p).Entries, AppendEntriesTo(g, s, p).PrevLogIndex)
      <4>1. Prev(g, p) \in Int /\ Prev(g, p) >= g.snapshotIndex
        BY <2>2 DEF Prev, LogIndex
      <4>2. CanSend(g.log, g.snapshotIndex, Prev(g, p))
        BY <1>4
      <4>3. Follows(EntriesAfter(g.log, g.snapshotIndex, Prev(g, p)), Prev(g, p))
        BY <1>2, <2>2, <2>3, <4>1, <4>2, SendFollows DEF Gapless
      <4>. QED
        BY <4>3 DEF AppendEntriesTo
    <3>. HIDE DEF behind
    <3>2. ASSUME NEW c \in aeCalls' PROVE Follows(c.Entries, c.PrevLogIndex)
      BY <1>2, <2>1, <2>3, <3>1 DEF GaplessCalls
    <3>. QED
      BY <3>2 DEF GaplessCalls, Follows
  <2>. QED
    BY <1>1, <1>2, <2>1, <2>3, PeerKeepsGapless
<1>. QED
  BY <1>3, <1>4

\* The steps a server takes by itself.
LEMMA ServerStepKeepsGapless ==
    ASSUME RaftInv, GaplessInv, NEW s \in Server, ServerStep(s)
    PROVE  GaplessInv'
<1>1. rf[s] \in RaftState /\ service[s] \in Seq(Command) /\ Covered(rf[s])
  BY DEF RaftInv, NodeInv
<1>2. aeCalls' = aeCalls => (GaplessCalls => GaplessCalls')
  BY DEF GaplessCalls
<1>3. CASE ToCandidate(s)
  <2>1. LogKept(rf[s], Candidate(rf[s], s))
    BY <1>1, CandidateIn
  <2>2. Gapless(rf[s]) => Gapless(Candidate(rf[s], s))
    BY <2>1 DEF LogKept, Gapless
  <2>. QED
    BY <1>2, <1>3, <2>2, SavedKeepsGapless DEF ToCandidate
<1>4. CASE ToLeader(s)
  <2>1. LogKept(rf[s], Leader(rf[s], s))
    BY <1>1, LeaderIn
  <2>2. Gapless(rf[s]) => Gapless(Leader(rf[s], s))
    BY <2>1 DEF LogKept, Gapless
  <2>. QED
    BY <1>2, <1>4, <2>2, SavedKeepsGapless DEF ToLeader, calls
<1>5. CASE LeaderTickerCheck(s)
  BY <1>2, <1>5 DEF LeaderTickerCheck, node, calls, history, GaplessInv, Gapless, Follows
<1>6. CASE LeaderUpdateCommitIndex(s)
  <2>1. PICK n \in {rf[s].matchIndex[p] : p \in Server} :
                Finish(s, AfterCommitCheck(rf[s], service[s], n))
    BY <1>6 DEF LeaderUpdateCommitIndex
  <2>2. n \in Int
    BY <1>1 DEF RaftState
  <2>. DEFINE out == AfterCommitCheck(rf[s], service[s], n)
  <2>3. LogKept(rf[s], out.g) /\ out.fault # "blocked"
    BY <1>1, <2>2, AfterCommitCheckIn, OutcomeNotBlocked
  <2>4. overlaid' = overlaid /\ aeCalls' = aeCalls
    BY <1>6 DEF LeaderUpdateCommitIndex, calls
  <2>5. rf' = [rf EXCEPT ![s] = out.g] /\ fault' = [fault EXCEPT ![s] = out.fault]
    BY <2>1 DEF Finish
  <2>. HIDE DEF out
  <2>6. overlaid' = {} => Gapless(rf[s]) /\ GaplessCalls
    BY <2>4 DEF GaplessInv
  <2>7. overlaid' = {} => Gapless(out.g)
    BY <2>3, <2>6 DEF LogKept, Gapless
  <2>. QED
    BY <1>2, <2>3, <2>4, <2>5, <2>6, <2>7, PeerKeepsGapless
<1>7. CASE LeaderTickerSend(s)
  BY <1>7, SendKeepsGapless DEF LeaderTickerSend
<1>8. CASE StartSend(s)
  BY <1>8, SendKeepsGapless DEF StartSend
<1>9. ASSUME NEW command \in Command, Start(s, command) PROVE GaplessInv'
  <2>1. Gapless(rf[s]) => Gapless(WithCommand(rf[s], s, command))
    BY <1>1, WithCommandFollows
  <2>. QED
    BY <1>2, <1>9, <2>1, SavedKeepsGapless DEF Start, calls, history
<1>10. ASSUME NEW i \in 1..Len(service[s]), Snapshot(s, i - 1) PROVE GaplessInv'
  <2>. DEFINE out == AfterSnapshot(rf[s], service[s], i - 1)
  <2>1. i - 1 \in Nat /\ (i - 1) + 1 <= Len(service[s])
    BY <1>1, <1>10
  <2>2. Finish(s, out) /\ overlaid' = overlaid /\ aeCalls' = aeCalls
    BY <1>10 DEF Snapshot, calls, history
  <2>3. overlaid' = {} => Gapless(rf[s]) /\ GaplessCalls
    BY <2>2 DEF GaplessInv
  <2>4. overlaid' = {} => Gapless(out.g) /\ out.fault # "blocked"
    BY <1>1, <2>1, <2>3, AfterSnapshotFollows, OutcomeNotBlocked
  <2>5. rf' = [rf EXCEPT ![s] = out.g] /\ fault' = [fault EXCEPT ![s] = out.fault]
    BY <2>2 DEF Finish
  <2>. HIDE DEF out
  <2>. QED
    BY <1>2, <2>2, <2>3, <2>4, <2>5, PeerKeepsGapless
<1>11. CASE Restart(s)
  <2>. DEFINE g == Booted(disk[s])
              why == IF MakeBlocks(g) THEN "blocked" ELSE "none"
  <2>1. disk[s] \in DiskState /\ Durable(disk[s], rf[s])
    BY DEF RaftInv, NodeInv, DurableState
  <2>2. g \in RaftState /\ LogKept(disk[s], g) /\ g.commitIndex = disk[s].snapshotIndex
    BY <2>1, BootedIn DEF Booted
  <2>3. /\ rf' = [rf EXCEPT ![s] = g] /\ fault' = [fault EXCEPT ![s] = why]
        /\ aeCalls' = Orphaned(aeCalls, s) /\ overlaid' = overlaid
    BY <1>11 DEF Restart, history
  <2>. HIDE DEF g
  <2>4. overlaid' = {} => Gapless(rf[s]) /\ GaplessCalls
    BY <2>3 DEF GaplessInv
  <2>5. Gapless(rf[s]) => Gapless(g) /\ g.commitIndex = g.snapshotIndex
    BY <2>1, <2>2 DEF LogKept, Durable, Gapless
  <2>6. overlaid' = {} => Gapless(g) /\ why # "blocked"
    BY <2>2, <2>4, <2>5, GaplessMakeReturns
  <2>7. overlaid' = {} => GaplessCalls'
    BY <2>3, <2>4, CallsKeepGapless
  <2>. HIDE DEF why
  <2>. QED
    BY <2>3, <2>6, <2>7, PeerKeepsGapless
<1>. QED
  BY <1>3, <1>4, <1>5, <1>6, <1>7, <1>8, <1>9, <1>10, <1>11 DEF ServerStep

\* No log ever has a gap, until a request overlays a snapshot.
THEOREM GaplessInvariant == Spec => []GaplessInv
<1>1. Init => GaplessInv
  <2>1. SUFFICES ASSUME Init PROVE GaplessInv
    OBVIOUS
  <2>2. NewDisk.log = <<>> /\ Booted(NewDisk).log = <<>>
    BY DEF NewDisk, Booted
  <2>. QED
    BY <2>1, <2>2 DEF Init, GaplessInv, GaplessCalls, Gapless, Follows
<1>2. RaftInv /\ GaplessInv /\ [Next]_vars => GaplessInv'
  <2>1. SUFFICES ASSUME RaftInv, GaplessInv, [Next]_vars PROVE GaplessInv'
    OBVIOUS
  <2>2. CASE UNCHANGED vars
    BY <2>1, <2>2 DEF vars, node, calls, history, GaplessInv, GaplessCalls, Gapless, Follows
  <2>. QED
    BY <2>1, <2>2, DeliveriesKeepGapless, ServerStepKeepsGapless DEF Next
<1>. QED
  BY <1>1, <1>2, RaftInvariant, PTL DEF Spec

-----------------------------------------------------------------------------
(***************************************************************************)
(* Logs and requests that are parts of other logs.                         *)
(***************************************************************************)

\* Log a is the beginning of log b.
Begins(a, b) == Len(a) <= Len(b) /\ \A i \in 1..Len(a) : a[i] = b[i]

\* Logs a and b agree up to every entry they share.
Matching(a, b) ==
    \A n \in DOMAIN a \cap DOMAIN b : a[n].Term = b[n].Term => \A i \in 1..n : a[i] = b[i]

\* Call c carries a part of log a and the term before that part.
Carries(c, a) ==
    /\ c.PrevLogIndex >= -1
    /\ c.PrevLogIndex + 1 + Len(c.Entries) <= Len(a)
    /\ \A i \in DOMAIN c.Entries : c.Entries[i] = a[c.PrevLogIndex + 1 + i]
    /\ c.PrevLogIndex # -1 => a[c.PrevLogIndex + 1].Term = c.PrevLogTerm

\* Logs a and b have the same first k entries.
SameUpTo(a, b, k) == \A i \in 1..k : a[i] = b[i]

\* The entries are those of a after position at.
PartOf(entries, a, at) == \A i \in DOMAIN entries : entries[i] = a[at + i]

\* What two logs joined are, place by place.
LEMMA JoinedAt ==
    ASSUME NEW x \in Seq(LogEntry), NEW y \in Seq(LogEntry)
    PROVE  /\ Len(x \o y) = Len(x) + Len(y)
           /\ \A i \in 1..(Len(x) + Len(y)) :
                  (x \o y)[i] = IF i <= Len(x) THEN x[i] ELSE y[i - Len(x)]
<1>1. Len(x \o y) = Len(x) + Len(y)
  BY ConcatProperties
<1>2. ASSUME NEW i \in 1..(Len(x) + Len(y))
      PROVE  (x \o y)[i] = IF i <= Len(x) THEN x[i] ELSE y[i - Len(x)]
  BY ConcatProperties
<1>. QED
  BY <1>1, <1>2

\* A beginning of a log that is followed by what else it has.
LEMMA JoinBegins ==
    ASSUME NEW log \in Seq(LogEntry), NEW entries \in Seq(LogEntry), NEW a \in Seq(LogEntry),
           NEW at \in Nat, NEW k \in Nat, NEW m \in Nat \ {0}, k <= Len(log),
           m <= Len(entries) + 1, k = at + m - 1, at + Len(entries) <= Len(a),
           SameUpTo(log, a, k), PartOf(entries, a, at)
    PROVE  Begins(SubSeq(log, 1, k) \o SubSeq(entries, m, Len(entries)), a)
<1>. DEFINE x == SubSeq(log, 1, k)
            y == SubSeq(entries, m, Len(entries))
<1>1. /\ x \in Seq(LogEntry) /\ Len(x) = k /\ \A i \in 1..k : x[i] = log[i]
  BY SliceIn, SubSeqProperties
<1>2. /\ y \in Seq(LogEntry) /\ Len(y) = Len(entries) - m + 1
      /\ \A i \in 1..(Len(entries) - m + 1) : y[i] = entries[m + i - 1]
  BY SliceIn, SubSeqProperties
<1>. HIDE DEF x, y
<1>3. /\ Len(x \o y) = k + Len(y) /\ Len(y) \in Nat
      /\ \A i \in 1..(k + Len(y)) : (x \o y)[i] = IF i <= k THEN x[i] ELSE y[i - k]
  <2>1. x \in Seq(LogEntry) /\ y \in Seq(LogEntry) /\ Len(x) = k
    BY <1>1, <1>2
  <2>2. /\ Len(x \o y) = Len(x) + Len(y)
        /\ \A i \in 1..(Len(x) + Len(y)) : (x \o y)[i] = IF i <= Len(x) THEN x[i] ELSE y[i - Len(x)]
    BY <2>1, JoinedAt
  <2>3. Len(y) \in Nat
    BY <2>1
  <2>. QED
    BY <2>1, <2>2, <2>3
<1>4. ASSUME NEW i \in 1..(k + Len(y)) PROVE (x \o y)[i] = a[i]
  <2>1. CASE i <= k
    BY <1>1, <1>3, <2>1 DEF SameUpTo
  <2>2. CASE i > k
    <3>. DEFINE j == m + (i - k) - 1
    <3>1. i - k \in 1..(Len(entries) - m + 1)
      BY <1>2, <2>2
    <3>2. (x \o y)[i] = entries[j]
      <4>1. (x \o y)[i] = y[i - k]
        BY <1>3, <2>2
      <4>2. y[i - k] = entries[j]
        BY <1>2, <3>1
      <4>. QED
        BY <4>1, <4>2
    <3>3. j \in DOMAIN entries /\ at + j = i
      BY <3>1
    <3>. HIDE DEF j
    <3>. QED
      BY <3>2, <3>3 DEF PartOf
  <2>3. i <= k \/ i > k
    BY <1>3
  <2>. QED
    BY <2>1, <2>2, <2>3
<1>5. Len(x \o y) <= Len(a)
  BY <1>2, <1>3
<1>6. Begins(x \o y, a)
  BY <1>3, <1>4, <1>5 DEF Begins
<1>. QED
  BY <1>6 DEF x, y

\* The last index of a log without a snapshot.
LEMMA LastOfGapless ==
    ASSUME NEW log \in Seq(LogEntry), Follows(log, -1)
    PROVE  LastLogIndex(log, -1) = Len(log) - 1
<1>1. CASE log = <<>>
  BY <1>1 DEF LastLogIndex
<1>2. CASE log # <<>>
  <2>1. Len(log) \in DOMAIN log
    BY <1>2, EmptySeq
  <2>. QED
    BY <1>2, <2>1 DEF LastLogIndex, Follows
<1>. QED
  BY <1>1, <1>2

-----------------------------------------------------------------------------
(***************************************************************************)
(* Who may lead, and what there is before the first snapshot.              *)
(***************************************************************************)

\* A server leads at most the terms its disk has seen, and one that is
\* candidate does not lead yet.
LeadsOwnTerm ==
    /\ \A a \in led : a[2] <= disk[a[1]].currentTerm
    /\ \A s \in Server :
         /\ rf[s].role = "leader"    => <<s, rf[s].currentTerm>> \in led
         /\ rf[s].role = "candidate" => <<s, rf[s].currentTerm>> \notin led
    /\ \A c \in aeCalls : c.from # c.to

\* Nobody has a snapshot before one is taken, and nobody sends one.
NoSnapshotYet ==
    used.snapshots = 0 =>
        /\ \A s \in Server : rf[s].snapshotIndex = -1
        /\ \A c \in isCalls : c.LastIncludedIndex = -1

LeadInv == LeadsOwnTerm /\ NoSnapshotYet

-----------------------------------------------------------------------------
(* Steps that leave the logs alone *)

\* Call c is call d, or what has become of it.
Alike(c, d) ==
    /\ c.from = d.from /\ c.to = d.to /\ c.Term = d.Term
    /\ c.PrevLogIndex = d.PrevLogIndex /\ c.PrevLogTerm = d.PrevLogTerm
    /\ c.Entries = d.Entries

\* No AppendEntries call is new, and no InstallSnapshot call.
NoNewCall ==
    /\ \A c \in aeCalls' : \E d \in aeCalls : Alike(c, d)
    /\ \A c \in isCalls' : \E d \in isCalls : c.LastIncludedIndex = d.LastIncludedIndex

\* The disks of all servers go on from term to term.
TermsGrow == \A p \in Server : disk[p].currentTerm <= disk'[p].currentTerm

\* Nobody becomes leader, and who becomes candidate does so in a new term.
LEMMA LeadsKept ==
    ASSUME RaftInv, RaftInv', LeadsOwnTerm, TermsGrow, led' = led,
           \A p \in Server : rf'[p].role = "leader" =>
               rf[p].role = "leader" /\ rf'[p].currentTerm = rf[p].currentTerm,
           \A p \in Server : rf'[p].role = "candidate" =>
               \/ rf[p].role = "candidate" /\ rf'[p].currentTerm = rf[p].currentTerm
               \/ disk[p].currentTerm < rf'[p].currentTerm,
           \A c \in aeCalls' : c.from # c.to
    PROVE  LeadsOwnTerm'
<1>1. /\ led \subseteq Server \X Nat
      /\ \A p \in Server : /\ disk[p].currentTerm \in Nat /\ disk'[p].currentTerm \in Nat
                           /\ rf'[p].currentTerm \in Nat
  BY DEF RaftInv, NodeInv, RestInv, DiskState, RaftState
<1>2. ASSUME NEW a \in led PROVE a[2] <= disk'[a[1]].currentTerm
  <2>1. a[1] \in Server /\ a[2] \in Nat
    BY <1>1
  <2>2. a[2] <= disk[a[1]].currentTerm /\ disk[a[1]].currentTerm <= disk'[a[1]].currentTerm
    BY <2>1 DEF LeadsOwnTerm, TermsGrow
  <2>3. disk[a[1]].currentTerm \in Nat /\ disk'[a[1]].currentTerm \in Nat
    BY <1>1, <2>1
  <2>. QED
    BY <2>1, <2>2, <2>3
<1>3. ASSUME NEW p \in Server, rf'[p].role = "leader" PROVE <<p, rf'[p].currentTerm>> \in led
  BY <1>3 DEF LeadsOwnTerm
<1>4. ASSUME NEW p \in Server, rf'[p].role = "candidate" PROVE <<p, rf'[p].currentTerm>> \notin led
  <2>1. CASE rf[p].role = "candidate" /\ rf'[p].currentTerm = rf[p].currentTerm
    BY <2>1 DEF LeadsOwnTerm
  <2>2. CASE disk[p].currentTerm < rf'[p].currentTerm
    <3>1. <<p, rf'[p].currentTerm>> \in led => rf'[p].currentTerm <= disk[p].currentTerm
      BY DEF LeadsOwnTerm
    <3>2. rf'[p].currentTerm \in Nat /\ disk[p].currentTerm \in Nat
      BY <1>1
    <3>. QED
      BY <2>2, <3>1, <3>2
  <2>. QED
    BY <1>4, <2>1, <2>2
<1>. QED
  BY <1>2, <1>3, <1>4 DEF LeadsOwnTerm

\* One server changes, and nobody becomes leader.
LEMMA QuietKeepsLead ==
    ASSUME RaftInv, RaftInv', LeadInv, NEW s \in Server, NEW g, rf' = [rf EXCEPT ![s] = g],
           TermsGrow, led' = led, NoNewCall,
           used'.snapshots = 0 => used.snapshots = 0 /\ g.snapshotIndex = rf[s].snapshotIndex,
           g.role = "leader" => rf[s].role = "leader" /\ g.currentTerm = rf[s].currentTerm,
           g.role = "candidate" =>
               \/ rf[s].role = "candidate" /\ g.currentTerm = rf[s].currentTerm
               \/ disk[s].currentTerm < g.currentTerm
    PROVE  LeadInv'
<1>1. LeadsOwnTerm /\ NoSnapshotYet
  BY DEF LeadInv
<1>2. \A p \in Server : rf'[p] = IF p = s THEN g ELSE rf[p]
  BY DEF RaftInv, NodeInv
<1>3. LeadsOwnTerm'
  <2>1. \A c \in aeCalls' : c.from # c.to
    BY <1>1 DEF LeadsOwnTerm, NoNewCall, Alike
  <2>2. ASSUME NEW p \in Server, rf'[p].role = "leader"
        PROVE  rf[p].role = "leader" /\ rf'[p].currentTerm = rf[p].currentTerm
    BY <1>2, <2>2
  <2>3. ASSUME NEW p \in Server, rf'[p].role = "candidate"
        PROVE  \/ rf[p].role = "candidate" /\ rf'[p].currentTerm = rf[p].currentTerm
               \/ disk[p].currentTerm < rf'[p].currentTerm
    BY <1>2, <2>3
  <2>. QED
    BY <1>1, <2>1, <2>2, <2>3, LeadsKept
<1>4. NoSnapshotYet'
  <2>1. ASSUME used'.snapshots = 0, NEW p \in Server PROVE rf'[p].snapshotIndex = -1
    BY <1>1, <1>2, <2>1 DEF NoSnapshotYet
  <2>2. ASSUME used'.snapshots = 0, NEW c \in isCalls' PROVE c.LastIncludedIndex = -1
    BY <1>1, <2>2 DEF NoSnapshotYet, NoNewCall
  <2>. QED
    BY <2>1, <2>2 DEF NoSnapshotYet
<1>. QED
  BY <1>3, <1>4 DEF LeadInv

\* The terms of the disks when a server saves.
LEMMA SavedTermsGrow ==
    ASSUME RaftInv, RaftInv', NEW s \in Server, NEW g \in RaftState,
           disk' = [disk EXCEPT ![s] = Persistent(g)], rf[s].currentTerm <= g.currentTerm
    PROVE  TermsGrow /\ disk'[s].currentTerm = g.currentTerm
<1>1. /\ disk \in [Server -> DiskState] /\ Durable(disk[s], rf[s]) /\ rf[s] \in RaftState
      /\ Persistent(g).currentTerm = g.currentTerm
  BY PersistentIn DEF RaftInv, NodeInv, DurableState
<1>2. \A p \in Server : disk'[p] = IF p = s THEN Persistent(g) ELSE disk[p]
  BY <1>1
<1>3. disk[s].currentTerm <= g.currentTerm
  <2>1. disk[s].currentTerm \in Nat /\ rf[s].currentTerm \in Nat /\ g.currentTerm \in Nat
    BY <1>1 DEF DiskState, RaftState
  <2>2. disk[s].currentTerm <= rf[s].currentTerm
    BY <1>1, <2>1 DEF Durable
  <2>. QED
    BY <2>1, <2>2
<1>4. \A p \in Server : disk[p].currentTerm <= disk[p].currentTerm
  BY <1>1 DEF DiskState
<1>. QED
  BY <1>1, <1>2, <1>3, <1>4 DEF TermsGrow

\* The same for a handler that ends with persist().
LEMMA SavedKeepsLead ==
    ASSUME RaftInv, RaftInv', LeadInv, NEW s \in Server, NEW g \in RaftState,
           rf' = [rf EXCEPT ![s] = g], disk' = [disk EXCEPT ![s] = Persistent(g)],
           StandsAsBefore(rf[s], g), led' = led, NoNewCall,
           used'.snapshots = 0 => used.snapshots = 0 /\ g.snapshotIndex = rf[s].snapshotIndex
    PROVE  LeadInv'
<1>1. rf[s].currentTerm <= g.currentTerm
      /\ (g.role = "leader" => rf[s].role = "leader" /\ g.currentTerm = rf[s].currentTerm)
      /\ (g.role = "candidate" => rf[s].role = "candidate" /\ g.currentTerm = rf[s].currentTerm)
  BY DEF StandsAsBefore, VotesAsBefore
<1>2. TermsGrow
  BY <1>1, SavedTermsGrow
<1>. QED
  BY <1>1, <1>2, QuietKeepsLead

\* No call is new that is answered, dropped, orphaned or left alone.
LEMMA AppendCallsAlike ==
    ASSUME RaftInv
    PROVE  /\ \A c \in aeCalls : \A r : aeCalls' = Answered(aeCalls, c, r) =>
                 \A d \in aeCalls' : \E e \in aeCalls : Alike(d, e)
           /\ \A s : aeCalls' = Orphaned(aeCalls, s) =>
                 \A d \in aeCalls' : \E e \in aeCalls : Alike(d, e)
           /\ aeCalls' \subseteq aeCalls => \A d \in aeCalls' : \E e \in aeCalls : Alike(d, e)
<1>1. aeCalls \subseteq AppendEntriesCall
  BY DEF RaftInv, CallInv
<1>2. \A d : Alike(d, d)
  BY DEF Alike
<1>3. ASSUME NEW c \in aeCalls, NEW r, aeCalls' = Answered(aeCalls, c, r), NEW d \in aeCalls'
      PROVE  \E e \in aeCalls : Alike(d, e)
  <2>. DEFINE a == [c EXCEPT !.done = TRUE, !.reply = r]
  <2>1. c \in AppendEntriesCall
    BY <1>1
  <2>2. Alike(a, c)
    BY <2>1 DEF AppendEntriesCall, Alike
  <2>3. aeCalls' \subseteq aeCalls \cup {a}
    BY <1>3, AnsweredIn
  <2>. HIDE DEF a
  <2>. QED
    BY <1>2, <2>2, <2>3
<1>4. ASSUME NEW s, aeCalls' = Orphaned(aeCalls, s), NEW d \in aeCalls'
      PROVE  \E e \in aeCalls : Alike(d, e)
  <2>1. CASE d \in aeCalls
    BY <1>2, <2>1
  <2>2. ASSUME NEW c \in aeCalls, d = [c EXCEPT !.live = FALSE] PROVE Alike(d, c)
    <3>1. c \in AppendEntriesCall
      BY <1>1
    <3>. QED
      BY <2>2, <3>1 DEF AppendEntriesCall, Alike
  <2>. QED
    BY <1>4, <2>1, <2>2 DEF Orphaned
<1>. QED
  BY <1>2, <1>3, <1>4

\* The same for InstallSnapshot.
LEMMA InstallCallsAlike ==
    ASSUME RaftInv
    PROVE  /\ \A c \in isCalls : \A r : isCalls' = Answered(isCalls, c, r) =>
                 \A d \in isCalls' : \E e \in isCalls : d.LastIncludedIndex = e.LastIncludedIndex
           /\ \A s : isCalls' = Orphaned(isCalls, s) =>
                 \A d \in isCalls' : \E e \in isCalls : d.LastIncludedIndex = e.LastIncludedIndex
           /\ isCalls' \subseteq isCalls =>
                 \A d \in isCalls' : \E e \in isCalls : d.LastIncludedIndex = e.LastIncludedIndex
<1>1. isCalls \subseteq InstallSnapshotCall
  BY DEF RaftInv, CallInv
<1>2. ASSUME NEW c \in isCalls, NEW r, isCalls' = Answered(isCalls, c, r), NEW d \in isCalls'
      PROVE  \E e \in isCalls : d.LastIncludedIndex = e.LastIncludedIndex
  <2>. DEFINE a == [c EXCEPT !.done = TRUE, !.reply = r]
  <2>1. c \in InstallSnapshotCall
    BY <1>1
  <2>2. a.LastIncludedIndex = c.LastIncludedIndex
    BY <2>1 DEF InstallSnapshotCall
  <2>3. isCalls' \subseteq isCalls \cup {a}
    BY <1>2, AnsweredIn
  <2>. HIDE DEF a
  <2>. QED
    BY <2>2, <2>3
<1>3. ASSUME NEW s, isCalls' = Orphaned(isCalls, s), NEW d \in isCalls'
      PROVE  \E e \in isCalls : d.LastIncludedIndex = e.LastIncludedIndex
  <2>1. CASE d \in isCalls
    BY <2>1
  <2>2. ASSUME NEW c \in isCalls, d = [c EXCEPT !.live = FALSE]
        PROVE  d.LastIncludedIndex = c.LastIncludedIndex
    <3>1. c \in InstallSnapshotCall
      BY <1>1
    <3>. QED
      BY <2>2, <3>1 DEF InstallSnapshotCall
  <2>. QED
    BY <1>3, <2>1, <2>2 DEF Orphaned
<1>. QED
  BY <1>2, <1>3

\* Elections, up to the moment the winner makes itself leader.
LEMMA ElectionKeepsLead ==
    ASSUME RaftInv, RaftInv', LeadInv,
           \/ \E s \in Server : ToCandidate(s)
           \/ \E c \in rvCalls : RequestVoteRequestHandler(c) \/ RequestVoteResponseHandler(c)
    PROVE  LeadInv'
<1>1. /\ rf \in [Server -> RaftState] /\ disk \in [Server -> DiskState] /\ DurableState
      /\ rvCalls \subseteq RequestVoteCall
  BY DEF RaftInv, NodeInv, CallInv
<1>2. aeCalls' = aeCalls /\ isCalls' = isCalls => NoNewCall
  BY DEF NoNewCall, Alike
<1>3. ASSUME NEW s \in Server, ToCandidate(s) PROVE LeadInv'
  <2>. DEFINE g == Candidate(rf[s], s)
  <2>1. /\ g \in RaftState /\ g.currentTerm = rf[s].currentTerm + 1
        /\ g.log = rf[s].log /\ g.snapshotIndex = rf[s].snapshotIndex
    BY <1>1, CandidateIn DEF LogKept
  <2>2. g.role = "candidate"
    BY <1>1 DEF Candidate, RaftState
  <2>3. /\ rf' = [rf EXCEPT ![s] = g] /\ disk' = [disk EXCEPT ![s] = Persistent(g)]
        /\ aeCalls' = aeCalls /\ isCalls' = isCalls /\ led' = led /\ won' = won
        /\ strayed' = strayed /\ overlaid' = overlaid /\ granted \subseteq granted'
    BY <1>3 DEF ToCandidate, Save
  <2>. HIDE DEF g
  <2>4. used'.snapshots = used.snapshots
    BY <1>3 DEF ToCandidate, Use, RaftInv, RestInv
  <2>6. rf[s].currentTerm <= g.currentTerm /\ disk[s].currentTerm < g.currentTerm
    <3>1. rf[s].currentTerm \in Nat /\ disk[s].currentTerm \in Nat
      BY <1>1 DEF RaftState, DiskState
    <3>2. disk[s].currentTerm <= rf[s].currentTerm
      BY <1>1, <3>1 DEF DurableState, Durable
    <3>. QED
      BY <2>1, <3>1, <3>2
  <2>7. TermsGrow
    BY <2>1, <2>3, <2>6, SavedTermsGrow
  <2>. QED
    BY <1>2, <2>1, <2>2, <2>3, <2>4, <2>6, <2>7, QuietKeepsLead
<1>4. ASSUME NEW c \in rvCalls, RequestVoteRequestHandler(c) PROVE LeadInv'
  <2>. DEFINE s == c.to
              h == Observe(rf[s], c.Term)
              v == IF GrantsVote(h, c) THEN c.from ELSE h.votedFor
              g == [h EXCEPT !.votedFor = v]
  <2>1. s \in Server /\ c.Term \in Nat /\ rf[s] \in RaftState /\ c.from \in Server
    BY <1>1 DEF RequestVoteCall
  <2>2. h \in RaftState /\ LogKept(rf[s], h) /\ StandsAsBefore(rf[s], h)
    BY <2>1, ObserveIn, ToFollowerStands
  <2>3. /\ Save(s, g) /\ aeCalls' = aeCalls /\ isCalls' = isCalls /\ led' = led /\ won' = won
        /\ strayed' = strayed /\ overlaid' = overlaid /\ granted \subseteq granted'
        /\ used' = used
    BY <1>4 DEF RequestVoteRequestHandler
  <2>. HIDE DEF h
  <2>4. v \in Server \cup {NoServer}
    BY <2>1, <2>2 DEF RaftState
  <2>. HIDE DEF v
  <2>5. /\ g \in RaftState /\ g.log = h.log /\ g.snapshotIndex = h.snapshotIndex
        /\ g.role = h.role /\ g.currentTerm = h.currentTerm /\ g.voteCnt = h.voteCnt
    BY <2>2, <2>4 DEF RaftState
  <2>. HIDE DEF g
  <2>6. /\ StandsAsBefore(rf[s], g)
        /\ g.log = rf[s].log /\ g.snapshotIndex = rf[s].snapshotIndex
    BY <2>2, <2>5 DEF StandsAsBefore, VotesAsBefore, LogKept
  <2>. QED
    BY <1>2, <2>1, <2>3, <2>5, <2>6, SavedKeepsLead DEF Save
<1>5. ASSUME NEW c \in rvCalls, RequestVoteResponseHandler(c) PROVE LeadInv'
  <2>. DEFINE s == c.from
              g == AfterVoteReply(rf[s], c, c.reply)
  <2>1. s \in Server /\ c.reply.Term \in Nat /\ rf[s] \in RaftState
    BY <1>1 DEF RequestVoteCall
  <2>2. g \in RaftState /\ g.log = rf[s].log /\ g.snapshotIndex = rf[s].snapshotIndex
    BY <2>1, AfterVoteReplyIn DEF LogKept
  <2>3. /\ g.role = "leader" => rf[s].role = "leader" /\ g.currentTerm = rf[s].currentTerm
        /\ g.role = "candidate" => rf[s].role = "candidate" /\ g.currentTerm = rf[s].currentTerm
        /\ g.voteCnt > rf[s].voteCnt => rf[s].role = "candidate" /\ g.currentTerm = rf[s].currentTerm
    <3>. DEFINE a == rf[s]
    <3>1. a \in RaftState
      BY <2>1
    <3>. HIDE DEF a
    <3>2. /\ ToFollower(a, c.reply.Term).role = "follower"
          /\ ToFollower(a, c.reply.Term).voteCnt = a.voteCnt
      BY <3>1 DEF ToFollower, RaftState
    <3>3. /\ [a EXCEPT !.voteCnt = @ + 1].role = a.role
          /\ [a EXCEPT !.voteCnt = @ + 1].currentTerm = a.currentTerm
      BY <3>1 DEF RaftState
    <3>4. ~(a.voteCnt > a.voteCnt)
      BY <3>1 DEF RaftState
    <3>5. \/ AfterVoteReply(a, c, c.reply) \in {a, ToFollower(a, c.reply.Term)}
          \/ a.role = "candidate" /\ AfterVoteReply(a, c, c.reply) = [a EXCEPT !.voteCnt = @ + 1]
      BY DEF AfterVoteReply, CountsReply
    <3>6. g = AfterVoteReply(a, c, c.reply) /\ a = rf[s]
      BY DEF a
    <3>. HIDE DEF g
    <3>. QED
      BY <3>2, <3>3, <3>4, <3>5, <3>6
  <2>4. /\ rf' = [rf EXCEPT ![s] = g] /\ disk' = disk /\ aeCalls' = aeCalls
        /\ isCalls' = isCalls /\ led' = led /\ strayed' = strayed /\ overlaid' = overlaid
        /\ granted' = granted /\ used' = used
        /\ won' = won \cup (IF WinsWith(rf[s], g) THEN {<<s, g.currentTerm>>} ELSE {})
    BY <1>5 DEF RequestVoteResponseHandler
  <2>. HIDE DEF g
  <2>5. TermsGrow
    BY <1>1, <2>4 DEF TermsGrow, DiskState
  <2>. QED
    BY <1>2, <2>1, <2>2, <2>3, <2>4, <2>5, QuietKeepsLead
<1>. QED
  BY <1>3, <1>4, <1>5

\* Replies, and InstallSnapshot while there is no snapshot.
LEMMA RepliesKeepLead ==
    ASSUME RaftInv, RaftInv', LeadInv,
           \/ \E c \in aeCalls : \E r \in Returns(c, NoAnswer) : AppendEntriesResponseHandler(c, r)
           \/ \E c \in isCalls : InstallSnapshotRequestHandler(c)
           \/ \E c \in isCalls : \E r \in Returns(c, NoInstall) : InstallSnapshotResponseHandler(c, r)
    PROVE  LeadInv'
<1>1. /\ rf \in [Server -> RaftState] /\ service \in [Server -> Seq(Command)]
      /\ aeCalls \subseteq AppendEntriesCall /\ isCalls \subseteq InstallSnapshotCall
  BY DEF RaftInv, NodeInv, CallInv
<1>2. /\ aeCalls' = aeCalls => \A d \in aeCalls' : \E e \in aeCalls : Alike(d, e)
      /\ isCalls' = isCalls =>
           \A d \in isCalls' : \E e \in isCalls : d.LastIncludedIndex = e.LastIncludedIndex
  BY DEF Alike
<1>3. ASSUME NEW c \in aeCalls, NEW r \in Returns(c, NoAnswer), AppendEntriesResponseHandler(c, r)
      PROVE  LeadInv'
  <2>. DEFINE s == c.from
              g == AfterAppendReply(rf[s], c, r)
  <2>1. c \in AppendEntriesCall /\ s \in Server /\ rf[s] \in RaftState
    BY <1>1 DEF AppendEntriesCall
  <2>2. r.Term \in Nat /\ r.XIndex \in Int
    BY <2>1 DEF AppendEntriesCall, NoAnswer, Refusal, Returns
  <2>3. /\ g \in RaftState /\ StandsAsBefore(rf[s], g)
        /\ g.log = rf[s].log /\ g.snapshotIndex = rf[s].snapshotIndex
    BY <2>1, <2>2, AfterAppendReplyIn, AppendReplyStands DEF LogKept
  <2>4. Save(s, g) /\ UNCHANGED history /\ used' = used /\ aeCalls' \subseteq aeCalls /\ isCalls' = isCalls
    BY <1>3 DEF AppendEntriesResponseHandler
  <2>. HIDE DEF g
  <2>5. NoNewCall
    BY <1>2, <2>4, AppendCallsAlike DEF NoNewCall
  <2>6. led' = led
    BY <2>4 DEF history
  <2>. QED
    BY <2>1, <2>3, <2>4, <2>5, <2>6, SavedKeepsLead DEF Save
<1>4. ASSUME NEW c \in isCalls, InstallSnapshotRequestHandler(c) PROVE LeadInv'
  <2>. DEFINE s == c.to
              out == InstallOutcome(rf[s], service[s], c)
  <2>1. /\ c \in InstallSnapshotCall /\ s \in Server
        /\ rf[s] \in RaftState /\ service[s] \in Seq(Command)
        /\ Covered(rf[s]) /\ Len(c.Snapshot) = c.LastIncludedIndex + 1
    BY <1>1 DEF InstallSnapshotCall, RaftInv, NodeInv, CallInv
  <2>2. out.g \in RaftState /\ StandsAsBefore(rf[s], out.g)
    BY <2>1, InstallOutcomeIn, InstallStands DEF OutcomeState
  <2>3. /\ Finish(s, out) /\ UNCHANGED history /\ used' = used /\ aeCalls' = aeCalls
        /\ isCalls' = Answered(isCalls, c, [Term |-> out.g.currentTerm])
    BY <1>4 DEF InstallSnapshotRequestHandler
  <2>4. ASSUME used'.snapshots = 0 PROVE out.g = rf[s]
    <3>1. rf[s].snapshotIndex = -1 /\ c.LastIncludedIndex = -1
      BY <2>1, <2>3, <2>4 DEF LeadInv, NoSnapshotYet
    <3>2. rf[s].snapshotIndex >= c.LastIncludedIndex
      BY <3>1
    <3>. QED
      BY <3>2 DEF InstallOutcome, Outcome
  <2>. HIDE DEF out
  <2>5. NoNewCall
    BY <1>2, <2>3, InstallCallsAlike DEF NoNewCall
  <2>6. led' = led
    BY <2>3 DEF history
  <2>. QED
    BY <2>1, <2>2, <2>3, <2>4, <2>5, <2>6, SavedKeepsLead DEF Finish
<1>5. ASSUME NEW c \in isCalls, NEW r \in Returns(c, NoInstall), InstallSnapshotResponseHandler(c, r)
      PROVE  LeadInv'
  <2>. DEFINE s == c.from
              g == AfterInstallReply(rf[s], c, r)
  <2>1. c \in InstallSnapshotCall /\ s \in Server /\ rf[s] \in RaftState
    BY <1>1 DEF InstallSnapshotCall
  <2>2. r \in [Term : Nat]
    BY <2>1 DEF InstallSnapshotCall, NoInstall, Returns
  <2>3. /\ g \in RaftState /\ StandsAsBefore(rf[s], g)
        /\ g.log = rf[s].log /\ g.snapshotIndex = rf[s].snapshotIndex
    BY <2>1, <2>2, AfterInstallReplyIn, InstallReplyStands DEF LogKept
  <2>4. Save(s, g) /\ UNCHANGED history /\ used' = used /\ aeCalls' = aeCalls /\ isCalls' \subseteq isCalls
    BY <1>5 DEF InstallSnapshotResponseHandler
  <2>. HIDE DEF g
  <2>5. NoNewCall
    BY <1>2, <2>4, InstallCallsAlike DEF NoNewCall
  <2>6. led' = led
    BY <2>4 DEF history
  <2>. QED
    BY <2>1, <2>3, <2>4, <2>5, <2>6, SavedKeepsLead DEF Save
<1>. QED
  BY <1>3, <1>4, <1>5

\* What a server does by itself without touching its log, and restarts.
LEMMA OwnStepsKeepLead ==
    ASSUME RaftInv, RaftInv', LeadInv, NEW s \in Server,
           \/ LeaderTickerCheck(s) \/ LeaderUpdateCommitIndex(s) \/ Restart(s)
           \/ \E i \in 1..Len(service[s]) : Snapshot(s, i - 1)
    PROVE  LeadInv'
<1>1. /\ rf \in [Server -> RaftState] /\ service[s] \in Seq(Command) /\ Covered(rf[s])
      /\ disk \in [Server -> DiskState] /\ Durable(disk[s], rf[s])
      /\ used \in [elections : Nat, commands : SUBSET Command, restarts : Nat, snapshots : Nat]
  BY DEF RaftInv, NodeInv, RestInv, DurableState
<1>2. /\ aeCalls' = aeCalls => \A d \in aeCalls' : \E e \in aeCalls : Alike(d, e)
      /\ isCalls' = isCalls =>
           \A d \in isCalls' : \E e \in isCalls : d.LastIncludedIndex = e.LastIncludedIndex
  BY DEF Alike
<1>3. disk' = disk => TermsGrow
  BY <1>1 DEF TermsGrow, DiskState
<1>4. CASE LeaderTickerCheck(s)
  <2>1. /\ rf' = [rf EXCEPT ![s] = rf[s]] /\ disk' = disk /\ aeCalls' = aeCalls /\ isCalls' = isCalls
        /\ UNCHANGED history /\ used' = used
    BY <1>1, <1>4 DEF LeaderTickerCheck, node, calls
  <2>2. led' = led /\ NoNewCall
    BY <1>2, <2>1 DEF history, NoNewCall
  <2>. QED
    BY <1>3, <2>1, <2>2, QuietKeepsLead
<1>5. CASE LeaderUpdateCommitIndex(s)
  <2>1. PICK n \in {rf[s].matchIndex[p] : p \in Server} :
                Finish(s, AfterCommitCheck(rf[s], service[s], n))
    BY <1>5 DEF LeaderUpdateCommitIndex
  <2>2. n \in Int /\ rf[s] \in RaftState
    BY <1>1 DEF RaftState
  <2>. DEFINE out == AfterCommitCheck(rf[s], service[s], n)
  <2>3. /\ out.g \in RaftState /\ StandsAsBefore(rf[s], out.g)
        /\ out.g.log = rf[s].log /\ out.g.snapshotIndex = rf[s].snapshotIndex
    <3>1. out \in OutcomeState /\ LogKept(rf[s], out.g) /\ StandsAsBefore(rf[s], out.g)
      BY <1>1, <2>2, AfterCommitCheckIn, CommitCheckStands
    <3>. HIDE DEF out
    <3>. QED
      BY <3>1 DEF OutcomeState, LogKept
  <2>4. /\ aeCalls' = aeCalls /\ isCalls' = isCalls /\ used' = used /\ granted' = granted
        /\ won' = won /\ led' = led /\ overlaid' = overlaid /\ strayed \subseteq strayed'
    BY <1>5 DEF LeaderUpdateCommitIndex, calls
  <2>5. Finish(s, out)
    BY <2>1
  <2>. HIDE DEF out
  <2>6. NoNewCall
    BY <1>2, <2>4 DEF NoNewCall
  <2>. QED
    BY <2>3, <2>4, <2>5, <2>6, SavedKeepsLead DEF Finish
<1>6. CASE Restart(s)
  <2>. DEFINE g == Booted(disk[s])
  <2>1. disk[s] \in DiskState
    BY <1>1
  <2>2. g.log = rf[s].log /\ g.snapshotIndex = rf[s].snapshotIndex
    BY <1>1, <2>1, BootedIn DEF LogKept, Durable
  <2>3. g.role = "follower"
    BY DEF Booted
  <2>4. /\ rf' = [rf EXCEPT ![s] = g] /\ disk' = disk /\ UNCHANGED history
        /\ aeCalls' = Orphaned(aeCalls, s) /\ isCalls' = Orphaned(isCalls, s)
        /\ Use("restarts")
    BY <1>6 DEF Restart
  <2>. HIDE DEF g
  <2>5. used'.snapshots = used.snapshots
    BY <1>1, <2>4 DEF Use
  <2>6. NoNewCall
    BY <2>4, AppendCallsAlike, InstallCallsAlike DEF NoNewCall
  <2>7. led' = led
    BY <2>4, <2>5 DEF history
  <2>. QED
    BY <1>3, <2>2, <2>3, <2>4, <2>5, <2>6, <2>7, QuietKeepsLead
<1>7. ASSUME NEW i \in 1..Len(service[s]), Snapshot(s, i - 1) PROVE LeadInv'
  <2>. DEFINE out == AfterSnapshot(rf[s], service[s], i - 1)
  <2>1. i - 1 \in Nat /\ (i - 1) + 1 <= Len(service[s]) /\ rf[s] \in RaftState
    BY <1>1, <1>7
  <2>2. out.g \in RaftState /\ StandsAsBefore(rf[s], out.g)
    BY <1>1, <2>1, AfterSnapshotIn, SnapshotStands DEF OutcomeState
  <2>3. /\ Finish(s, out) /\ aeCalls' = aeCalls /\ isCalls' = isCalls /\ UNCHANGED history
        /\ Use("snapshots")
    BY <1>7 DEF Snapshot, calls
  <2>. HIDE DEF out
  <2>4. used'.snapshots # 0
    BY <1>1, <2>3 DEF Use
  <2>5. led' = led /\ NoNewCall
    BY <1>2, <2>3, <2>4 DEF history, NoNewCall
  <2>. QED
    BY <2>2, <2>3, <2>4, <2>5, SavedKeepsLead DEF Finish
<1>. QED
  BY <1>4, <1>5, <1>6, <1>7

-----------------------------------------------------------------------------
(* Steps that make a leader, or change or send a log *)

\* toLeader.
LEMMA ToLeaderKeepsLead ==
    ASSUME RaftInv, RaftInv', LeadInv, NEW s \in Server, ToLeader(s)
    PROVE  LeadInv'
<1>. DEFINE g == Leader(rf[s], s)
            t == rf[s].currentTerm
<1>1. /\ rf \in [Server -> RaftState] /\ disk \in [Server -> DiskState] /\ Durable(disk[s], rf[s])
      /\ LeadsOwnTerm /\ NoSnapshotYet /\ t \in Nat /\ led \subseteq Server \X Nat
  BY DEF RaftInv, NodeInv, RestInv, DurableState, LeadInv, RaftState
<1>2. /\ g \in RaftState /\ g.log = rf[s].log /\ g.snapshotIndex = rf[s].snapshotIndex
      /\ g.currentTerm = t
  BY <1>1, LeaderIn DEF LogKept
<1>3. g.role = "leader"
  BY <1>1 DEF Leader, RaftState
<1>4. /\ rf' = [rf EXCEPT ![s] = g] /\ disk' = [disk EXCEPT ![s] = Persistent(g)]
      /\ aeCalls' = aeCalls /\ isCalls' = isCalls /\ used' = used /\ granted' = granted
      /\ won' = won /\ strayed' = strayed /\ overlaid' = overlaid
      /\ led' = led \cup {<<s, t>>}
  BY DEF ToLeader, Save, calls
<1>. HIDE DEF g
<1>5. TermsGrow /\ disk'[s].currentTerm = t
  <2>1. rf[s].currentTerm <= g.currentTerm
    BY <1>1, <1>2
  <2>. QED
    BY <1>2, <1>4, <2>1, SavedTermsGrow
<1>. HIDE DEF t
<1>6. /\ \A p \in Server : rf'[p] = IF p = s THEN g ELSE rf[p]
      /\ \A p \in Server \ {s} : disk'[p] = disk[p]
      /\ \A p \in Server : disk[p].currentTerm \in Nat /\ disk'[p].currentTerm \in Nat
  BY <1>1, <1>4 DEF RaftInv, NodeInv, DiskState
<1>7. LeadsOwnTerm'
  <2>1. ASSUME NEW a \in led' PROVE a[2] <= disk'[a[1]].currentTerm
    <3>1. CASE a \in led
      <4>1. a[1] \in Server /\ a[2] \in Nat /\ a[2] <= disk[a[1]].currentTerm
        BY <1>1, <3>1 DEF LeadsOwnTerm
      <4>2. disk[a[1]].currentTerm <= disk'[a[1]].currentTerm
        BY <1>5, <4>1 DEF TermsGrow
      <4>. QED
        BY <1>6, <4>1, <4>2
    <3>2. CASE a = <<s, t>>
      BY <1>1, <1>5, <3>2
    <3>. QED
      BY <1>4, <3>1, <3>2
  <2>2. ASSUME NEW p \in Server PROVE rf'[p].role = "leader" => <<p, rf'[p].currentTerm>> \in led'
    BY <1>1, <1>2, <1>4, <1>6 DEF LeadsOwnTerm
  <2>3. ASSUME NEW p \in Server PROVE rf'[p].role = "candidate" => <<p, rf'[p].currentTerm>> \notin led'
    BY <1>1, <1>3, <1>4, <1>6 DEF LeadsOwnTerm
  <2>4. \A c \in aeCalls' : c.from # c.to
    BY <1>1, <1>4 DEF LeadsOwnTerm
  <2>. QED
    BY <2>1, <2>2, <2>3, <2>4 DEF LeadsOwnTerm
<1>8. NoSnapshotYet'
  BY <1>1, <1>2, <1>4, <1>6 DEF NoSnapshotYet
<1>. QED
  BY <1>7, <1>8 DEF LeadInv

\* A round of AppendEntries goes to the other peers.
LEMMA SendKeepsLead ==
    ASSUME RaftInv, RaftInv', LeadInv, NEW s \in Server, LeaderSendAppendEntriesRPC(s),
           disk' = disk, UNCHANGED <<used, granted, won, led, overlaid>>
    PROVE  LeadInv'
<1>. DEFINE g == rf[s]
            others == Server \ {s}
            behind == {p \in others : Prev(g, p) < g.snapshotIndex}
            able   == \A p \in others : CanSend(g.log, g.snapshotIndex, Prev(g, p))
<1>1. /\ g \in RaftState /\ rf = [rf EXCEPT ![s] = g] /\ disk \in [Server -> DiskState]
      /\ LeadsOwnTerm /\ NoSnapshotYet
  BY DEF RaftInv, NodeInv, LeadInv
<1>2. TermsGrow
  BY <1>1 DEF TermsGrow, DiskState
<1>3. CASE ~able
  <2>1. rf' = rf /\ aeCalls' = aeCalls /\ isCalls' = isCalls /\ strayed' = strayed
    BY <1>3 DEF LeaderSendAppendEntriesRPC, calls
  <2>. HIDE DEF g, able
  <2>2. NoNewCall
    BY <2>1 DEF NoNewCall, Alike
  <2>3. rf' = [rf EXCEPT ![s] = rf[s]]
    BY <1>1, <2>1 DEF g
  <2>. QED
    BY <1>2, <2>2, <2>3, QuietKeepsLead
<1>4. CASE able
  <2>1. /\ aeCalls' = aeCalls \cup {AppendEntriesTo(g, s, p) : p \in others \ behind}
        /\ isCalls' = isCalls \cup {InstallSnapshotTo(g, s, p) : p \in behind}
        /\ strayed' = strayed \cup Stray(s) /\ rf' = rf
    BY <1>4 DEF LeaderSendAppendEntriesRPC, node
  <2>5. ASSUME NEW c \in aeCalls'
        PROVE  c \in aeCalls \/ \E p \in others \ behind : c = AppendEntriesTo(g, s, p)
    BY <2>1
  <2>6. ASSUME NEW c \in isCalls'
        PROVE  c \in isCalls \/ \E p \in behind : c = InstallSnapshotTo(g, s, p)
    BY <2>1
  <2>7. \A p \in others \ behind : p \in Server /\ p # s /\ ~(Prev(g, p) < g.snapshotIndex)
    OBVIOUS
  <2>. HIDE DEF behind, able
  <2>8. LeadsOwnTerm'
    <3>1. ASSUME NEW c \in aeCalls' PROVE c.from # c.to
      BY <1>1, <2>5, <2>7 DEF LeadsOwnTerm, AppendEntriesTo
    <3>. QED
      BY <1>1, <2>1, <3>1 DEF LeadsOwnTerm
  <2>9. NoSnapshotYet'
    <3>1. ASSUME used.snapshots = 0, NEW c \in isCalls' PROVE c.LastIncludedIndex = -1
      BY <1>1, <2>6, <3>1 DEF NoSnapshotYet, InstallSnapshotTo
    <3>. QED
      BY <1>1, <2>1, <3>1 DEF NoSnapshotYet
  <2>. QED
    BY <2>8, <2>9 DEF LeadInv
<1>. QED
  BY <1>3, <1>4

\* Start.
LEMMA StartKeepsLead ==
    ASSUME RaftInv, RaftInv', LeadInv, NEW s \in Server,
           NEW command \in Command, Start(s, command)
    PROVE  LeadInv'
<1>. DEFINE log == rf[s].log
            t   == rf[s].currentTerm
            g   == WithCommand(rf[s], s, command)
            e   == [Term |-> t, Index |-> LastIndex(rf[s]) + 1, Command |-> command]
            new == Append(log, e)
<1>1. /\ rf \in [Server -> RaftState] /\ disk \in [Server -> DiskState] /\ Durable(disk[s], rf[s])
      /\ LeadsOwnTerm /\ NoSnapshotYet /\ t \in Nat /\ log \in Seq(LogEntry)
  BY DEF RaftInv, NodeInv, DurableState, LeadInv, RaftState
<1>2. g \in RaftState /\ StandsAsBefore(rf[s], g)
  BY <1>1, WithCommandIn, LeaderStands
<1>3. g.log = new /\ g.snapshotIndex = rf[s].snapshotIndex /\ g.currentTerm = t /\ g.role = rf[s].role
  BY <1>1 DEF WithCommand, RaftState
<1>4. e \in LogEntry /\ e.Term = t
  <2>1. LastIndex(rf[s]) \in LogIndex
    BY <1>1, LastOfLogIn
  <2>2. LastIndex(rf[s]) + 1 \in Nat
    BY <2>1 DEF LogIndex
  <2>. QED
    BY <1>1, <2>2 DEF LogEntry
<1>5. /\ rf' = [rf EXCEPT ![s] = g] /\ disk' = [disk EXCEPT ![s] = Persistent(g)]
      /\ aeCalls' = aeCalls /\ isCalls' = isCalls /\ used'.snapshots = used.snapshots
      /\ UNCHANGED history /\ rf[s].role = "leader"
  BY DEF Start, Save, calls, IsLeader, RaftInv, RestInv
<1>. HIDE DEF g, e
<1>6. <<s, t>> \in led /\ led' = led
  BY <1>1, <1>5 DEF LeadsOwnTerm, history
<1>7. TermsGrow /\ disk'[s].currentTerm = t /\ disk[s].currentTerm = t
  <2>1. rf[s].currentTerm <= g.currentTerm
    BY <1>1, <1>3
  <2>2. TermsGrow /\ disk'[s].currentTerm = t
    BY <1>2, <1>3, <1>5, <2>1, SavedTermsGrow
  <2>3. t <= disk[s].currentTerm /\ disk[s].currentTerm <= t /\ disk[s].currentTerm \in Nat
    <3>1. t <= disk[s].currentTerm
      BY <1>1, <1>6 DEF LeadsOwnTerm
    <3>2. disk[s].currentTerm <= t
      BY <2>2 DEF TermsGrow
    <3>. QED
      BY <1>1, <3>1, <3>2 DEF DiskState
  <2>. QED
    BY <1>1, <2>2, <2>3
<1>8. /\ \A p \in Server : rf'[p] = IF p = s THEN g ELSE rf[p]
      /\ \A p \in Server : disk'[p].currentTerm = disk[p].currentTerm
  <2>1. \A p \in Server \ {s} : disk'[p] = disk[p]
    BY <1>1, <1>5
  <2>. QED
    BY <1>1, <1>5, <1>7, <2>1
<1>9. LeadsOwnTerm'
  <2>1. ASSUME NEW p \in Server, rf'[p].role = "leader"
        PROVE  rf[p].role = "leader" /\ rf'[p].currentTerm = rf[p].currentTerm
    BY <1>3, <1>5, <1>8, <2>1
  <2>2. ASSUME NEW p \in Server, rf'[p].role = "candidate"
        PROVE  rf[p].role = "candidate" /\ rf'[p].currentTerm = rf[p].currentTerm
    BY <1>3, <1>5, <1>8, <2>2
  <2>3. \A c \in aeCalls' : c.from # c.to
    BY <1>1, <1>5 DEF LeadsOwnTerm
  <2>. QED
    BY <1>1, <1>6, <1>7, <2>1, <2>2, <2>3, LeadsKept
<1>10. NoSnapshotYet'
  BY <1>1, <1>3, <1>5, <1>8 DEF NoSnapshotYet
<1>. QED
  BY <1>9, <1>10 DEF LeadInv

\* What AppendEntries leaves of the peer besides the commit index.
LEMMA FollowerAfterFields ==
    ASSUME NEW g \in RaftState, NEW svc, NEW answer, NEW leaderCommit
    PROVE  LET h == FollowerAfter(g, svc, answer, leaderCommit).g
           IN  /\ h.log = answer.log /\ h.snapshotIndex = g.snapshotIndex
               /\ h.currentTerm = g.currentTerm /\ h.role = g.role
<1>. DEFINE f == [g EXCEPT !.log = answer.log]
            h == FollowerAfter(g, svc, answer, leaderCommit).g
<1>1. PICK n : h \in {f, [f EXCEPT !.commitIndex = n]}
  BY DEF FollowerAfter, CommitTo, Deliver, Outcome
<1>2. /\ f.log = answer.log /\ f.snapshotIndex = g.snapshotIndex
      /\ f.currentTerm = g.currentTerm /\ f.role = g.role
  BY DEF RaftState
<1>3. LET k == [f EXCEPT !.commitIndex = n]
      IN  /\ k.log = answer.log /\ k.snapshotIndex = g.snapshotIndex
          /\ k.currentTerm = g.currentTerm /\ k.role = g.role
  BY DEF RaftState
<1>. HIDE DEF f, h
<1>4. /\ h.log = answer.log /\ h.snapshotIndex = g.snapshotIndex
      /\ h.currentTerm = g.currentTerm /\ h.role = g.role
  BY <1>1, <1>2, <1>3
<1>. QED
  BY <1>4 DEF h

\* toFollower on a request that is not old.
LEMMA ToFollowerFields ==
    ASSUME NEW g \in RaftState, NEW term \in Nat, ~(term < g.currentTerm)
    PROVE  ToFollower(g, term).currentTerm = term /\ ToFollower(g, term).role = "follower"
<1>1. g.currentTerm \in Nat
  BY DEF RaftState
<1>2. /\ ToFollower(g, term).role = "follower"
      /\ ToFollower(g, term).currentTerm = IF g.currentTerm < term THEN term ELSE g.currentTerm
  BY DEF ToFollower, RaftState
<1>. QED
  BY <1>1, <1>2

\* AppendEntries at a follower.
LEMMA AppendRequestKeepsLead ==
    ASSUME RaftInv, RaftInv', LeadInv, NEW c \in aeCalls,
           AppendEntriesRequestHandler(c)
    PROVE  LeadInv'
<1>. DEFINE s == c.to
            g == ToFollower(rf[s], c.Term)
            answer == FollowerHandleLog(g.log, g.snapshotIndex, c)
            out == FollowerAfter(g, service[s], answer, c.LeaderCommit)
            new == out.g
<1>1. /\ rf \in [Server -> RaftState] /\ disk \in [Server -> DiskState]
      /\ service \in [Server -> Seq(Command)] /\ aeCalls \subseteq AppendEntriesCall
      /\ LeadsOwnTerm /\ NoSnapshotYet
  BY DEF RaftInv, NodeInv, CallInv, LeadInv
<1>2. /\ s \in Server /\ c.from \in Server /\ c.Term \in Nat /\ c.PrevLogIndex \in Int
      /\ c.Entries \in Seq(LogEntry) /\ c.LeaderCommit \in LogIndex
      /\ rf[s] \in RaftState /\ service[s] \in Seq(Command)
  BY <1>1 DEF AppendEntriesCall
<1>3. /\ isCalls' = isCalls /\ used' = used /\ granted' = granted /\ won' = won /\ led' = led
      /\ strayed' = strayed /\ overlaid \subseteq overlaid'
  BY DEF AppendEntriesRequestHandler
<1>5. \A d \in aeCalls' : \E e \in aeCalls : Alike(d, e)
  BY AppendCallsAlike DEF AppendEntriesRequestHandler
<1>6. NoNewCall
  BY <1>3, <1>5 DEF NoNewCall
<1>7. CASE c.Term < rf[s].currentTerm
  <2>1. Save(s, rf[s])
    BY <1>7 DEF AppendEntriesRequestHandler
  <2>2. StandsAsBefore(rf[s], rf[s])
    BY <1>2, StandsSame
  <2>. QED
    BY <1>2, <1>3, <1>6, <2>1, <2>2, SavedKeepsLead DEF Save
<1>8. CASE ~(c.Term < rf[s].currentTerm)
  <2>1. Finish(s, out)
    BY <1>8 DEF AppendEntriesRequestHandler
  <2>2. /\ g \in RaftState /\ g.log = rf[s].log /\ g.snapshotIndex = rf[s].snapshotIndex
        /\ g.currentTerm = c.Term /\ g.role = "follower"
    BY <1>2, <1>8, ToFollowerIn, ToFollowerFields DEF LogKept
  <2>. HIDE DEF g
  <2>3. answer.log \in Seq(LogEntry)
    <3>1. g.log \in Seq(LogEntry) /\ g.snapshotIndex \in LogIndex
      BY <2>2 DEF RaftState
    <3>. QED
      BY <1>2, <3>1, FollowerHandleLogIn
  <2>4. /\ new.log = answer.log /\ new.snapshotIndex = g.snapshotIndex
        /\ new.currentTerm = c.Term /\ new.role = "follower"
    BY <2>2, FollowerAfterFields
  <2>5. new \in RaftState
    <3>. HIDE DEF answer
    <3>. QED
      BY <1>2, <2>2, <2>3, FollowerAfterIn DEF OutcomeState
  <2>6. rf' = [rf EXCEPT ![s] = new] /\ disk' = [disk EXCEPT ![s] = Persistent(new)]
    BY <2>1 DEF Finish
  <2>. HIDE DEF new, out
  <2>7. rf[s].currentTerm <= new.currentTerm
    <3>1. rf[s].currentTerm \in Nat
      BY <1>2 DEF RaftState
    <3>. QED
      BY <1>2, <1>8, <2>4, <3>1
  <2>8. TermsGrow /\ disk'[s].currentTerm = c.Term
    BY <1>2, <2>4, <2>5, <2>6, <2>7, SavedTermsGrow
  <2>9. /\ \A p \in Server : rf'[p] = IF p = s THEN new ELSE rf[p]
        /\ \A p \in Server \ {s} : disk'[p] = disk[p]
    BY <1>1, <2>6
  <2>10. LeadsOwnTerm'
    <3>1. ASSUME NEW p \in Server, rf'[p].role = "leader"
          PROVE  rf[p].role = "leader" /\ rf'[p].currentTerm = rf[p].currentTerm
      BY <2>4, <2>9, <3>1
    <3>2. ASSUME NEW p \in Server, rf'[p].role = "candidate"
          PROVE  rf[p].role = "candidate" /\ rf'[p].currentTerm = rf[p].currentTerm
      BY <2>4, <2>9, <3>2
    <3>3. \A d \in aeCalls' : d.from # d.to
      BY <1>1, <1>5 DEF LeadsOwnTerm, Alike
    <3>. QED
      BY <1>1, <1>3, <2>8, <3>1, <3>2, <3>3, LeadsKept
  <2>11. NoSnapshotYet'
    <3>1. ASSUME used.snapshots = 0, NEW p \in Server PROVE rf'[p].snapshotIndex = -1
      BY <1>1, <1>2, <2>2, <2>4, <2>9, <3>1 DEF NoSnapshotYet
    <3>. QED
      BY <1>1, <1>3, <3>1 DEF NoSnapshotYet
  <2>. QED
    BY <2>10, <2>11 DEF LeadInv
<1>. QED
  BY <1>7, <1>8

-----------------------------------------------------------------------------
\* Both hold in every history.
THEOREM LeadInvariant == Spec => []LeadInv
<1>1. Init => LeadInv
  <2>. SUFFICES ASSUME Init PROVE LeadInv
    OBVIOUS
  <2>1. /\ \A s \in Server : /\ rf[s].log = <<>> /\ rf[s].role = "follower"
                             /\ rf[s].snapshotIndex = -1
        /\ aeCalls = {} /\ isCalls = {} /\ led = {}
    BY DEF Init, Booted, NewDisk
  <2>. QED
    BY <2>1 DEF LeadInv, LeadsOwnTerm, NoSnapshotYet
<1>2. ASSUME RaftInv, RaftInv', LeadInv, [Next]_vars
      PROVE  LeadInv'
  <2>1. CASE UNCHANGED vars
    <3>1. UNCHANGED <<rf, disk, aeCalls, isCalls, used, granted, won, led, strayed, overlaid>>
      BY <2>1 DEF vars, node, calls, history
    <3>. QED
      BY <1>2, <3>1 DEF LeadInv, LeadsOwnTerm, NoSnapshotYet
  <2>2. CASE Deliveries
    BY <1>2, <2>2, ElectionKeepsLead, RepliesKeepLead, AppendRequestKeepsLead DEF Deliveries
  <2>3. ASSUME NEW s \in Server, ServerStep(s) PROVE LeadInv'
    <3>1. CASE LeaderTickerSend(s) \/ StartSend(s)
      <4>1. /\ LeaderSendAppendEntriesRPC(s) /\ UNCHANGED <<used, granted, won, led, overlaid>>
            /\ disk' = disk
        BY <3>1 DEF LeaderTickerSend, StartSend, LeaderSendAppendEntriesRPC, node
      <4>. QED
        BY <1>2, <4>1, SendKeepsLead
    <3>2. CASE \E command \in Command : Start(s, command)
      BY <1>2, <3>2, StartKeepsLead
    <3>3. CASE ToCandidate(s)
      BY <1>2, <3>3, ElectionKeepsLead
    <3>4. CASE ToLeader(s)
      BY <1>2, <3>4, ToLeaderKeepsLead
    <3>5. CASE \/ LeaderTickerCheck(s) \/ LeaderUpdateCommitIndex(s) \/ Restart(s)
               \/ \E i \in 1..Len(service[s]) : Snapshot(s, i - 1)
      BY <1>2, <3>5, OwnStepsKeepLead
    <3>. QED
      BY <2>3, <3>1, <3>2, <3>3, <3>4, <3>5 DEF ServerStep
  <2>. QED
    BY <1>2, <2>1, <2>2, <2>3 DEF Next
<1>3. RaftInv /\ RaftInv' /\ LeadInv /\ [Next]_vars => LeadInv'
  BY <1>2
<1>. QED
  BY <1>1, <1>3, RaftInvariant, PTL DEF Spec

-----------------------------------------------------------------------------
(***************************************************************************)
(* One leader never panics, and nobody else does.                          *)
(***************************************************************************)

\* All entries of log are of term t.
OneTerm(log, t) == \A i \in DOMAIN log : log[i].Term = t

\* The term a snapshot that ends at index n has when all entries are of term t.
TermUpTo(n, t) == IF n = -1 THEN 0 ELSE t

\* The last index of a log without gaps.
LEMMA LastOfFollows ==
    ASSUME NEW log \in Seq(LogEntry), NEW n \in LogIndex, Follows(log, n)
    PROVE  LastLogIndex(log, n) = n + Len(log)
<1>1. CASE log = <<>>
  BY <1>1 DEF LastLogIndex, LogIndex
<1>2. CASE log # <<>>
  <2>1. Len(log) \in DOMAIN log
    BY <1>2, EmptySeq
  <2>. QED
    BY <1>2, <2>1 DEF LastLogIndex, Follows
<1>. QED
  BY <1>1, <1>2

\* A slice of a log of one term.
LEMMA SliceOneTerm ==
    ASSUME NEW log \in Seq(LogEntry), NEW t, OneTerm(log, t),
           NEW a \in Nat \ {0}, NEW b \in Int, b <= Len(log)
    PROVE  OneTerm(SubSeq(log, a, b), t)
<1>1. \A i \in a..b : log[i] \in LogEntry
  BY ElementOfSeq
<1>2. /\ SubSeq(log, a, b) \in Seq(LogEntry)
      /\ Len(SubSeq(log, a, b)) = IF a <= b THEN b - a + 1 ELSE 0
      /\ \A i \in 1..(b - a + 1) : SubSeq(log, a, b)[i] = log[a + i - 1]
  BY <1>1, SubSeqProperties
<1>3. ASSUME NEW i \in DOMAIN SubSeq(log, a, b) PROVE SubSeq(log, a, b)[i].Term = t
  <2>1. i \in 1..(b - a + 1) /\ a + i - 1 \in DOMAIN log
    BY <1>2, <1>3
  <2>. QED
    BY <1>2, <2>1 DEF OneTerm
<1>. QED
  BY <1>3 DEF OneTerm

(***************************************************************************)
(* What a request does to a log of the same single term: the log does not  *)
(* get shorter, ends where it did or where the entries of the request do,  *)
(* and a refusal points at most one beyond its end.                        *)
(***************************************************************************)
LEMMA MergeOneTerm ==
    ASSUME NEW log \in Seq(LogEntry), NEW entries \in Seq(LogEntry), NEW t,
           OneTerm(log, t), OneTerm(entries, t), NEW at \in 0..Len(log)
    PROVE  LET new == MergeEntries(log, at, entries)
           IN  /\ OneTerm(new, t) /\ Len(new) >= Len(log)
               /\ Len(new) \in {Len(log), at + Len(entries)}
<1>. DEFINE differ == {i \in DOMAIN entries :
                          at + i <= Len(log) /\ log[at + i].Term # entries[i].Term}
<1>1. differ = {}
  <2>1. ASSUME NEW i \in DOMAIN entries, at + i <= Len(log) PROVE log[at + i].Term = entries[i].Term
    BY <2>1 DEF OneTerm
  <2>. QED
    BY <2>1
<1>2. CASE Len(log) - at <= Len(entries)
  <2>1. MergeEntries(log, at, entries) = SubSeq(log, 1, at) \o entries
    BY <1>2 DEF MergeEntries
  <2>2. SubSeq(log, 1, at) \in Seq(LogEntry) /\ Len(SubSeq(log, 1, at)) = at
    <3>1. \A i \in 1..at : log[i] \in LogEntry
      BY ElementOfSeq
    <3>. QED
      BY <3>1, SubSeqProperties
  <2>3. OneTerm(SubSeq(log, 1, at), t)
    BY SliceOneTerm
  <2>. DEFINE x == SubSeq(log, 1, at)
  <2>. HIDE DEF x
  <2>4. /\ Len(x \o entries) = Len(x) + Len(entries)
        /\ \A i \in 1..(Len(x) + Len(entries)) :
               (x \o entries)[i] = IF i <= Len(x) THEN x[i] ELSE entries[i - Len(x)]
    BY <2>2, JoinedAt DEF x
  <2>5. x \o entries \in Seq(LogEntry) /\ Len(x) = at /\ x \in Seq(LogEntry) /\ OneTerm(x, t)
    BY <2>2, <2>3, ConcatProperties DEF x
  <2>6. OneTerm(x \o entries, t)
    <3>1. ASSUME NEW i \in DOMAIN (x \o entries) PROVE (x \o entries)[i].Term = t
      <4>1. i \in 1..(Len(x) + Len(entries))
        BY <2>4, <2>5, <3>1
      <4>2. CASE i <= Len(x)
        BY <2>4, <2>5, <4>1, <4>2 DEF OneTerm
      <4>3. CASE ~(i <= Len(x))
        <5>1. i - Len(x) \in DOMAIN entries
          BY <2>5, <4>1, <4>3
        <5>. QED
          BY <2>4, <4>1, <4>3, <5>1 DEF OneTerm
      <4>. QED
        BY <4>2, <4>3
    <3>. QED
      BY <3>1 DEF OneTerm
  <2>. QED
    BY <1>2, <2>1, <2>4, <2>5, <2>6 DEF x
<1>3. CASE ~(Len(log) - at <= Len(entries))
  <2>1. MergeEntries(log, at, entries) = log
    BY <1>1, <1>3 DEF MergeEntries
  <2>. QED
    BY <2>1
<1>. QED
  BY <1>2, <1>3

\* The same behind a snapshot.
LEMMA MergeBehindOneTerm ==
    ASSUME NEW log \in Seq(LogEntry), NEW n \in LogIndex, NEW entries \in Seq(LogEntry),
           NEW prev \in Int, NEW t, OneTerm(log, t), OneTerm(entries, t), Follows(entries, prev)
    PROVE  LET new == MergeBehindSnapshot(log, n, entries)
           IN  /\ OneTerm(new, t) /\ Len(new) >= Len(log)
               /\ n + Len(new) \in {n + Len(log), prev + Len(entries)}
<1>. DEFINE from == FindIndex(entries, n + 1)
            new  == SubSeq(entries, from, Len(entries))
<1>1. CASE from = 0
  BY <1>1 DEF MergeBehindSnapshot, LogIndex
<1>2. CASE from # 0
  <2>1. from \in 1..Len(entries) /\ from = n + 1 - prev /\ n \in Int
    <3>1. n \in Int /\ n + 1 \in Int
      BY DEF LogIndex
    <3>2. from \in 0..Len(entries)
      BY FindIndexIn
    <3>3. from = (n + 1) - prev
      BY <1>2, <3>1, FindFollows
    <3>. QED
      BY <1>2, <3>1, <3>2, <3>3
  <2>. HIDE DEF from
  <2>2. /\ OneTerm(new, t) /\ new \in Seq(LogEntry)
        /\ Len(new) = Len(entries) - from + 1
    <3>1. \A i \in from..Len(entries) : entries[i] \in LogEntry
      BY <2>1, ElementOfSeq
    <3>. QED
      BY <2>1, <3>1, SliceOneTerm, SubSeqProperties
  <2>. HIDE DEF new
  <2>3. n + Len(new) = prev + Len(entries)
    BY <2>1, <2>2
  <2>4. MergeBehindSnapshot(log, n, entries) =
           IF Len(log) <= Len(new) \/ \E i \in DOMAIN new : log[i].Term # new[i].Term THEN new ELSE log
    BY <1>2 DEF MergeBehindSnapshot, from, new
  <2>5. CASE Len(log) <= Len(new)
    BY <2>2, <2>3, <2>4, <2>5
  <2>6. CASE ~(Len(log) <= Len(new))
    <3>1. ASSUME NEW i \in DOMAIN new PROVE log[i].Term = new[i].Term
      BY <2>2, <2>6 DEF OneTerm
    <3>2. MergeBehindSnapshot(log, n, entries) = log
      BY <2>4, <2>6, <3>1
    <3>. QED
      BY <3>2
  <2>. QED
    BY <2>5, <2>6
<1>. QED
  BY <1>1, <1>2

\* followerHandleLog
LEMMA HandleLogOneTerm ==
    ASSUME NEW log \in Seq(LogEntry), NEW n \in LogIndex, NEW args, NEW t, Follows(log, n),
           args.PrevLogIndex \in Int, args.Entries \in Seq(LogEntry),
           Follows(args.Entries, args.PrevLogIndex), OneTerm(log, t), OneTerm(args.Entries, t),
           args.PrevLogIndex >= 0 => args.PrevLogTerm = t,
           args.PrevLogIndex = -1 => args.Entries = <<>> \/ n = -1
    PROVE  LET a == FollowerHandleLog(log, n, args)
           IN  /\ OneTerm(a.log, t) /\ Len(a.log) >= Len(log)
               /\ n + Len(a.log) \in {n + Len(log), args.PrevLogIndex + Len(args.Entries)}
               /\ a.XIndex <= n + Len(log) + 1
<1>. DEFINE prev == args.PrevLogIndex
            last == LastLogIndex(log, n)
            at   == FindIndex(log, prev)
            a    == FollowerHandleLog(log, n, args)
<1>1. n \in Int /\ n >= -1 /\ last = n + Len(log) /\ prev \in Int /\ Len(log) \in Nat
  BY LastOfFollows DEF LogIndex
<1>2. at \in 0..Len(log) /\ (at # 0 => at = prev - n /\ prev >= 0 /\ at \in DOMAIN log)
  <2>1. at \in 0..Len(log) /\ (at # 0 => at \in DOMAIN log /\ log[at] \in LogEntry /\ log[at].Index = prev)
    BY FindIndexIn
  <2>2. at # 0 => at = prev - n
    BY <1>1, FindFollows
  <2>. QED
    BY <2>1, <2>2 DEF LogEntry
<1>3. ~(at # 0 /\ log[at].Term # args.PrevLogTerm)
  BY <1>2 DEF OneTerm
<1>. HIDE DEF at, last, prev
<1>4. CASE last < prev
  <2>1. a.log = log /\ a.XIndex = last + 1
    BY <1>4 DEF FollowerHandleLog, Answer, prev, last
  <2>. HIDE DEF a
  <2>. QED
    BY <1>1, <2>1 DEF prev, a
<1>5. CASE ~(last < prev) /\ at = 0 /\ prev # -1
  <2>1. a.log = MergeBehindSnapshot(log, n, args.Entries) /\ a.XIndex = -1
    BY <1>5 DEF FollowerHandleLog, Answer, prev, last, at
  <2>2. LET new == MergeBehindSnapshot(log, n, args.Entries)
        IN  /\ OneTerm(new, t) /\ Len(new) >= Len(log)
            /\ n + Len(new) \in {n + Len(log), prev + Len(args.Entries)}
    BY <1>1, MergeBehindOneTerm DEF prev
  <2>. HIDE DEF a
  <2>. QED
    BY <1>1, <2>1, <2>2 DEF prev, a
<1>6. CASE ~(last < prev) /\ ~(at = 0 /\ prev # -1)
  <2>1. a.log = MergeEntries(log, at, args.Entries) /\ a.XIndex = -1
    BY <1>3, <1>6 DEF FollowerHandleLog, Answer, prev, last, at
  <2>2. LET new == MergeEntries(log, at, args.Entries)
        IN  /\ OneTerm(new, t) /\ Len(new) >= Len(log)
            /\ Len(new) \in {Len(log), at + Len(args.Entries)}
    BY <1>1, <1>2, MergeOneTerm
  <2>. DEFINE new == MergeEntries(log, at, args.Entries)
  <2>3. new \in Seq(LogEntry)
    BY <1>2, MergeIn
  <2>4. n + Len(new) \in {n + Len(log), prev + Len(args.Entries)}
    <3>1. CASE at # 0
      <4>1. n + (at + Len(args.Entries)) = prev + Len(args.Entries)
        BY <1>1, <1>2, <3>1
      <4>. QED
        BY <2>2, <4>1
    <3>2. CASE at = 0
      <4>1. prev = -1 /\ (n = -1 \/ args.Entries = <<>>)
        BY <1>6, <3>2 DEF prev
      <4>2. CASE n = -1
        BY <1>1, <2>2, <2>3, <3>2, <4>1, <4>2
      <4>3. CASE args.Entries = <<>>
        <5>1. Len(new) = Len(log)
          BY <1>1, <2>2, <2>3, <3>2, <4>3
        <5>. QED
          BY <5>1
      <4>. QED
        BY <4>1, <4>2, <4>3
    <3>. QED
      BY <3>1, <3>2
  <2>. HIDE DEF a
  <2>. QED
    BY <1>1, <2>1, <2>2, <2>4 DEF prev, a
<1>. QED
  BY <1>4, <1>5, <1>6

-----------------------------------------------------------------------------
(***************************************************************************)
(* A peer while the leader of term t has entries up to last: all entries   *)
(* are of that term, and commitIndex lies between the snapshot and the end *)
(* of the log, which is not beyond the leader's.                           *)
(***************************************************************************)
Sound(g, svc, t, last) ==
    /\ OneTerm(g.log, t) /\ g.snapshotTerm = TermUpTo(g.snapshotIndex, t)
    /\ g.snapshotIndex <= g.commitIndex
    /\ g.commitIndex <= LastIndex(g) /\ LastIndex(g) <= last
    /\ Len(svc) <= g.commitIndex + 1

\* A handler left a sound peer and did not panic.
SoundOutcome(out, t, last) == Sound(out.g, out.service, t, last) /\ out.fault # "panic"

\* Where the log of a peer without gaps ends.
LEMMA LastOfPeer ==
    ASSUME NEW g \in RaftState, Gapless(g)
    PROVE  /\ LastIndex(g) = g.snapshotIndex + Len(g.log) /\ LastIndex(g) \in Int
           /\ g.log \in Seq(LogEntry) /\ g.snapshotIndex \in LogIndex /\ g.snapshotIndex \in Int
           /\ g.commitIndex \in LogIndex /\ g.commitIndex \in Int
           /\ g.snapshotIndex >= -1 /\ g.commitIndex >= -1 /\ Len(g.log) \in Nat
<1>1. g.log \in Seq(LogEntry) /\ g.snapshotIndex \in LogIndex /\ g.commitIndex \in LogIndex
  BY DEF RaftState
<1>2. LastIndex(g) = g.snapshotIndex + Len(g.log)
  BY <1>1, LastOfFollows DEF LastIndex, Gapless
<1>. QED
  BY <1>1, <1>2 DEF LogIndex

\* A peer whose log, snapshot and commitIndex are kept stays sound.
LEMMA SameSound ==
    ASSUME NEW g, NEW h, NEW svc, NEW t, NEW last, Sound(g, svc, t, last),
           LogKept(g, h), h.commitIndex = g.commitIndex
    PROVE  Sound(h, svc, t, last)
BY DEF Sound, LogKept, LastIndex

\* The batch between two commit indices that the log has.
LEMMA CommitSound ==
    ASSUME NEW g \in RaftState, NEW svc \in Seq(Command), NEW t, NEW last \in Int, Gapless(g),
           Sound(g, svc, t, last), NEW cur \in LogIndex, g.commitIndex <= cur, cur <= LastIndex(g)
    PROVE  SoundOutcome(CommitTo(g, svc, cur), t, last)
<1>. DEFINE h == [g EXCEPT !.commitIndex = cur]
            n == g.snapshotIndex
            c == g.commitIndex
            start == BatchStart(g.log, n, c)
            batch == CommittedBatch(g.log, n, c, cur)
<1>1. /\ LastIndex(g) = n + Len(g.log) /\ g.log \in Seq(LogEntry) /\ n \in Int /\ c \in Int
      /\ n >= -1 /\ c >= -1 /\ Len(g.log) \in Nat /\ cur \in Int
  BY LastOfPeer DEF LogIndex
<1>2. n <= c /\ Len(svc) <= c + 1 /\ Len(svc) \in Nat
  BY DEF Sound
<1>3. h \in RaftState /\ LogKept(g, h) /\ h.commitIndex = cur
  BY DEF RaftState, LogKept
<1>4. /\ c = -1 \/ c = n \/ FindIndex(g.log, c) # 0
      /\ start = c - n
  <2>1. CASE c = n
    BY <1>1, <2>1 DEF BatchStart
  <2>2. CASE c # n
    <3>1. FindIndex(g.log, c) # 0 /\ FindIndex(g.log, c) = c - n
      BY <1>1, <1>2, <2>2, FindFollows DEF Gapless
    <3>. QED
      BY <1>1, <1>2, <2>2, <3>1 DEF BatchStart
  <2>. QED
    BY <2>1, <2>2
<1>. HIDE DEF start
<1>5. CanBatch(g.log, n, c, cur)
  BY <1>1, <1>4 DEF CanBatch, start
<1>6. CommitTo(g, svc, cur) = Deliver(h, svc, batch)
  BY <1>5 DEF CommitTo
<1>7. /\ batch \in Seq(LogEntry) /\ Len(batch) = cur - c
      /\ \A i \in 1..Len(batch) : batch[i].Index = c + i
  <2>1. batch = SubSeq(g.log, start + 1, start + (cur - c))
    BY DEF CommittedBatch, start
  <2>. DEFINE a == start + 1
              b == start + (cur - c)
  <2>2. a \in Nat \ {0} /\ b \in Int /\ b <= Len(g.log) /\ b - a + 1 = cur - c /\ n + a - 1 = c
    <3>1. cur <= n + Len(g.log) /\ c <= cur /\ start = c - n
      BY <1>1, <1>4
    <3>. HIDE DEF n, c
    <3>. QED
      BY <1>1, <1>2, <3>1
  <2>3. batch = SubSeq(g.log, a, b)
    BY <2>1
  <2>. HIDE DEF a, b
  <2>4. Follows(SubSeq(g.log, a, b), n + a - 1)
    <3>1. Follows(g.log, n)
      BY DEF Gapless
    <3>. HIDE DEF n, c
    <3>. QED
      BY <1>1, <2>2, <3>1, SliceFollows
  <2>5. \A i \in a..b : g.log[i] \in LogEntry
    <3>1. \A i \in a..b : i \in 1..Len(g.log)
      BY <1>1, <2>2
    <3>. QED
      BY <1>1, <3>1, ElementOfSeq
  <2>6. /\ SubSeq(g.log, a, b) \in Seq(LogEntry)
        /\ Len(SubSeq(g.log, a, b)) = IF a <= b THEN b - a + 1 ELSE 0
    BY <2>2, <2>5, SubSeqProperties
  <2>. HIDE DEF batch
  <2>7. Len(batch) = cur - c /\ batch \in Seq(LogEntry)
    BY <1>1, <2>2, <2>3, <2>6
  <2>8. Follows(batch, c)
    BY <2>2, <2>3, <2>4
  <2>. QED
    BY <2>7, <2>8 DEF Follows
<1>. HIDE DEF batch, h
<1>8. LastIndex(h) = LastIndex(g)
  BY <1>3 DEF LogKept, LastIndex
<1>9. CASE \A i \in DOMAIN batch : batch[i].Index = Len(svc) + i - 1
  <2>. DEFINE more == [i \in DOMAIN batch |-> batch[i].Command]
  <2>1. Deliver(h, svc, batch) = Outcome(h, svc \o more, "none")
    BY <1>9 DEF Deliver
  <2>2. Len(svc \o more) = Len(svc) + Len(batch)
    <3>1. more \in Seq(Command) /\ Len(more) = Len(batch)
      <4>1. \A i \in 1..Len(batch) : batch[i] \in LogEntry
        BY <1>7, ElementOfSeq
      <4>2. \A i \in 1..Len(batch) : batch[i].Command \in Command
        BY <4>1 DEF LogEntry
      <4>3. Len(batch) \in Nat /\ DOMAIN batch = 1..Len(batch)
        BY <1>7
      <4>4. more \in [1..Len(batch) -> Command]
        BY <4>2, <4>3
      <4>. QED
        BY <4>3, <4>4, SeqDef
    <3>. HIDE DEF more
    <3>2. Len(svc \o more) = Len(svc) + Len(more)
      BY <3>1, ConcatProperties
    <3>. QED
      BY <3>1, <3>2
  <2>3. Len(svc \o more) <= cur + 1
    <3>1. CASE Len(batch) = 0
      BY <1>1, <1>2, <1>7, <2>2, <3>1
    <3>2. CASE Len(batch) # 0
      <4>1. 1 \in DOMAIN batch /\ Len(batch) \in Nat
        BY <1>7, <3>2
      <4>2. batch[1].Index = c + 1 /\ batch[1].Index = Len(svc) + 1 - 1
        BY <1>7, <1>9, <4>1
      <4>3. c + 1 = Len(svc)
        BY <1>1, <1>2, <4>2
      <4>. QED
        BY <1>1, <1>7, <2>2, <4>1, <4>3
    <3>. QED
      BY <3>1, <3>2
  <2>. HIDE DEF more
  <2>. QED
    BY <1>1, <1>2, <1>3, <1>6, <1>8, <2>1, <2>3 DEF Outcome, SoundOutcome, Sound, LogKept
<1>10. CASE ~(\A i \in DOMAIN batch : batch[i].Index = Len(svc) + i - 1)
  <2>1. Deliver(h, svc, batch) = Outcome(h, svc, "applyError")
    BY <1>10 DEF Deliver
  <2>2. Len(svc) <= cur + 1
    BY <1>1, <1>2
  <2>. QED
    BY <1>1, <1>2, <1>3, <1>6, <1>8, <2>1, <2>2 DEF Outcome, SoundOutcome, Sound, LogKept
<1>. QED
  BY <1>9, <1>10

\* The leader commits an index that is not beyond its log.
LEMMA CommitCheckSound ==
    ASSUME NEW g \in RaftState, NEW svc \in Seq(Command), NEW t, NEW last \in Int, Gapless(g),
           Sound(g, svc, t, last), NEW n \in Int, n <= LastIndex(g)
    PROVE  SoundOutcome(AfterCommitCheck(g, svc, n), t, last)
<1>. DEFINE out == AfterCommitCheck(g, svc, n)
<1>1. /\ LastIndex(g) = g.snapshotIndex + Len(g.log) /\ g.log \in Seq(LogEntry)
      /\ g.snapshotIndex \in Int /\ g.commitIndex \in Int /\ g.commitIndex >= -1
      /\ g.snapshotIndex <= g.commitIndex
  BY LastOfPeer DEF Sound
<1>2. CASE ~MayCommit(g, n)
  BY <1>2 DEF AfterCommitCheck, Outcome, SoundOutcome
<1>3. CASE MayCommit(g, n)
  <2>1. n > g.commitIndex /\ n \in LogIndex
    BY <1>1, <1>3 DEF MayCommit, LogIndex
  <2>2. FindIndex(g.log, n) # 0
    BY <1>1, <2>1, FindFollows DEF Gapless
  <2>3. out \in {Outcome(g, svc, "none"), CommitTo(g, svc, n)}
    BY <2>2 DEF AfterCommitCheck
  <2>4. SoundOutcome(CommitTo(g, svc, n), t, last)
    <3>1. g.commitIndex <= n
      BY <1>1, <2>1
    <3>. QED
      BY <2>1, <3>1, CommitSound
  <2>5. SoundOutcome(Outcome(g, svc, "none"), t, last)
    BY DEF SoundOutcome, Outcome
  <2>. HIDE DEF out
  <2>. QED
    BY <2>3, <2>4, <2>5 DEF out
<1>. QED
  BY <1>2, <1>3

\* AppendEntries at a sound follower.
LEMMA FollowerSound ==
    ASSUME NEW g \in RaftState, NEW svc \in Seq(Command), NEW t, NEW last \in Int, Gapless(g),
           Sound(g, svc, t, last), NEW answer, NEW leaderCommit \in LogIndex,
           answer.log \in Seq(LogEntry), Follows(answer.log, g.snapshotIndex),
           OneTerm(answer.log, t), Len(answer.log) >= Len(g.log),
           g.snapshotIndex + Len(answer.log) <= last
    PROVE  SoundOutcome(FollowerAfter(g, svc, answer, leaderCommit), t, last)
<1>. DEFINE h == [g EXCEPT !.log = answer.log]
            cur == FollowerCommitIndex(h.log, h.snapshotIndex, h.commitIndex, leaderCommit)
<1>1. /\ h \in RaftState /\ h.log = answer.log /\ h.snapshotIndex = g.snapshotIndex
      /\ h.snapshotTerm = g.snapshotTerm /\ h.commitIndex = g.commitIndex
  BY DEF RaftState
<1>. HIDE DEF h
<1>2. Gapless(h)
  BY <1>1 DEF Gapless
<1>3. /\ LastIndex(g) = g.snapshotIndex + Len(g.log) /\ g.snapshotIndex \in Int /\ g.commitIndex \in Int
      /\ LastIndex(h) = g.snapshotIndex + Len(answer.log) /\ Len(answer.log) \in Nat /\ Len(g.log) \in Nat
  BY <1>1, <1>2, LastOfPeer
<1>4. Sound(h, svc, t, last)
  BY <1>1, <1>3 DEF Sound
<1>5. CASE answer.Success /\ h.commitIndex < leaderCommit
  <2>1. cur = Smaller(leaderCommit, LastIndex(h)) /\ leaderCommit \in Int
    BY <1>1, <1>3, <1>5 DEF FollowerCommitIndex, LastIndex, LogIndex
  <2>2. cur \in LogIndex
    <3>1. h.log \in Seq(LogEntry) /\ h.snapshotIndex \in LogIndex /\ h.commitIndex \in LogIndex
      BY <1>1 DEF RaftState
    <3>. QED
      BY <3>1, FollowerCommitIn
  <2>. HIDE DEF cur
  <2>3. h.commitIndex <= LastIndex(h) /\ LastIndex(h) \in Int /\ h.commitIndex \in Int
    BY <1>1, <1>3, <1>4 DEF Sound
  <2>4. h.commitIndex <= cur /\ cur <= LastIndex(h)
    BY <1>5, <2>1, <2>3 DEF Smaller
  <2>5. FollowerAfter(g, svc, answer, leaderCommit) = CommitTo(h, svc, cur)
    BY <1>5 DEF FollowerAfter, h, cur
  <2>. QED
    BY <1>1, <1>2, <1>4, <2>2, <2>4, <2>5, CommitSound
<1>6. CASE ~(answer.Success /\ h.commitIndex < leaderCommit)
  <2>1. FollowerAfter(g, svc, answer, leaderCommit) = Outcome(h, svc, "none")
    BY <1>6 DEF FollowerAfter, h
  <2>. QED
    BY <1>4, <2>1 DEF Outcome, SoundOutcome
<1>. QED
  BY <1>5, <1>6

\* Cutting the log at an entry that is committed leaves its end where it was.
LEMMA CompactedSound ==
    ASSUME NEW g \in RaftState, Gapless(g), NEW at \in DOMAIN g.log, NEW snapshot \in Seq(Command),
           NEW t, OneTerm(g.log, t)
    PROVE  LET h == Compacted(g, at, snapshot)
           IN  /\ OneTerm(h.log, t) /\ h.snapshotTerm = TermUpTo(h.snapshotIndex, t)
               /\ h.snapshotIndex = g.snapshotIndex + at /\ h.commitIndex = g.commitIndex
               /\ LastIndex(h) = LastIndex(g) /\ h \in RaftState /\ Gapless(h)
<1>. DEFINE h == Compacted(g, at, snapshot)
<1>1. /\ LastIndex(g) = g.snapshotIndex + Len(g.log) /\ g.log \in Seq(LogEntry) /\ g.snapshotIndex \in Int
      /\ at \in 1..Len(g.log) /\ g.log[at].Index = g.snapshotIndex + at /\ g.log[at] \in LogEntry
  BY LastOfPeer, ElementOfSeq DEF Gapless, Follows
<1>2. h \in RaftState /\ Gapless(h)
  BY CompactedIn, CompactedFollows
<1>3. /\ h.log = SubSeq(g.log, at + 1, Len(g.log)) /\ h.snapshotIndex = g.log[at].Index
      /\ h.snapshotTerm = g.log[at].Term /\ h.commitIndex = g.commitIndex
  BY DEF Compacted, RaftState
<1>. HIDE DEF h
<1>4. /\ OneTerm(h.log, t) /\ Len(h.log) = Len(g.log) - at
  <2>1. at + 1 \in Nat \ {0} /\ Len(g.log) \in Int
    BY <1>1
  <2>2. \A i \in (at + 1)..Len(g.log) : g.log[i] \in LogEntry
    BY <1>1, ElementOfSeq
  <2>3. Len(SubSeq(g.log, at + 1, Len(g.log))) =
            IF at + 1 <= Len(g.log) THEN Len(g.log) - (at + 1) + 1 ELSE 0
    BY <2>1, <2>2, SubSeqProperties
  <2>4. OneTerm(SubSeq(g.log, at + 1, Len(g.log)), t)
    BY <1>1, <2>1, SliceOneTerm
  <2>. QED
    BY <1>1, <1>3, <2>3, <2>4
<1>5. LastIndex(h) = h.snapshotIndex + Len(h.log)
  BY <1>2, LastOfPeer
<1>6. h.snapshotTerm = TermUpTo(h.snapshotIndex, t)
  BY <1>1, <1>3 DEF OneTerm, TermUpTo, LogEntry
<1>. QED
  BY <1>1, <1>2, <1>3, <1>4, <1>5, <1>6 DEF h

\* Snapshot, at an index the service has applied.
LEMMA SnapshotSound ==
    ASSUME NEW g \in RaftState, NEW svc \in Seq(Command), NEW t, NEW last \in Int, Gapless(g),
           Sound(g, svc, t, last), NEW index \in Nat, index + 1 <= Len(svc)
    PROVE  /\ SoundOutcome(AfterSnapshot(g, svc, index), t, last)
           /\ LastIndex(AfterSnapshot(g, svc, index).g) = LastIndex(g)
<1>. DEFINE at == FindIndex(g.log, index)
            h  == Compacted(g, at, SubSeq(svc, 1, index + 1))
            rest == IF h.commitIndex > h.snapshotIndex
                      THEN SubSeq(h.log, 1, FindIndex(h.log, h.commitIndex)) ELSE <<>>
<1>1. /\ g.log \in Seq(LogEntry) /\ g.snapshotIndex \in Int /\ g.commitIndex \in Int
      /\ Len(svc) \in Nat /\ SubSeq(svc, 1, index + 1) \in Seq(Command)
      /\ Len(SubSeq(svc, 1, index + 1)) = index + 1
  <2>1. \A i \in 1..(index + 1) : svc[i] \in Command
    BY ElementOfSeq
  <2>. QED
    BY <2>1, LastOfPeer, SubSeqProperties
<1>2. CASE at = 0
  BY <1>2 DEF AfterSnapshot, Outcome, SoundOutcome
<1>3. CASE at # 0
  <2>1. at \in DOMAIN g.log /\ g.log[at].Index = index
    BY <1>1, <1>3, FindIndexIn
  <2>2. AfterSnapshot(g, svc, index) = Deliver(h, h.snapshot, rest)
    BY <1>3 DEF AfterSnapshot
  <2>3. h.snapshot = SubSeq(svc, 1, index + 1)
    BY DEF Compacted, RaftState
  <2>4. g.snapshotIndex + at = index
    BY <1>1, <2>1 DEF Gapless, Follows
  <2>. HIDE DEF at
  <2>5. /\ OneTerm(h.log, t) /\ h.snapshotTerm = TermUpTo(h.snapshotIndex, t)
        /\ h.snapshotIndex = g.snapshotIndex + at /\ h.commitIndex = g.commitIndex
        /\ LastIndex(h) = LastIndex(g) /\ h \in RaftState /\ Gapless(h)
    BY <1>1, <2>1, CompactedSound DEF Sound
  <2>. HIDE DEF h
  <2>6. /\ index <= g.commitIndex /\ g.commitIndex <= LastIndex(g) /\ LastIndex(g) <= last
        /\ h.snapshotIndex = index /\ Len(h.snapshot) = index + 1 /\ h.snapshot \in Seq(Command)
    BY <1>1, <2>3, <2>4, <2>5 DEF Sound
  <2>7. rest \in Seq(LogEntry) /\ Len(rest) = g.commitIndex - index
    <3>1. /\ h.log \in Seq(LogEntry) /\ LastIndex(h) = h.snapshotIndex + Len(h.log)
          /\ h.snapshotIndex \in Int /\ Len(h.log) \in Nat
      BY <2>5, LastOfPeer
    <3>2. CASE h.commitIndex > h.snapshotIndex
      <4>. DEFINE to == FindIndex(h.log, h.commitIndex)
      <4>1. to # 0 /\ to = h.commitIndex - h.snapshotIndex
        BY <1>1, <2>5, <2>6, <3>1, <3>2, FindFollows DEF Gapless
      <4>2. rest = SubSeq(h.log, 1, to)
        BY <3>2
      <4>3. to \in 0..Len(h.log)
        BY <3>1, FindIndexIn
      <4>. HIDE DEF to, rest
      <4>4. \A i \in 1..to : h.log[i] \in LogEntry
        BY <3>1, <4>3, ElementOfSeq
      <4>5. SubSeq(h.log, 1, to) \in Seq(LogEntry) /\ Len(SubSeq(h.log, 1, to)) = to
        BY <4>3, <4>4, SubSeqProperties
      <4>. QED
        BY <1>1, <2>5, <2>6, <4>1, <4>2, <4>5
    <3>3. CASE ~(h.commitIndex > h.snapshotIndex)
      <4>1. rest = <<>> /\ g.commitIndex = index
        BY <1>1, <2>5, <2>6, <3>3
      <4>. HIDE DEF rest
      <4>. QED
        BY <4>1
    <3>. QED
      BY <3>2, <3>3
  <2>. HIDE DEF rest
  <2>. DEFINE more == [i \in DOMAIN rest |-> rest[i].Command]
              out  == Deliver(h, h.snapshot, rest)
  <2>8. Len(h.snapshot \o more) = g.commitIndex + 1
    <3>1. more \in Seq(Command) /\ Len(more) = Len(rest)
      <4>1. \A i \in 1..Len(rest) : rest[i] \in LogEntry
        BY <2>7, ElementOfSeq
      <4>2. \A i \in 1..Len(rest) : rest[i].Command \in Command
        BY <4>1 DEF LogEntry
      <4>3. Len(rest) \in Nat /\ DOMAIN rest = 1..Len(rest)
        BY <2>7
      <4>4. more \in [1..Len(rest) -> Command]
        BY <4>2, <4>3
      <4>. QED
        BY <4>3, <4>4, SeqDef
    <3>. HIDE DEF more
    <3>2. \A a, b \in Seq(Command) : Len(a \o b) = Len(a) + Len(b)
      BY ConcatProperties
    <3>3. Len(h.snapshot \o more) = Len(h.snapshot) + Len(more)
      BY <2>6, <3>1, <3>2
    <3>. QED
      BY <1>1, <2>6, <2>7, <3>1, <3>3
  <2>. HIDE DEF more
  <2>9. /\ out.g = h /\ out.service \in {h.snapshot, h.snapshot \o more} /\ out.fault # "panic"
    BY DEF Deliver, Outcome, more
  <2>10. Len(out.service) <= g.commitIndex + 1
    BY <1>1, <2>6, <2>8, <2>9
  <2>. HIDE DEF out
  <2>11. Sound(out.g, out.service, t, last)
    BY <1>1, <2>5, <2>6, <2>9, <2>10 DEF Sound
  <2>. QED
    BY <2>2, <2>5, <2>9, <2>11 DEF SoundOutcome, out
<1>. QED
  BY <1>2, <1>3

\* InstallSnapshot of a snapshot that is not beyond the leader's log.
LEMMA InstallSound ==
    ASSUME NEW g \in RaftState, NEW svc \in Seq(Command), NEW t, NEW last \in Int, Gapless(g),
           Sound(g, svc, t, last), NEW args \in InstallSnapshotCall,
           Len(args.Snapshot) = args.LastIncludedIndex + 1, args.LastIncludedIndex <= last,
           args.LastIncludedTerm = TermUpTo(args.LastIncludedIndex, t)
    PROVE  SoundOutcome(InstallOutcome(g, svc, args), t, last)
<1>. DEFINE k == args.LastIncludedIndex
            h == Observe(g, args.Term)
            at == FindIndex(h.log, k)
            whole == [h EXCEPT !.snapshot = args.Snapshot, !.log = <<>>, !.snapshotIndex = k,
                               !.snapshotTerm  = args.LastIncludedTerm, !.commitIndex = k]
            cut   == Compacted(h, at, args.Snapshot)
            part  == [cut EXCEPT !.commitIndex = IF @ < k THEN k ELSE @]
<1>1. /\ args.Snapshot \in Seq(Command) /\ k \in LogIndex /\ k \in Int /\ k >= -1
      /\ args.LastIncludedTerm \in Nat /\ args.Term \in Nat
  BY DEF InstallSnapshotCall, LogIndex
<1>2. h \in RaftState /\ LogKept(g, h) /\ h.commitIndex = g.commitIndex
  BY <1>1, ObserveIn DEF Observe, ToFollower, RaftState
<1>. HIDE DEF h
<1>3. Gapless(h) /\ Sound(h, svc, t, last)
  BY <1>2, SameSound DEF Gapless, LogKept
<1>4. /\ LastIndex(h) = h.snapshotIndex + Len(h.log) /\ h.log \in Seq(LogEntry)
      /\ h.snapshotIndex \in Int /\ h.commitIndex \in Int /\ Len(h.log) \in Nat
      /\ h.snapshotIndex <= h.commitIndex /\ h.commitIndex <= LastIndex(h) /\ LastIndex(h) <= last
      /\ OneTerm(h.log, t)
  BY <1>2, <1>3, LastOfPeer DEF Sound
<1>5. SoundOutcome(Outcome(g, svc, "none"), t, last)
  BY DEF Outcome, SoundOutcome
<1>6. ~(g.snapshotIndex = k /\ g.snapshotTerm # args.LastIncludedTerm)
  BY DEF Sound
<1>7. CASE g.currentTerm > args.Term \/ g.snapshotIndex >= k
  BY <1>5, <1>6, <1>7 DEF InstallOutcome
<1>8. CASE ~(g.currentTerm > args.Term \/ g.snapshotIndex >= k)
  <2>1. InstallOutcome(g, svc, args) = AfterInstall(h, svc, args)
    BY <1>6, <1>8 DEF InstallOutcome, h
  <2>2. k > h.snapshotIndex
    BY <1>1, <1>2, <1>4, <1>8 DEF LogKept
  <2>3. CASE at = 0
    <3>1. k > LastIndex(h)
      BY <1>1, <1>3, <1>4, <2>2, <2>3, FindFollows DEF Gapless
    <3>2. ~(k < h.commitIndex)
      BY <1>1, <1>4, <3>1
    <3>3. AfterInstall(h, svc, args) = Outcome(whole, args.Snapshot, "none")
      BY <2>3, <3>2 DEF AfterInstall
    <3>4. /\ whole.log = <<>> /\ whole.snapshotIndex = k /\ whole.commitIndex = k
          /\ whole.snapshotTerm = args.LastIncludedTerm
      BY <1>2 DEF RaftState
    <3>. HIDE DEF whole
    <3>5. LastIndex(whole) = k /\ OneTerm(whole.log, t)
      BY <3>4 DEF LastIndex, LastLogIndex, OneTerm
    <3>6. Sound(whole, args.Snapshot, t, last)
      BY <1>1, <3>4, <3>5 DEF Sound
    <3>. QED
      BY <2>1, <3>3, <3>6 DEF Outcome, SoundOutcome
  <2>4. CASE at # 0
    <3>1. at \in DOMAIN h.log /\ h.log[at].Index = k /\ h.log[at] \in LogEntry
      BY <1>4, <2>4, FindIndexIn
    <3>2. h.snapshotIndex + at = k /\ h.log[at].Term = args.LastIncludedTerm
      <4>. HIDE DEF at, k
      <4>1. h.snapshotIndex + at = k
        BY <1>3, <3>1 DEF Gapless, Follows
      <4>2. k # -1 /\ h.log[at].Term = t
        BY <1>4, <3>1 DEF OneTerm, LogEntry
      <4>3. args.LastIncludedTerm = TermUpTo(k, t)
        BY DEF k
      <4>. QED
        BY <4>1, <4>2, <4>3 DEF TermUpTo
    <3>3. AfterInstall(h, svc, args) = Outcome(part, args.Snapshot, "none")
      BY <2>4, <3>2 DEF AfterInstall
    <3>. HIDE DEF at
    <3>4. /\ OneTerm(cut.log, t) /\ cut.snapshotTerm = TermUpTo(cut.snapshotIndex, t)
          /\ cut.snapshotIndex = h.snapshotIndex + at /\ cut.commitIndex = h.commitIndex
          /\ LastIndex(cut) = LastIndex(h) /\ cut \in RaftState /\ Gapless(cut)
      BY <1>1, <1>2, <1>3, <1>4, <3>1, CompactedSound
    <3>. HIDE DEF cut
    <3>5. /\ LogKept(cut, part) /\ part.commitIndex = IF cut.commitIndex < k THEN k ELSE cut.commitIndex
      BY <3>4 DEF RaftState, LogKept
    <3>. HIDE DEF part
    <3>6. LastIndex(part) = LastIndex(h)
      BY <3>4, <3>5 DEF LogKept, LastIndex
    <3>7. at \in 1..Len(h.log)
      BY <1>4, <3>1
    <3>8. k <= LastIndex(h)
      BY <1>4, <3>2, <3>7
    <3>9. Sound(part, args.Snapshot, t, last)
      BY <1>1, <1>4, <3>2, <3>4, <3>5, <3>6, <3>8 DEF Sound, LogKept
    <3>. QED
      BY <2>1, <3>3, <3>9 DEF Outcome, SoundOutcome
  <2>. QED
    BY <2>3, <2>4
<1>. QED
  BY <1>7, <1>8

-----------------------------------------------------------------------------
(***************************************************************************)
(* The inductive invariant.  While one server has led, in one term, only   *)
(* that server is in the leader's loop, and what it sent, and what it      *)
(* believes the others have, lies within its own log.  Before, nothing has *)
(* happened to any log.                                                    *)
(***************************************************************************)
Aims(g, last) == \A p \in Server : g.nextIndex[p] <= last + 1 /\ g.matchIndex[p] <= last

AppendSound(c, s, t, last) ==
    /\ c.from = s /\ c.to # s /\ OneTerm(c.Entries, t)
    /\ c.PrevLogIndex >= 0 => c.PrevLogTerm = t
    /\ c.PrevLogIndex + Len(c.Entries) <= last
    /\ c.reply.XIndex <= last + 1

InstallCallSound(c, s, t, last) ==
    /\ c.from = s /\ c.to # s /\ c.LastIncludedIndex <= last
    /\ c.LastIncludedTerm = TermUpTo(c.LastIncludedIndex, t)

\* No goroutine of p is in the leader's loop or sends for Start.
OutOfLoop(p) == \A q \in Point \ {"toLeader"} : goroutines[p][q] = 0

OnlyLeader(s, t) ==
    /\ \A p \in Server : /\ Sound(rf[p], service[p], t, LastIndex(rf[s])) /\ fault[p] # "panic"
                         /\ p # s => OutOfLoop(p)
    /\ Aims(rf[s], LastIndex(rf[s]))
    /\ \A c \in aeCalls : AppendSound(c, s, t, LastIndex(rf[s]))
    /\ \A c \in isCalls : InstallCallSound(c, s, t, LastIndex(rf[s]))

Untouched ==
    /\ \A p \in Server : /\ rf[p].log = <<>> /\ rf[p].commitIndex = -1
                         /\ rf[p].snapshotIndex = -1 /\ rf[p].snapshotTerm = 0
                         /\ service[p] = <<>> /\ fault[p] # "panic" /\ OutOfLoop(p)
    /\ aeCalls = {} /\ isCalls = {}

OneLeaderInv ==
    /\ IsFiniteSet(led)
    /\ overlaid = {} =>
         /\ led = {} => Untouched
         /\ \A s \in Server, t \in Nat : led = {<<s, t>>} => OnlyLeader(s, t)

\* The leader's log grows: nothing that was within it leaves it.
LEMMA SoundGrows ==
    ASSUME NEW last \in Int, NEW more \in Int, last <= more
    PROVE  /\ \A svc, t : \A g \in RaftState : Sound(g, svc, t, last) => Sound(g, svc, t, more)
           /\ \A s, t : \A c \in AppendEntriesCall : AppendSound(c, s, t, last) => AppendSound(c, s, t, more)
           /\ \A s, t : \A c \in InstallSnapshotCall : InstallCallSound(c, s, t, last) => InstallCallSound(c, s, t, more)
           /\ \A g \in RaftState : Aims(g, last) => Aims(g, more)
<1>1. ASSUME NEW g \in RaftState, NEW svc, NEW t, Sound(g, svc, t, last) PROVE Sound(g, svc, t, more)
  <2>1. LastIndex(g) \in Int
    BY LastOfLogIn DEF LogIndex
  <2>. QED
    BY <1>1, <2>1 DEF Sound
<1>2. ASSUME NEW c \in AppendEntriesCall, NEW s, NEW t, AppendSound(c, s, t, last)
      PROVE  AppendSound(c, s, t, more)
  <2>1. c.PrevLogIndex + Len(c.Entries) \in Int /\ c.reply.XIndex \in Int
    BY DEF AppendEntriesCall
  <2>. QED
    BY <1>2, <2>1 DEF AppendSound
<1>3. ASSUME NEW c \in InstallSnapshotCall, NEW s, NEW t, InstallCallSound(c, s, t, last)
      PROVE  InstallCallSound(c, s, t, more)
  <2>1. c.LastIncludedIndex \in Int
    BY DEF InstallSnapshotCall, LogIndex
  <2>. QED
    BY <1>3, <2>1 DEF InstallCallSound
<1>4. ASSUME NEW g \in RaftState, Aims(g, last) PROVE Aims(g, more)
  <2>1. ASSUME NEW p \in Server PROVE g.nextIndex[p] <= more + 1 /\ g.matchIndex[p] <= more
    <3>1. g.nextIndex[p] \in Int /\ g.matchIndex[p] \in Int
      BY DEF RaftState
    <3>2. g.nextIndex[p] <= last + 1 /\ g.matchIndex[p] <= last
      BY <1>4 DEF Aims
    <3>. QED
      BY <3>1, <3>2
  <2>. QED
    BY <2>1 DEF Aims
<1>. QED
  BY <1>1, <1>2, <1>3, <1>4

\* No peer but p changes.
OthersSame(p) ==
    \A q \in Server \ {p} : rf'[q] = rf[q] /\ service'[q] = service[q] /\ fault'[q] = fault[q]

\* What is new in flight lies within the log of s.
NewCallsSound(s, t) ==
    /\ \A c \in aeCalls' : c \in aeCalls \/ AppendSound(c, s, t, LastIndex(rf'[s]))
    /\ \A c \in isCalls' : c \in isCalls \/ InstallCallSound(c, s, t, LastIndex(rf'[s]))

LoopIsOf(s) == \A q \in Server \ {s} : OutOfLoop(q)

\* One peer changes and stays sound.
LEMMA PeerKeepsOnly ==
    ASSUME RaftInv, RaftInv', NEW s \in Server, NEW t \in Nat, OnlyLeader(s, t),
           NEW p \in Server, OthersSame(p), fault'[p] # "panic",
           LastIndex(rf[s]) <= LastIndex(rf'[s]),
           Sound(rf'[p], service'[p], t, LastIndex(rf'[s])),
           p = s => Aims(rf'[s], LastIndex(rf'[s])),
           LoopIsOf(s)', NewCallsSound(s, t)
    PROVE  OnlyLeader(s, t)'
<1>. DEFINE last == LastIndex(rf[s])
            more == LastIndex(rf'[s])
<1>1. /\ rf \in [Server -> RaftState] /\ service \in [Server -> Seq(Command)] /\ fault \in [Server -> Fault]
      /\ rf' \in [Server -> RaftState]
      /\ aeCalls \subseteq AppendEntriesCall /\ isCalls \subseteq InstallSnapshotCall
  BY DEF RaftInv, NodeInv, CallInv
<1>2. last \in Int /\ more \in Int /\ last <= more
  BY <1>1, LastOfLogIn DEF LogIndex
<1>. HIDE DEF last
<1>3. ASSUME NEW q \in Server
      PROVE  Sound(rf'[q], service'[q], t, more) /\ fault'[q] # "panic"
  <2>1. CASE q = p
    BY <1>1, <2>1
  <2>2. CASE q # p
    <3>1. rf'[q] = rf[q] /\ service'[q] = service[q] /\ fault'[q] = fault[q] /\ rf[q] \in RaftState
      BY <1>1, <2>2 DEF OthersSame
    <3>2. Sound(rf[q], service[q], t, last) /\ fault[q] # "panic"
      BY DEF OnlyLeader, last
    <3>3. Sound(rf[q], service[q], t, more)
      BY <1>2, <3>1, <3>2, SoundGrows
    <3>. QED
      BY <3>1, <3>2, <3>3
  <2>. QED
    BY <2>1, <2>2
<1>4. Aims(rf'[s], more)
  <2>1. CASE s = p
    BY <1>1, <2>1
  <2>2. CASE s # p
    <3>1. rf'[s] = rf[s] /\ rf[s] \in RaftState
      BY <1>1, <2>2 DEF OthersSame
    <3>2. Aims(rf[s], last)
      BY DEF OnlyLeader, last
    <3>. QED
      BY <1>2, <3>1, <3>2, SoundGrows
  <2>. QED
    BY <2>1, <2>2
<1>5. ASSUME NEW c \in aeCalls' PROVE AppendSound(c, s, t, more)
  <2>1. CASE c \in aeCalls
    <3>1. AppendSound(c, s, t, last) /\ c \in AppendEntriesCall
      BY <1>1, <2>1 DEF OnlyLeader, last
    <3>. QED
      BY <1>2, <3>1, SoundGrows
  <2>. QED
    BY <1>5, <2>1 DEF NewCallsSound
<1>6. ASSUME NEW c \in isCalls' PROVE InstallCallSound(c, s, t, more)
  <2>1. CASE c \in isCalls
    <3>1. InstallCallSound(c, s, t, last) /\ c \in InstallSnapshotCall
      BY <1>1, <2>1 DEF OnlyLeader, last
    <3>. QED
      BY <1>2, <3>1, SoundGrows
  <2>. QED
    BY <1>6, <2>1 DEF NewCallsSound
<1>7. ASSUME NEW q \in Server, q # s PROVE OutOfLoop(q)'
  BY <1>7 DEF LoopIsOf
<1>. QED
  BY <1>3, <1>4, <1>5, <1>6, <1>7, Zenon DEF OnlyLeader

\* The same when its log, commitIndex and service are kept.
LEMMA SameKeepsOnly ==
    ASSUME RaftInv, RaftInv', NEW s \in Server, NEW t \in Nat, OnlyLeader(s, t),
           NEW p \in Server, NEW g \in RaftState, rf' = [rf EXCEPT ![p] = g],
           service' = service, fault' = fault, LogKept(rf[p], g), g.commitIndex = rf[p].commitIndex,
           p = s => Aims(g, LastIndex(rf[s])), LoopIsOf(s)',
           \A c \in aeCalls' : c \in aeCalls \/ AppendSound(c, s, t, LastIndex(rf[s])),
           \A c \in isCalls' : c \in isCalls \/ InstallCallSound(c, s, t, LastIndex(rf[s]))
    PROVE  OnlyLeader(s, t)'
<1>1. /\ rf \in [Server -> RaftState] /\ service \in [Server -> Seq(Command)] /\ fault \in [Server -> Fault]
  BY DEF RaftInv, NodeInv
<1>2. OthersSame(p) /\ rf'[p] = g /\ service'[p] = service[p]
  BY <1>1 DEF OthersSame
<1>3. LastIndex(rf'[s]) = LastIndex(rf[s]) /\ LastIndex(rf[s]) \in Int
  <2>1. LogKept(rf[s], rf'[s])
    BY <1>1 DEF LogKept
  <2>. QED
    BY <1>1, <2>1, LastOfLogIn DEF LogKept, LastIndex, LogIndex
<1>4. Sound(rf[p], service[p], t, LastIndex(rf[s])) /\ fault'[p] # "panic"
  BY DEF OnlyLeader
<1>5. Sound(rf'[p], service'[p], t, LastIndex(rf'[s]))
  BY <1>2, <1>3, <1>4, SameSound
<1>6. LastIndex(rf[s]) <= LastIndex(rf'[s])
  BY <1>3
<1>7. NewCallsSound(s, t)
  BY <1>3 DEF NewCallsSound
<1>8. p = s => Aims(rf'[s], LastIndex(rf'[s]))
  BY <1>2, <1>3
<1>. QED
  BY <1>2, <1>4, <1>5, <1>6, <1>7, <1>8, PeerKeepsOnly

\* Calls that are answered or orphaned.
LEMMA CallsStaySound ==
    ASSUME NEW s, NEW t, NEW last \in Int
    PROVE  /\ \A c \in AppendEntriesCall : AppendSound(c, s, t, last) =>
                 /\ \A r : r.XIndex <= last + 1 => AppendSound([c EXCEPT !.done = TRUE, !.reply = r], s, t, last)
                 /\ AppendSound([c EXCEPT !.live = FALSE], s, t, last)
           /\ \A c \in InstallSnapshotCall : InstallCallSound(c, s, t, last) =>
                 /\ \A r : InstallCallSound([c EXCEPT !.done = TRUE, !.reply = r], s, t, last)
                 /\ InstallCallSound([c EXCEPT !.live = FALSE], s, t, last)
BY DEF AppendSound, InstallCallSound, AppendEntriesCall, InstallSnapshotCall

\* Goroutines that are about to become leader do not count, and a crash ends all.
LEMMA LoopKept ==
    ASSUME RaftInv, NEW s \in Server, LoopIsOf(s), NEW p \in Server,
           \/ goroutines' = goroutines
           \/ goroutines' = [goroutines EXCEPT ![p]["toLeader"] = @ + 1]
           \/ goroutines' = [goroutines EXCEPT ![p] = [x \in Point |-> 0]]
    PROVE  LoopIsOf(s)'
<1>1. goroutines \in [Server -> [Point -> Nat]]
  BY DEF RaftInv, RestInv
<1>2. ASSUME NEW q \in Server \ {s}, NEW x \in Point \ {"toLeader"} PROVE goroutines'[q][x] = 0
  <2>1. goroutines[q][x] = 0
    BY DEF LoopIsOf, OutOfLoop
  <2>. QED
    BY <1>1, <1>2, <2>1
<1>. QED
  BY <1>2 DEF LoopIsOf, OutOfLoop

\* A goroutine of s moves on.
LEMMA MoveKept ==
    ASSUME RaftInv, NEW s \in Server, LoopIsOf(s),
           \E x, y \in Point : Move(s, x, y) \/ Exit(s, x) \/ Spawn(s, x)
    PROVE  LoopIsOf(s)'
<1>1. goroutines \in [Server -> [Point -> Nat]]
  BY DEF RaftInv, RestInv
<1>2. \A q \in Server \ {s} : goroutines'[q] = goroutines[q]
  BY <1>1 DEF Move, Exit, Spawn
<1>. QED
  BY <1>2 DEF LoopIsOf, OutOfLoop

\* Votes are asked for, given and counted.
LEMMA ElectionKeepsOnly ==
    ASSUME RaftInv, RaftInv', NEW s \in Server, NEW t \in Nat, OnlyLeader(s, t),
           \/ \E p \in Server : ToCandidate(p)
           \/ \E c \in rvCalls : RequestVoteRequestHandler(c) \/ RequestVoteResponseHandler(c)
    PROVE  OnlyLeader(s, t)'
<1>1. /\ rf \in [Server -> RaftState] /\ rvCalls \subseteq RequestVoteCall
      /\ goroutines \in [Server -> [Point -> Nat]]
  BY DEF RaftInv, NodeInv, CallInv, RestInv
<1>2. Aims(rf[s], LastIndex(rf[s])) /\ LoopIsOf(s)
  BY DEF OnlyLeader, LoopIsOf
<1>3. ASSUME NEW p \in Server, NEW g \in RaftState, rf' = [rf EXCEPT ![p] = g],
             service' = service, fault' = fault, aeCalls' = aeCalls, isCalls' = isCalls,
             LogKept(rf[p], g), g.commitIndex = rf[p].commitIndex,
             g.nextIndex = rf[p].nextIndex, g.matchIndex = rf[p].matchIndex,
             LoopIsOf(s)'
      PROVE  OnlyLeader(s, t)'
  <2>1. p = s => Aims(g, LastIndex(rf[s]))
    BY <1>2, <1>3 DEF Aims
  <2>. QED
    BY <1>3, <2>1, SameKeepsOnly
<1>4. ASSUME NEW p \in Server, ToCandidate(p) PROVE OnlyLeader(s, t)'
  <2>. DEFINE g == Candidate(rf[p], p)
  <2>1. /\ g \in RaftState /\ LogKept(rf[p], g) /\ g.commitIndex = rf[p].commitIndex
        /\ g.nextIndex = rf[p].nextIndex /\ g.matchIndex = rf[p].matchIndex
    BY <1>1, CandidateIn DEF Candidate, RaftState
  <2>2. /\ rf' = [rf EXCEPT ![p] = g] /\ service' = service /\ fault' = fault
        /\ aeCalls' = aeCalls /\ isCalls' = isCalls /\ goroutines' = goroutines
    BY <1>4 DEF ToCandidate, Save
  <2>. HIDE DEF g
  <2>. QED
    BY <1>2, <1>3, <2>1, <2>2, LoopKept
<1>5. ASSUME NEW c \in rvCalls, RequestVoteRequestHandler(c) PROVE OnlyLeader(s, t)'
  <2>. DEFINE p == c.to
              h == Observe(rf[p], c.Term)
              g == [h EXCEPT !.votedFor = IF GrantsVote(h, c) THEN c.from ELSE @]
  <2>1. p \in Server /\ c.Term \in Nat /\ c.from \in Server /\ rf[p] \in RaftState
    BY <1>1 DEF RequestVoteCall
  <2>2. h \in RaftState /\ LogKept(rf[p], h)
    BY <2>1, ObserveIn
  <2>3. /\ h.commitIndex = rf[p].commitIndex /\ h.nextIndex = rf[p].nextIndex
        /\ h.matchIndex = rf[p].matchIndex
    BY <2>1 DEF Observe, ToFollower, RaftState
  <2>4. /\ rf' = [rf EXCEPT ![p] = g] /\ service' = service /\ fault' = fault
        /\ aeCalls' = aeCalls /\ isCalls' = isCalls /\ goroutines' = goroutines
    BY <1>5 DEF RequestVoteRequestHandler, Save
  <2>. HIDE DEF h
  <2>5. /\ g \in RaftState /\ LogKept(h, g) /\ g.commitIndex = h.commitIndex
        /\ g.nextIndex = h.nextIndex /\ g.matchIndex = h.matchIndex
    BY <2>1, <2>2 DEF RaftState, LogKept
  <2>. HIDE DEF g, p
  <2>6. LogKept(rf[p], g)
    BY <2>2, <2>5 DEF LogKept
  <2>7. LoopIsOf(s)'
    BY <1>2, <2>4, LoopKept
  <2>. QED
    BY <1>3, <2>1, <2>3, <2>4, <2>5, <2>6, <2>7
<1>6. ASSUME NEW c \in rvCalls, RequestVoteResponseHandler(c) PROVE OnlyLeader(s, t)'
  <2>. DEFINE p == c.from
              g == AfterVoteReply(rf[p], c, c.reply)
  <2>1. p \in Server /\ c.reply.Term \in Nat /\ rf[p] \in RaftState
    BY <1>1 DEF RequestVoteCall
  <2>2. g \in RaftState /\ LogKept(rf[p], g)
    BY <2>1, AfterVoteReplyIn
  <2>3. /\ g.commitIndex = rf[p].commitIndex /\ g.nextIndex = rf[p].nextIndex
        /\ g.matchIndex = rf[p].matchIndex
    BY <2>1 DEF AfterVoteReply, ToFollower, RaftState
  <2>4. /\ rf' = [rf EXCEPT ![p] = g] /\ service' = service /\ fault' = fault
        /\ aeCalls' = aeCalls /\ isCalls' = isCalls
        /\ \/ goroutines' = goroutines
           \/ goroutines' = [goroutines EXCEPT ![p]["toLeader"] = @ + 1]
    BY <1>6 DEF RequestVoteResponseHandler
  <2>. HIDE DEF g, p
  <2>5. LoopIsOf(s)'
    BY <1>2, <2>1, <2>4, LoopKept
  <2>. QED
    BY <1>3, <2>1, <2>2, <2>3, <2>4, <2>5
<1>. QED
  BY <1>4, <1>5, <1>6

\* AppendEntries is handled.
LEMMA AppendRequestKeepsOnly ==
    ASSUME RaftInv, RaftInv', GaplessInv, overlaid' = {}, NEW s \in Server, NEW t \in Nat,
           OnlyLeader(s, t), NEW c \in aeCalls, AppendEntriesRequestHandler(c)
    PROVE  OnlyLeader(s, t)'
<1>. DEFINE p == c.to
            g == ToFollower(rf[p], c.Term)
            answer == FollowerHandleLog(g.log, g.snapshotIndex, c)
            out == FollowerAfter(g, service[p], answer, c.LeaderCommit)
            last == LastIndex(rf[s])
<1>1. /\ rf \in [Server -> RaftState] /\ service \in [Server -> Seq(Command)] /\ fault \in [Server -> Fault]
      /\ c \in AppendEntriesCall
  BY DEF RaftInv, NodeInv, CallInv
<1>2. /\ p \in Server /\ c.Term \in Nat /\ c.PrevLogIndex \in Int /\ c.Entries \in Seq(LogEntry)
      /\ c.LeaderCommit \in LogIndex /\ rf[p] \in RaftState /\ service[p] \in Seq(Command)
      /\ rf[p].currentTerm \in Nat
  BY <1>1 DEF AppendEntriesCall, RaftState
<1>3. AppendSound(c, s, t, last) /\ Sound(rf[p], service[p], t, last) /\ p # s /\ LoopIsOf(s)
  BY <1>2 DEF OnlyLeader, AppendSound, LoopIsOf
<1>4. last \in Int /\ last >= -1
  BY <1>1, LastOfLogIn DEF LogIndex
<1>5. goroutines' = goroutines /\ isCalls' = isCalls
  BY DEF AppendEntriesRequestHandler
<1>6. LoopIsOf(s)'
  BY <1>3, <1>5, LoopKept
<1>7. overlaid = {} /\ (c.Term >= rf[p].currentTerm => ~Overlays(rf[p], c))
  <2>1. overlaid' = overlaid \cup {x \in {p} : c.Term >= rf[p].currentTerm /\ Overlays(rf[p], c)}
    BY DEF AppendEntriesRequestHandler
  <2>. QED
    BY <2>1, Zenon
<1>8. Gapless(rf[p]) /\ Follows(c.Entries, c.PrevLogIndex)
  BY <1>2, <1>7 DEF GaplessInv, GaplessCalls
<1>9. ASSUME NEW r, r.XIndex <= last + 1, aeCalls' = Answered(aeCalls, c, r)
      PROVE  \A d \in aeCalls' : d \in aeCalls \/ AppendSound(d, s, t, last)
  <2>1. aeCalls' \subseteq aeCalls \cup {[c EXCEPT !.done = TRUE, !.reply = r]}
    BY <1>9, AnsweredIn
  <2>2. AppendSound([c EXCEPT !.done = TRUE, !.reply = r], s, t, last)
    BY <1>1, <1>3, <1>4, <1>9, CallsStaySound
  <2>. QED
    BY <2>1, <2>2
<1>10. CASE c.Term < rf[p].currentTerm
  <2>1. Save(p, rf[p]) /\ aeCalls' = Answered(aeCalls, c, Refusal(rf[p].currentTerm))
    BY <1>10 DEF AppendEntriesRequestHandler
  <2>2. Refusal(rf[p].currentTerm).XIndex <= last + 1
    BY <1>4 DEF Refusal
  <2>3. \A d \in aeCalls' : d \in aeCalls \/ AppendSound(d, s, t, last)
    BY <1>9, <2>1, <2>2
  <2>4. rf' = [rf EXCEPT ![p] = rf[p]] /\ service' = service /\ fault' = fault
    BY <2>1 DEF Save
  <2>5. LogKept(rf[p], rf[p]) /\ \A d \in isCalls' : d \in isCalls
    BY <1>5 DEF LogKept
  <2>. HIDE DEF p
  <2>. QED
    BY <1>2, <1>3, <1>6, <2>3, <2>4, <2>5, SameKeepsOnly
<1>11. CASE ~(c.Term < rf[p].currentTerm)
  <2>. DEFINE r == [Term |-> c.Term, Success |-> answer.Success,
                    XTerm |-> answer.XTerm, XIndex |-> answer.XIndex]
  <2>1. Finish(p, out) /\ aeCalls' = Answered(aeCalls, c, r)
    BY <1>11 DEF AppendEntriesRequestHandler
  <2>2. g \in RaftState /\ LogKept(rf[p], g) /\ g.commitIndex = rf[p].commitIndex
    BY <1>2, ToFollowerIn DEF ToFollower, RaftState
  <2>3. r.XIndex = answer.XIndex
    OBVIOUS
  <2>. HIDE DEF g, r
  <2>4. Sound(g, service[p], t, last) /\ Gapless(g)
    BY <1>3, <1>8, <2>2, SameSound DEF Gapless, LogKept
  <2>5. /\ LastIndex(g) = g.snapshotIndex + Len(g.log) /\ g.log \in Seq(LogEntry)
        /\ g.snapshotIndex \in LogIndex /\ g.snapshotIndex \in Int /\ LastIndex(g) <= last /\ OneTerm(g.log, t)
        /\ Len(g.log) \in Nat /\ Follows(g.log, g.snapshotIndex)
    BY <2>2, <2>4, LastOfPeer DEF Sound, Gapless
  <2>6. c.PrevLogIndex = -1 => c.Entries = <<>> \/ g.snapshotIndex = -1
    BY <1>2, <1>7, <1>11, <2>2 DEF Overlays, LogKept
  <2>7. /\ OneTerm(c.Entries, t) /\ (c.PrevLogIndex >= 0 => c.PrevLogTerm = t)
        /\ c.PrevLogIndex + Len(c.Entries) <= last
    BY <1>3 DEF AppendSound
  <2>8. /\ OneTerm(answer.log, t) /\ Len(answer.log) >= Len(g.log)
        /\ g.snapshotIndex + Len(answer.log) \in
               {g.snapshotIndex + Len(g.log), c.PrevLogIndex + Len(c.Entries)}
        /\ answer.XIndex <= g.snapshotIndex + Len(g.log) + 1
    BY <1>2, <1>8, <2>5, <2>6, <2>7, HandleLogOneTerm
  <2>9. answer.log \in Seq(LogEntry) /\ answer.XIndex \in Int
    BY <1>2, <2>5, FollowerHandleLogIn
  <2>10. Follows(answer.log, g.snapshotIndex)
    BY <1>2, <1>8, <2>5, <2>6, FollowerHandleLogFollows
  <2>. HIDE DEF answer
  <2>11. g.snapshotIndex + Len(answer.log) <= last /\ answer.XIndex <= last + 1
    BY <1>4, <2>5, <2>7, <2>8, <2>9
  <2>12. SoundOutcome(out, t, last)
    BY <1>2, <1>4, <2>2, <2>4, <2>8, <2>9, <2>10, <2>11, FollowerSound
  <2>. HIDE DEF out
  <2>13. \A d \in aeCalls' : d \in aeCalls \/ AppendSound(d, s, t, last)
    BY <1>9, <2>1, <2>3, <2>11
  <2>14. /\ OthersSame(p) /\ rf'[p] = out.g /\ service'[p] = out.service /\ fault'[p] = out.fault
         /\ rf'[s] = rf[s]
    BY <1>1, <1>2, <1>3, <2>1 DEF Finish, OthersSame
  <2>15. /\ fault'[p] # "panic" /\ Sound(rf'[p], service'[p], t, LastIndex(rf'[s]))
         /\ LastIndex(rf[s]) <= LastIndex(rf'[s])
    BY <1>4, <2>12, <2>14 DEF SoundOutcome
  <2>16. NewCallsSound(s, t)
    BY <1>5, <2>13, <2>14 DEF NewCallsSound
  <2>. HIDE DEF p
  <2>. QED
    BY <1>2, <1>3, <1>6, <2>14, <2>15, <2>16, PeerKeepsOnly
<1>. QED
  BY <1>10, <1>11

\* The leader hears an answer.
LEMMA RepliesKeepOnly ==
    ASSUME RaftInv, RaftInv', NEW s \in Server, NEW t \in Nat, OnlyLeader(s, t), Gapless(rf[s]),
           \/ \E c \in aeCalls : \E r \in Returns(c, NoAnswer) : AppendEntriesResponseHandler(c, r)
           \/ \E c \in isCalls : \E r \in Returns(c, NoInstall) : InstallSnapshotResponseHandler(c, r)
    PROVE  OnlyLeader(s, t)'
<1>. DEFINE last == LastIndex(rf[s])
<1>1. rf \in [Server -> RaftState] /\ rf[s] \in RaftState
  BY DEF RaftInv, NodeInv
<1>2. last \in Int /\ last >= -1
  BY <1>1, LastOfLogIn DEF LogIndex
<1>3. Aims(rf[s], last) /\ LoopIsOf(s)
  BY DEF OnlyLeader, LoopIsOf
<1>4. ASSUME NEW g \in RaftState, NEW n \in Int, n <= last, NEW p \in Server,
             \/ g.nextIndex = rf[s].nextIndex /\ g.matchIndex = rf[s].matchIndex
             \/ /\ g.nextIndex = [rf[s].nextIndex EXCEPT ![p] = n + 1]
                /\ g.matchIndex \in {rf[s].matchIndex, [rf[s].matchIndex EXCEPT ![p] = n]}
      PROVE  Aims(g, last)
  <2>1. ASSUME NEW q \in Server PROVE g.nextIndex[q] <= last + 1 /\ g.matchIndex[q] <= last
    <3>1. rf[s].nextIndex \in [Server -> Int] /\ rf[s].matchIndex \in [Server -> Int]
      BY <1>1 DEF RaftState
    <3>2. rf[s].nextIndex[q] <= last + 1 /\ rf[s].matchIndex[q] <= last
      BY <1>3 DEF Aims
    <3>3. n + 1 <= last + 1
      BY <1>2, <1>4
    <3>. HIDE DEF last
    <3>4. CASE g.nextIndex = rf[s].nextIndex /\ g.matchIndex = rf[s].matchIndex
      BY <3>2, <3>4
    <3>5. CASE /\ g.nextIndex = [rf[s].nextIndex EXCEPT ![p] = n + 1]
               /\ g.matchIndex \in {rf[s].matchIndex, [rf[s].matchIndex EXCEPT ![p] = n]}
      BY <1>4, <3>1, <3>2, <3>3, <3>5
    <3>. QED
      BY <1>4, <3>4, <3>5
  <2>. QED
    BY <2>1 DEF Aims
<1>5. ASSUME NEW c \in aeCalls, NEW r \in Returns(c, NoAnswer), AppendEntriesResponseHandler(c, r)
      PROVE  OnlyLeader(s, t)'
  <2>. DEFINE g == AfterAppendReply(rf[s], c, r)
              next == IF r.Success THEN c.PrevLogIndex + Len(c.Entries) + 1
                                   ELSE BackedUpNextIndex(rf[s].log, r)
  <2>1. c \in AppendEntriesCall /\ AppendSound(c, s, t, last) /\ c.from = s
    BY DEF RaftInv, CallInv, OnlyLeader, AppendSound
  <2>2. r.Term \in Nat /\ r.XIndex \in Int /\ r.XIndex <= last + 1
    BY <1>2, <2>1 DEF AppendEntriesCall, NoAnswer, Refusal, Returns, AppendSound
  <2>3. g \in RaftState /\ LogKept(rf[s], g) /\ g.commitIndex = rf[s].commitIndex
    <3>1. g.commitIndex = rf[s].commitIndex
      BY <1>1 DEF AfterAppendReply, LeaderHandleLog, ToFollower, RaftState
    <3>. QED
      BY <1>1, <2>1, <2>2, <3>1, AfterAppendReplyIn
  <2>4. next \in Int /\ next <= last + 1
    <3>1. CASE r.Success
      BY <1>2, <2>1, <3>1 DEF AppendSound, AppendEntriesCall
    <3>2. CASE ~r.Success
      <4>. DEFINE log == rf[s].log
                  run == {p \in DOMAIN log : log[p].Term = r.XTerm}
      <4>1. /\ log \in Seq(LogEntry) /\ last = rf[s].snapshotIndex + Len(log)
            /\ rf[s].snapshotIndex \in Int /\ Len(log) \in Nat
            /\ \A i \in DOMAIN log : log[i].Index = rf[s].snapshotIndex + i
        BY <1>1, LastOfPeer DEF Gapless, Follows
      <4>2. CASE r.XTerm = -1 \/ run = {}
        BY <2>2, <3>2, <4>2 DEF BackedUpNextIndex
      <4>3. CASE ~(r.XTerm = -1 \/ run = {})
        <5>1. Last(run) \in run
          <6>1. run \in SUBSET (1..Len(log)) /\ Len(log) \in Nat /\ run # {}
            BY <4>1, <4>3
          <6>. HIDE DEF run
          <6>. QED
            BY <6>1, LastIn
        <5>2. next = log[Last(run)].Index + 1
          BY <3>2, <4>3 DEF BackedUpNextIndex
        <5>3. \A k \in run : k \in 1..Len(log) /\ log[k].Index = rf[s].snapshotIndex + k
          BY <4>1
        <5>. HIDE DEF run, next, log
        <5>4. log[Last(run)].Index = rf[s].snapshotIndex + Last(run) /\ Last(run) \in 1..Len(log)
          BY <5>1, <5>3
        <5>. QED
          BY <1>2, <4>1, <5>2, <5>4
      <4>. QED
        BY <4>2, <4>3
    <3>. QED
      BY <3>1, <3>2
  <2>5. \/ g.nextIndex = rf[s].nextIndex /\ g.matchIndex = rf[s].matchIndex
        \/ /\ g.nextIndex = [rf[s].nextIndex EXCEPT ![c.to] = next]
           /\ g.matchIndex \in {rf[s].matchIndex, [rf[s].matchIndex EXCEPT ![c.to] = next - 1]}
    BY <1>1, <2>1 DEF AfterAppendReply, LeaderHandleLog, ToFollower, RaftState
  <2>6. /\ rf' = [rf EXCEPT ![s] = g] /\ service' = service /\ fault' = fault
        /\ aeCalls' \subseteq aeCalls /\ isCalls' = isCalls /\ goroutines' = goroutines
    BY <1>5, <2>1 DEF AppendEntriesResponseHandler, Save
  <2>. HIDE DEF g, next
  <2>7. next - 1 \in Int /\ next - 1 <= last /\ next = (next - 1) + 1 /\ c.to \in Server
    BY <1>2, <2>1, <2>4 DEF AppendEntriesCall
  <2>8. Aims(g, last)
    BY <1>4, <2>3, <2>5, <2>7
  <2>9. LoopIsOf(s)'
    BY <1>3, <2>6, LoopKept
  <2>10. (\A d \in aeCalls' : d \in aeCalls) /\ (\A d \in isCalls' : d \in isCalls)
    BY <2>6
  <2>. QED
    BY <2>3, <2>6, <2>8, <2>9, <2>10, SameKeepsOnly
<1>6. ASSUME NEW c \in isCalls, NEW r \in Returns(c, NoInstall), InstallSnapshotResponseHandler(c, r)
      PROVE  OnlyLeader(s, t)'
  <2>. DEFINE g == AfterInstallReply(rf[s], c, r)
              k == c.LastIncludedIndex
  <2>1. c \in InstallSnapshotCall /\ InstallCallSound(c, s, t, last) /\ c.from = s
    BY DEF RaftInv, CallInv, OnlyLeader, InstallCallSound
  <2>2. r \in [Term : Nat]
    BY <2>1 DEF InstallSnapshotCall, NoInstall, Returns
  <2>3. g \in RaftState /\ LogKept(rf[s], g) /\ g.commitIndex = rf[s].commitIndex
    <3>1. g.commitIndex = rf[s].commitIndex
      BY <1>1 DEF AfterInstallReply, ToFollower, RaftState
    <3>. QED
      BY <1>1, <2>1, <2>2, <3>1, AfterInstallReplyIn
  <2>4. \/ g.nextIndex = rf[s].nextIndex /\ g.matchIndex = rf[s].matchIndex
        \/ /\ g.nextIndex = [rf[s].nextIndex EXCEPT ![c.to] = k + 1]
           /\ g.matchIndex \in {rf[s].matchIndex, [rf[s].matchIndex EXCEPT ![c.to] = k]}
    BY <1>1, <2>1 DEF AfterInstallReply, ToFollower, RaftState
  <2>5. k \in Int /\ k <= last /\ c.to \in Server
    BY <2>1 DEF InstallSnapshotCall, InstallCallSound, LogIndex
  <2>6. /\ rf' = [rf EXCEPT ![s] = g] /\ service' = service /\ fault' = fault
        /\ isCalls' \subseteq isCalls /\ aeCalls' = aeCalls /\ goroutines' = goroutines
    BY <1>6, <2>1 DEF InstallSnapshotResponseHandler, Save
  <2>. HIDE DEF g, k
  <2>7. Aims(g, last)
    BY <1>4, <2>3, <2>4, <2>5
  <2>8. LoopIsOf(s)'
    BY <1>3, <2>6, LoopKept
  <2>9. (\A d \in aeCalls' : d \in aeCalls) /\ (\A d \in isCalls' : d \in isCalls)
    BY <2>6
  <2>. QED
    BY <2>3, <2>6, <2>7, <2>8, <2>9, SameKeepsOnly
<1>. QED
  BY <1>5, <1>6

\* InstallSnapshot is handled.
LEMMA InstallRequestKeepsOnly ==
    ASSUME RaftInv, RaftInv', GaplessInv, overlaid = {}, NEW s \in Server, NEW t \in Nat,
           OnlyLeader(s, t), NEW c \in isCalls, InstallSnapshotRequestHandler(c)
    PROVE  OnlyLeader(s, t)'
<1>. DEFINE p == c.to
            out == InstallOutcome(rf[p], service[p], c)
            last == LastIndex(rf[s])
            r == [Term |-> out.g.currentTerm]
<1>1. /\ rf \in [Server -> RaftState] /\ service \in [Server -> Seq(Command)] /\ fault \in [Server -> Fault]
      /\ c \in InstallSnapshotCall /\ Len(c.Snapshot) = c.LastIncludedIndex + 1
  BY DEF RaftInv, NodeInv, CallInv
<1>2. p \in Server /\ rf[p] \in RaftState /\ service[p] \in Seq(Command)
  BY <1>1 DEF InstallSnapshotCall
<1>3. InstallCallSound(c, s, t, last) /\ Sound(rf[p], service[p], t, last) /\ p # s /\ LoopIsOf(s)
  BY <1>2 DEF OnlyLeader, InstallCallSound, LoopIsOf
<1>4. last \in Int /\ Gapless(rf[p])
  BY <1>1, <1>2, LastOfLogIn DEF LogIndex, GaplessInv
<1>5. Finish(p, out) /\ isCalls' = Answered(isCalls, c, r) /\ aeCalls' = aeCalls /\ goroutines' = goroutines
  BY DEF InstallSnapshotRequestHandler
<1>6. LoopIsOf(s)'
  BY <1>3, <1>5, LoopKept
<1>7. SoundOutcome(out, t, last)
  BY <1>1, <1>2, <1>3, <1>4, InstallSound DEF InstallCallSound
<1>. HIDE DEF out, r
<1>8. /\ OthersSame(p) /\ rf'[p] = out.g /\ service'[p] = out.service /\ fault'[p] = out.fault
      /\ rf'[s] = rf[s]
  BY <1>1, <1>2, <1>3, <1>5 DEF Finish, OthersSame
<1>9. NewCallsSound(s, t)
  <2>1. isCalls' \subseteq isCalls \cup {[c EXCEPT !.done = TRUE, !.reply = r]}
    BY <1>5, AnsweredIn
  <2>2. InstallCallSound([c EXCEPT !.done = TRUE, !.reply = r], s, t, last)
    BY <1>1, <1>3, <1>4, CallsStaySound
  <2>. QED
    BY <1>5, <1>8, <2>1, <2>2 DEF NewCallsSound
<1>10. /\ fault'[p] # "panic" /\ Sound(rf'[p], service'[p], t, LastIndex(rf'[s]))
       /\ LastIndex(rf[s]) <= LastIndex(rf'[s])
  BY <1>4, <1>7, <1>8 DEF SoundOutcome
<1>. HIDE DEF p
<1>. QED
  BY <1>2, <1>3, <1>6, <1>8, <1>9, <1>10, PeerKeepsOnly

\* The leader sends a round.
LEMMA SendKeepsOnly ==
    ASSUME RaftInv, RaftInv', NEW s \in Server, NEW t \in Nat, OnlyLeader(s, t), Gapless(rf[s]),
           LeaderSendAppendEntriesRPC(s), LoopIsOf(s)'
    PROVE  OnlyLeader(s, t)'
<1>. DEFINE g == rf[s]
            n == g.snapshotIndex
            last == LastIndex(g)
            others == Server \ {s}
            behind == {p \in others : Prev(g, p) < g.snapshotIndex}
            able   == \A p \in others : CanSend(g.log, g.snapshotIndex, Prev(g, p))
<1>1. /\ rf \in [Server -> RaftState] /\ service \in [Server -> Seq(Command)] /\ fault \in [Server -> Fault]
      /\ g \in RaftState /\ g.nextIndex \in [Server -> Int]
  BY DEF RaftInv, NodeInv, RaftState
<1>2. /\ last = n + Len(g.log) /\ last \in Int /\ g.log \in Seq(LogEntry) /\ n \in LogIndex /\ n \in Int
      /\ n >= -1 /\ Len(g.log) \in Nat /\ Follows(g.log, n)
  BY <1>1, LastOfPeer DEF Gapless
<1>3. Sound(g, service[s], t, last) /\ Aims(g, last)
  BY DEF OnlyLeader
<1>4. ASSUME NEW p \in others PROVE Prev(g, p) \in Int /\ Prev(g, p) <= last
  <2>1. g.nextIndex[p] \in Int /\ g.nextIndex[p] <= last + 1
    BY <1>1, <1>3 DEF Aims
  <2>. QED
    BY <1>2, <2>1 DEF Prev
<1>5. able
  <2>1. ASSUME NEW p \in others PROVE CanSend(g.log, n, Prev(g, p))
    BY <1>2, <1>4, FindFollows DEF CanSend
  <2>. QED
    BY <2>1
<1>6. /\ aeCalls' = aeCalls \cup {AppendEntriesTo(g, s, p) : p \in others \ behind}
      /\ isCalls' = isCalls \cup {InstallSnapshotTo(g, s, p) : p \in behind}
      /\ rf' = rf /\ service' = service /\ fault' = fault
  BY <1>5 DEF LeaderSendAppendEntriesRPC, node
<1>7. ASSUME NEW p \in others \ behind PROVE AppendSound(AppendEntriesTo(g, s, p), s, t, last)
  <2>. DEFINE prev == Prev(g, p)
              c == AppendEntriesTo(g, s, p)
  <2>1. prev \in Int /\ prev >= n /\ prev <= last /\ CanSend(g.log, n, prev)
    BY <1>2, <1>4, <1>5
  <2>2. /\ c.from = s /\ c.to = p /\ c.Entries = EntriesAfter(g.log, n, prev) /\ c.PrevLogIndex = prev
        /\ c.PrevLogTerm = TermAt(g.log, n, g.snapshotTerm, prev) /\ c.reply.XIndex = 0
    BY DEF AppendEntriesTo, NoAnswer, Refusal
  <2>. HIDE DEF prev, c
  <2>3. OneTerm(g.log, t) /\ g.snapshotTerm = TermUpTo(n, t)
    BY <1>3 DEF Sound
  <2>4. CASE prev = n
    <3>1. c.Entries = g.log /\ c.PrevLogTerm = TermUpTo(n, t)
      BY <2>2, <2>3, <2>4 DEF EntriesAfter, TermAt
    <3>2. prev + Len(c.Entries) <= last
      BY <1>2, <2>4, <3>1
    <3>. QED
      BY <1>2, <2>2, <2>3, <2>4, <3>1, <3>2 DEF AppendSound, TermUpTo, c
  <2>5. CASE prev # n
    <3>. DEFINE at == FindIndex(g.log, prev)
    <3>1. at # 0 /\ at = prev - n
      BY <1>2, <2>1, <2>5, FindFollows DEF CanSend
    <3>2. at \in 0..Len(g.log) /\ at \in DOMAIN g.log
      BY <1>2, <3>1, FindIndexIn
    <3>3. c.Entries = SubSeq(g.log, at + 1, Len(g.log)) /\ c.PrevLogTerm = g.log[at].Term
      BY <2>2, <2>5 DEF EntriesAfter, TermAt
    <3>. HIDE DEF at
    <3>4. at + 1 \in Nat \ {0} /\ Len(g.log) \in Int
      BY <1>2, <3>2
    <3>5. OneTerm(c.Entries, t) /\ c.PrevLogTerm = t
      <4>1. OneTerm(SubSeq(g.log, at + 1, Len(g.log)), t)
        BY <1>2, <2>3, <3>4, SliceOneTerm
      <4>. QED
        BY <2>3, <3>2, <3>3, <4>1 DEF OneTerm
    <3>6. Len(c.Entries) = Len(g.log) - at
      <4>1. \A i \in (at + 1)..Len(g.log) : g.log[i] \in LogEntry
        BY <1>2, <3>2, ElementOfSeq
      <4>2. Len(SubSeq(g.log, at + 1, Len(g.log))) =
                IF at + 1 <= Len(g.log) THEN Len(g.log) - (at + 1) + 1 ELSE 0
        BY <3>4, <4>1, SubSeqProperties
      <4>. QED
        BY <1>2, <3>2, <3>3, <4>2
    <3>7. prev + Len(c.Entries) <= last
      <4>1. prev = n + at /\ at \in Int
        BY <1>2, <2>1, <3>1, <3>2
      <4>2. last = n + Len(g.log) /\ n \in Int /\ Len(g.log) \in Int
        BY <1>2
      <4>3. prev + Len(c.Entries) = last
        <5>1. \A x, y, z \in Int : (x + y) + (z - y) = x + z
          OBVIOUS
        <5>2. prev + Len(c.Entries) = (n + at) + (Len(g.log) - at)
          BY <3>6, <4>1, Zenon
        <5>. QED
          BY <4>1, <4>2, <5>1, <5>2, Zenon
      <4>4. last <= last
        BY <1>2
      <4>. QED
        BY <4>3, <4>4
    <3>8. 0 <= last + 1 /\ p # s
      <4>1. p # s
        OBVIOUS
      <4>. HIDE DEF n, last
      <4>. QED
        BY <1>2, <4>1
    <3>. HIDE DEF last
    <3>. QED
      BY <2>2, <3>5, <3>7, <3>8 DEF AppendSound, c
  <2>. QED
    BY <2>4, <2>5
<1>8. ASSUME NEW p \in behind PROVE InstallCallSound(InstallSnapshotTo(g, s, p), s, t, last)
  <2>1. /\ InstallSnapshotTo(g, s, p).from = s /\ InstallSnapshotTo(g, s, p).to = p
        /\ InstallSnapshotTo(g, s, p).LastIncludedIndex = n
        /\ InstallSnapshotTo(g, s, p).LastIncludedTerm = g.snapshotTerm
    BY DEF InstallSnapshotTo
  <2>2. n <= last /\ g.snapshotTerm = TermUpTo(n, t)
    BY <1>2, <1>3 DEF Sound
  <2>. QED
    BY <2>1, <2>2 DEF InstallCallSound
<1>9. \A c \in aeCalls' : c \in aeCalls \/ AppendSound(c, s, t, last)
  BY <1>6, <1>7
<1>10. \A c \in isCalls' : c \in isCalls \/ InstallCallSound(c, s, t, last)
  BY <1>6, <1>8
<1>11. rf' = [rf EXCEPT ![s] = g] /\ LogKept(g, g) /\ g.commitIndex = g.commitIndex
  BY <1>1, <1>6 DEF LogKept
<1>. QED
  BY <1>1, <1>3, <1>6, <1>9, <1>10, <1>11, SameKeepsOnly

\* The leader becomes leader of its term, perhaps once more.
LEMMA ToLeaderKeepsOnly ==
    ASSUME RaftInv, RaftInv', NEW s \in Server, NEW t \in Nat, OnlyLeader(s, t), ToLeader(s)
    PROVE  OnlyLeader(s, t)'
<1>. DEFINE g == Leader(rf[s], s)
            last == LastIndex(rf[s])
<1>1. rf[s] \in RaftState /\ last \in Int /\ last >= -1
  BY LastOfLogIn DEF RaftInv, NodeInv, LogIndex
<1>2. g \in RaftState /\ LogKept(rf[s], g)
  BY <1>1, LeaderIn
<1>3. /\ g.commitIndex = rf[s].commitIndex /\ g.nextIndex = [p \in Server |-> last + 1]
      /\ g.matchIndex = [p \in Server |-> IF p = s THEN last ELSE -1]
  BY <1>1 DEF Leader, RaftState
<1>4. /\ rf' = [rf EXCEPT ![s] = g] /\ service' = service /\ fault' = fault
      /\ aeCalls' = aeCalls /\ isCalls' = isCalls /\ Move(s, "toLeader", "commit")
  BY DEF ToLeader, Save, calls
<1>5. LoopIsOf(s)'
  <2>1. LoopIsOf(s)
    BY DEF OnlyLeader, LoopIsOf
  <2>. QED
    BY <1>4, <2>1, MoveKept DEF Point
<1>. HIDE DEF g
<1>6. Aims(g, last)
  <2>1. ASSUME NEW p \in Server PROVE g.nextIndex[p] <= last + 1 /\ g.matchIndex[p] <= last
    <3>. HIDE DEF last
    <3>. QED
      BY <1>1, <1>3
  <2>. QED
    BY <2>1 DEF Aims
<1>7. (\A d \in aeCalls' : d \in aeCalls) /\ (\A d \in isCalls' : d \in isCalls)
  BY <1>4
<1>. QED
  BY <1>2, <1>3, <1>4, <1>5, <1>6, <1>7, SameKeepsOnly

\* A goroutine that is in the loop belongs to the leader.
LEMMA OnlyLeaderRuns ==
    ASSUME NEW s \in Server, NEW t \in Nat, OnlyLeader(s, t), NEW p \in Server,
           NEW x \in Point \ {"toLeader"}, At(p, x)
    PROVE  p = s
BY DEF OnlyLeader, OutOfLoop, At

\* The leader goes through its loop, and a client calls Start.
LEMMA LoopKeepsOnly ==
    ASSUME RaftInv, RaftInv', GaplessInv, overlaid = {}, LeadsOwnTerm, NEW s \in Server, NEW t \in Nat,
           led = {<<s, t>>}, OnlyLeader(s, t), NEW p \in Server,
           \/ LeaderTickerCheck(p) \/ LeaderUpdateCommitIndex(p) \/ LeaderTickerSend(p) \/ StartSend(p)
           \/ \E command \in Command : Start(p, command)
    PROVE  OnlyLeader(s, t)'
<1>. DEFINE g == rf[s]
            last == LastIndex(g)
<1>1. /\ rf \in [Server -> RaftState] /\ service \in [Server -> Seq(Command)] /\ fault \in [Server -> Fault]
      /\ g \in RaftState /\ service[s] \in Seq(Command) /\ Gapless(g)
  BY DEF RaftInv, NodeInv, GaplessInv
<1>2. LoopIsOf(s) /\ Sound(g, service[s], t, last) /\ Aims(g, last) /\ fault[s] # "panic"
  BY DEF OnlyLeader, LoopIsOf
<1>3. last = g.snapshotIndex + Len(g.log) /\ last \in Int
  BY <1>1, LastOfPeer
<1>4. CASE LeaderTickerCheck(p)
  <2>1. p = s
    BY <1>4, OnlyLeaderRuns DEF LeaderTickerCheck, Point
  <2>2. LoopIsOf(s)'
    BY <1>2, <1>4, <2>1, MoveKept DEF LeaderTickerCheck, Point
  <2>3. rf' = [rf EXCEPT ![s] = g] /\ LogKept(g, g) /\ service' = service /\ fault' = fault
    BY <1>1, <1>4 DEF LeaderTickerCheck, node, LogKept
  <2>4. (\A d \in aeCalls' : d \in aeCalls) /\ (\A d \in isCalls' : d \in isCalls)
    BY <1>4 DEF LeaderTickerCheck, calls
  <2>. QED
    BY <1>1, <1>2, <2>2, <2>3, <2>4, SameKeepsOnly
<1>5. CASE LeaderUpdateCommitIndex(p)
  <2>1. p = s
    BY <1>5, OnlyLeaderRuns DEF LeaderUpdateCommitIndex, Point
  <2>2. PICK n \in {rf[s].matchIndex[q] : q \in Server} :
                Finish(s, AfterCommitCheck(rf[s], service[s], n))
    BY <1>5, <2>1 DEF LeaderUpdateCommitIndex
  <2>. DEFINE out == AfterCommitCheck(rf[s], service[s], n)
  <2>3. n \in Int /\ n <= last
    BY <1>1, <1>2 DEF RaftState, Aims
  <2>4. SoundOutcome(out, t, last)
    BY <1>1, <1>2, <1>3, <2>3, CommitCheckSound
  <2>5. LogKept(g, out.g) /\ out.g.nextIndex = g.nextIndex /\ out.g.matchIndex = g.matchIndex
    <3>1. LogKept(g, out.g)
      BY <1>1, <2>3, AfterCommitCheckIn
    <3>2. out.g.nextIndex = g.nextIndex /\ out.g.matchIndex = g.matchIndex
      BY <1>1 DEF AfterCommitCheck, CommitTo, Deliver, Outcome, RaftState
    <3>. QED
      BY <3>1, <3>2
  <2>6. Finish(s, out)
    BY <2>2
  <2>. HIDE DEF out
  <2>7. OthersSame(s) /\ rf'[s] = out.g /\ service'[s] = out.service /\ fault'[s] = out.fault
    BY <1>1, <2>6 DEF Finish, OthersSame
  <2>8. LastIndex(rf'[s]) = last
    BY <2>5, <2>7 DEF LogKept, LastIndex
  <2>9. Aims(rf'[s], last)
    BY <1>2, <2>5, <2>7 DEF Aims
  <2>10. LoopIsOf(s)'
    BY <1>2, <1>5, <2>1, MoveKept DEF LeaderUpdateCommitIndex, Point
  <2>11. NewCallsSound(s, t)
    BY <1>5 DEF LeaderUpdateCommitIndex, calls, NewCallsSound
  <2>12. /\ fault'[s] # "panic" /\ Sound(rf'[s], service'[s], t, LastIndex(rf'[s]))
         /\ LastIndex(rf[s]) <= LastIndex(rf'[s])
    BY <1>3, <2>4, <2>7, <2>8 DEF SoundOutcome
  <2>. QED
    BY <2>7, <2>8, <2>9, <2>10, <2>11, <2>12, PeerKeepsOnly
<1>6. CASE LeaderTickerSend(p) \/ StartSend(p)
  <2>1. p = s
    BY <1>6, OnlyLeaderRuns DEF LeaderTickerSend, StartSend, Point
  <2>2. LeaderSendAppendEntriesRPC(s)
    BY <1>6, <2>1 DEF LeaderTickerSend, StartSend
  <2>3. LoopIsOf(s)'
    BY <1>2, <1>6, <2>1, MoveKept DEF LeaderTickerSend, StartSend, NextRound, Point
  <2>. QED
    BY <1>1, <2>2, <2>3, SendKeepsOnly
<1>7. ASSUME NEW command \in Command, Start(p, command) PROVE OnlyLeader(s, t)'
  <2>1. p = s /\ g.currentTerm = t
    <3>1. rf[p].role = "leader"
      BY <1>7 DEF Start, IsLeader
    <3>2. <<p, rf[p].currentTerm>> \in led
      BY <3>1 DEF LeadsOwnTerm
    <3>. QED
      BY <3>2
  <2>. DEFINE h == WithCommand(g, s, command)
              entry == [Term |-> g.currentTerm, Index |-> last + 1, Command |-> command]
  <2>2. h \in RaftState /\ Gapless(h)
    BY <1>1, WithCommandIn, WithCommandFollows
  <2>3. /\ h.log = Append(g.log, entry) /\ h.snapshotIndex = g.snapshotIndex
        /\ h.snapshotTerm = g.snapshotTerm /\ h.commitIndex = g.commitIndex
        /\ h.matchIndex = [g.matchIndex EXCEPT ![s] = last + 1]
        /\ h.nextIndex = [g.nextIndex EXCEPT ![s] = last + 1 + 1]
    BY <1>1 DEF WithCommand, RaftState
  <2>4. entry.Term = t
    BY <2>1
  <2>5. /\ rf' = [rf EXCEPT ![s] = h] /\ service' = service /\ fault' = fault
        /\ aeCalls' = aeCalls /\ isCalls' = isCalls /\ Spawn(s, "startSend")
    BY <1>7, <2>1 DEF Start, Save, calls
  <2>. HIDE DEF h, entry
  <2>6. /\ g.log \in Seq(LogEntry) /\ Len(Append(g.log, entry)) = Len(g.log) + 1
        /\ DOMAIN Append(g.log, entry) = 1..(Len(g.log) + 1)
        /\ \A i \in 1..Len(g.log) : Append(g.log, entry)[i] = g.log[i]
        /\ Append(g.log, entry)[Len(g.log) + 1] = entry
    <3>1. g.log \in Seq(LogEntry)
      BY <1>1 DEF RaftState
    <3>. QED
      BY <3>1
  <2>7. LastIndex(h) = last + 1
    <3>1. LastIndex(h) = h.snapshotIndex + Len(h.log) /\ g.snapshotIndex \in Int
      BY <1>1, <2>2, LastOfPeer
    <3>. QED
      BY <1>3, <2>3, <2>6, <3>1
  <2>8. OneTerm(h.log, t)
    <3>1. ASSUME NEW i \in DOMAIN h.log PROVE h.log[i].Term = t
      <4>1. OneTerm(g.log, t)
        BY <1>2 DEF Sound
      <4>2. CASE i = Len(g.log) + 1
        BY <2>3, <2>4, <2>6, <4>2
      <4>3. CASE i # Len(g.log) + 1
        <5>1. i \in 1..Len(g.log) /\ i \in DOMAIN g.log
          BY <2>3, <2>6, <3>1, <4>3
        <5>. QED
          BY <2>3, <2>6, <4>1, <5>1 DEF OneTerm
      <4>. QED
        BY <4>2, <4>3
    <3>. QED
      BY <3>1 DEF OneTerm
  <2>9. OthersSame(s) /\ rf'[s] = h /\ service'[s] = service[s] /\ fault'[s] = fault[s]
    BY <1>1, <2>5 DEF OthersSame
  <2>10. Sound(h, service[s], t, last + 1)
    <3>1. g.commitIndex <= last /\ g.commitIndex \in Int
      BY <1>1, <1>2 DEF Sound, RaftState, LogIndex
    <3>2. g.commitIndex <= last + 1 /\ last + 1 <= last + 1
      BY <1>3, <3>1
    <3>. HIDE DEF last
    <3>. QED
      BY <1>2, <2>3, <2>7, <2>8, <3>2 DEF Sound
  <2>11. Aims(h, last + 1)
    <3>1. ASSUME NEW q \in Server PROVE h.nextIndex[q] <= last + 1 + 1 /\ h.matchIndex[q] <= last + 1
      <4>1. g.nextIndex \in [Server -> Int] /\ g.matchIndex \in [Server -> Int]
        BY <1>1 DEF RaftState
      <4>2. g.nextIndex[q] <= last + 1 /\ g.matchIndex[q] <= last
        BY <1>2 DEF Aims
      <4>. HIDE DEF last, g
      <4>. QED
        BY <1>3, <2>3, <4>1, <4>2
    <3>. QED
      BY <3>1 DEF Aims
  <2>12. LoopIsOf(s)'
    BY <1>2, <2>5, MoveKept DEF Point
  <2>13. NewCallsSound(s, t)
    BY <2>5 DEF NewCallsSound
  <2>14. /\ fault'[s] # "panic" /\ Sound(rf'[s], service'[s], t, LastIndex(rf'[s]))
         /\ LastIndex(rf[s]) <= LastIndex(rf'[s]) /\ Aims(rf'[s], LastIndex(rf'[s]))
    BY <1>2, <1>3, <2>7, <2>9, <2>10, <2>11
  <2>. QED
    BY <2>9, <2>12, <2>13, <2>14, PeerKeepsOnly
<1>. QED
  BY <1>4, <1>5, <1>6, <1>7

\* Crashes and snapshots.
LEMMA RestartKeepsOnly ==
    ASSUME RaftInv, RaftInv', NEW s \in Server, NEW t \in Nat, OnlyLeader(s, t),
           NEW p \in Server, Restart(p)
    PROVE  OnlyLeader(s, t)'
<1>. DEFINE g == Booted(disk[p])
            last == LastIndex(rf[s])
<1>1. /\ rf \in [Server -> RaftState] /\ service \in [Server -> Seq(Command)] /\ fault \in [Server -> Fault]
      /\ disk[p] \in DiskState /\ Durable(disk[p], rf[p]) /\ Covered(rf[p]) /\ rf[p] \in RaftState
      /\ aeCalls \subseteq AppendEntriesCall /\ isCalls \subseteq InstallSnapshotCall
  BY DEF RaftInv, NodeInv, DurableState, CallInv
<1>2. last \in Int /\ last >= -1 /\ LastIndex(rf[p]) \in Int
  BY <1>1, LastOfLogIn DEF LogIndex
<1>3. g \in RaftState /\ LogKept(rf[p], g)
  BY <1>1, BootedIn DEF LogKept, Durable
<1>4. /\ g.commitIndex = disk[p].snapshotIndex /\ g.nextIndex = [q \in Server |-> 0]
      /\ g.matchIndex = [q \in Server |-> -1]
  BY DEF Booted
<1>5. /\ rf' = [rf EXCEPT ![p] = g] /\ service' = [service EXCEPT ![p] = g.snapshot]
      /\ fault' = [fault EXCEPT ![p] = IF MakeBlocks(g) THEN "blocked" ELSE "none"]
      /\ goroutines' = [goroutines EXCEPT ![p] = [x \in Point |-> 0]]
      /\ aeCalls' = Orphaned(aeCalls, p) /\ isCalls' = Orphaned(isCalls, p)
  BY DEF Restart
<1>. HIDE DEF g
<1>6. /\ OthersSame(p) /\ rf'[p] = g /\ service'[p] = g.snapshot /\ fault'[p] # "panic"
  BY <1>1, <1>5 DEF OthersSame
<1>7. LastIndex(rf'[s]) = last /\ LastIndex(g) = LastIndex(rf[p])
  <2>1. LogKept(rf[s], rf'[s])
    BY <1>1, <1>3, <1>5 DEF LogKept
  <2>. QED
    BY <1>3, <2>1 DEF LogKept, LastIndex
<1>8. Sound(rf[p], service[p], t, last) /\ LoopIsOf(s)
  BY DEF OnlyLeader, LoopIsOf
<1>9. Sound(g, g.snapshot, t, last)
  <2>1. /\ g.commitIndex = g.snapshotIndex /\ g.snapshotIndex = rf[p].snapshotIndex
        /\ Len(g.snapshot) = g.snapshotIndex + 1 /\ g.log = rf[p].log /\ g.snapshotTerm = rf[p].snapshotTerm
    BY <1>1, <1>3, <1>4 DEF LogKept, Durable, Covered
  <2>2. g.snapshotIndex <= LastIndex(g) /\ g.snapshotIndex \in Int /\ LastIndex(g) <= last
    <3>1. rf[p].snapshotIndex \in Int /\ rf[p].commitIndex \in Int
      BY <1>1 DEF RaftState, LogIndex
    <3>. QED
      BY <1>2, <1>7, <1>8, <2>1, <3>1 DEF Sound
  <2>. HIDE DEF last
  <2>. QED
    BY <1>8, <2>1, <2>2 DEF Sound
<1>10. Aims(g, last)
  <2>1. ASSUME NEW q \in Server PROVE g.nextIndex[q] <= last + 1 /\ g.matchIndex[q] <= last
    <3>. HIDE DEF last
    <3>. QED
      BY <1>2, <1>4
  <2>. QED
    BY <2>1 DEF Aims
<1>11. LoopIsOf(s)'
  BY <1>5, <1>8, LoopKept
<1>12. NewCallsSound(s, t)
  <2>1. ASSUME NEW c \in aeCalls' PROVE c \in aeCalls \/ AppendSound(c, s, t, last)
    <3>1. ASSUME NEW d \in aeCalls, c = [d EXCEPT !.live = FALSE] PROVE AppendSound(c, s, t, last)
      <4>1. AppendSound(d, s, t, last) /\ d \in AppendEntriesCall
        BY <1>1 DEF OnlyLeader
      <4>. QED
        BY <1>2, <3>1, <4>1, CallsStaySound
    <3>. QED
      BY <1>5, <2>1, <3>1 DEF Orphaned
  <2>2. ASSUME NEW c \in isCalls' PROVE c \in isCalls \/ InstallCallSound(c, s, t, last)
    <3>1. ASSUME NEW d \in isCalls, c = [d EXCEPT !.live = FALSE] PROVE InstallCallSound(c, s, t, last)
      <4>1. InstallCallSound(d, s, t, last) /\ d \in InstallSnapshotCall
        BY <1>1 DEF OnlyLeader
      <4>. QED
        BY <1>2, <3>1, <4>1, CallsStaySound
    <3>. QED
      BY <1>5, <2>2, <3>1 DEF Orphaned
  <2>. QED
    BY <1>7, <2>1, <2>2 DEF NewCallsSound
<1>13. /\ LastIndex(rf[s]) <= LastIndex(rf'[s]) /\ Sound(rf'[p], service'[p], t, LastIndex(rf'[s]))
       /\ p = s => Aims(rf'[s], LastIndex(rf'[s]))
  BY <1>2, <1>6, <1>7, <1>9, <1>10
<1>. QED
  BY <1>6, <1>11, <1>12, <1>13, PeerKeepsOnly

\* A service takes a snapshot.
LEMMA SnapshotKeepsOnly ==
    ASSUME RaftInv, RaftInv', GaplessInv, overlaid = {}, NEW s \in Server, NEW t \in Nat, OnlyLeader(s, t),
           NEW p \in Server, NEW index \in Nat, Snapshot(p, index)
    PROVE  OnlyLeader(s, t)'
<1>. DEFINE out == AfterSnapshot(rf[p], service[p], index)
            last == LastIndex(rf[s])
<1>1. /\ rf \in [Server -> RaftState] /\ service \in [Server -> Seq(Command)] /\ fault \in [Server -> Fault]
      /\ rf[p] \in RaftState /\ service[p] \in Seq(Command) /\ Gapless(rf[p])
  BY DEF RaftInv, NodeInv, GaplessInv
<1>2. last \in Int /\ Sound(rf[p], service[p], t, last) /\ LoopIsOf(s) /\ Aims(rf[s], last)
  BY <1>1, LastOfLogIn DEF LogIndex, OnlyLeader, LoopIsOf
<1>3. /\ Finish(p, out) /\ index + 1 <= Len(service[p]) /\ goroutines' = goroutines
      /\ aeCalls' = aeCalls /\ isCalls' = isCalls
  BY DEF Snapshot, calls
<1>4. SoundOutcome(out, t, last) /\ LastIndex(out.g) = LastIndex(rf[p])
  BY <1>1, <1>2, <1>3, SnapshotSound
<1>5. out.g.nextIndex = rf[p].nextIndex /\ out.g.matchIndex = rf[p].matchIndex
  BY <1>1 DEF AfterSnapshot, Compacted, Deliver, Outcome, RaftState
<1>. HIDE DEF out
<1>6. OthersSame(p) /\ rf'[p] = out.g /\ service'[p] = out.service /\ fault'[p] = out.fault
  BY <1>1, <1>3 DEF Finish, OthersSame
<1>7. LastIndex(rf'[s]) = last
  BY <1>4, <1>6 DEF OthersSame
<1>8. p = s => Aims(rf'[s], LastIndex(rf'[s]))
  BY <1>2, <1>5, <1>6, <1>7 DEF Aims
<1>9. NewCallsSound(s, t) /\ LoopIsOf(s)'
  BY <1>2, <1>3, LoopKept DEF NewCallsSound
<1>10. /\ LastIndex(rf[s]) <= LastIndex(rf'[s]) /\ Sound(rf'[p], service'[p], t, LastIndex(rf'[s]))
       /\ fault'[p] # "panic"
  BY <1>2, <1>4, <1>6, <1>7 DEF SoundOutcome
<1>. QED
  BY <1>6, <1>8, <1>9, <1>10, PeerKeepsOnly

-----------------------------------------------------------------------------
\* Before the first leader, only elections and crashes happen.
LEMMA UntouchedStays ==
    ASSUME RaftInv, RaftInv', LeadsOwnTerm, Untouched, led = {}, led' = {}, Next
    PROVE  Untouched'
<1>1. /\ rf \in [Server -> RaftState] /\ service \in [Server -> Seq(Command)] /\ fault \in [Server -> Fault]
      /\ disk \in [Server -> DiskState] /\ DurableState /\ rvCalls \subseteq RequestVoteCall
      /\ goroutines \in [Server -> [Point -> Nat]]
  BY DEF RaftInv, NodeInv, CallInv, RestInv
<1>2. ASSUME NEW p \in Server, NEW x \in Point \ {"toLeader"} PROVE ~At(p, x)
  BY DEF Untouched, OutOfLoop, At
<1>3. ASSUME NEW p \in Server, NEW g \in RaftState, rf' = [rf EXCEPT ![p] = g], LogKept(rf[p], g),
             g.commitIndex = rf[p].commitIndex, service' = service,
             \A q \in Server : fault'[q] # "panic" /\ OutOfLoop(q)', aeCalls' = {}, isCalls' = {}
      PROVE  Untouched'
  <2>1. ASSUME NEW q \in Server
        PROVE  /\ rf'[q].log = <<>> /\ rf'[q].commitIndex = -1 /\ rf'[q].snapshotIndex = -1
               /\ rf'[q].snapshotTerm = 0 /\ service'[q] = <<>>
    <3>1. /\ rf[q].log = <<>> /\ rf[q].commitIndex = -1 /\ rf[q].snapshotIndex = -1
          /\ rf[q].snapshotTerm = 0 /\ service[q] = <<>>
      BY DEF Untouched
    <3>. QED
      BY <1>1, <1>3, <3>1 DEF LogKept
  <2>. QED
    BY <1>3, <2>1, Zenon DEF Untouched
<1>4. \A q \in Server : fault[q] # "panic" /\ OutOfLoop(q)
  BY DEF Untouched
<1>5. ASSUME NEW p \in Server, goroutines' = goroutines \/ goroutines' = [goroutines EXCEPT ![p]["toLeader"] = @ + 1]
                                 \/ goroutines' = [goroutines EXCEPT ![p] = [x \in Point |-> 0]]
      PROVE  \A q \in Server : OutOfLoop(q)'
  <2>1. ASSUME NEW q \in Server, NEW x \in Point \ {"toLeader"} PROVE goroutines'[q][x] = 0
    <3>1. goroutines[q][x] = 0
      BY <1>4 DEF OutOfLoop
    <3>. QED
      BY <1>1, <1>5, <2>1, <3>1
  <2>. QED
    BY <2>1 DEF OutOfLoop
<1>6. ASSUME NEW p \in Server, ToCandidate(p) PROVE Untouched'
  <2>. DEFINE g == Candidate(rf[p], p)
  <2>1. g \in RaftState /\ LogKept(rf[p], g) /\ g.commitIndex = rf[p].commitIndex
    <3>1. rf[p] \in RaftState
      BY <1>1
    <3>2. g.commitIndex = rf[p].commitIndex
      BY <3>1 DEF Candidate, RaftState
    <3>. QED
      BY <3>1, <3>2, CandidateIn
  <2>2. /\ rf' = [rf EXCEPT ![p] = g] /\ service' = service /\ fault' = fault
        /\ aeCalls' = {} /\ isCalls' = {} /\ goroutines' = goroutines
    BY <1>6 DEF ToCandidate, Save, Untouched
  <2>. HIDE DEF g
  <2>. QED
    BY <1>3, <1>4, <1>5, <2>1, <2>2
<1>7. ASSUME NEW c \in rvCalls, RequestVoteRequestHandler(c) PROVE Untouched'
  <2>. DEFINE p == c.to
              h == Observe(rf[p], c.Term)
              g == [h EXCEPT !.votedFor = IF GrantsVote(h, c) THEN c.from ELSE @]
  <2>1. p \in Server /\ c.Term \in Nat /\ c.from \in Server /\ rf[p] \in RaftState
    BY <1>1 DEF RequestVoteCall
  <2>2. h \in RaftState /\ LogKept(rf[p], h) /\ h.commitIndex = rf[p].commitIndex
    BY <2>1, ObserveIn DEF Observe, ToFollower, RaftState
  <2>3. /\ rf' = [rf EXCEPT ![p] = g] /\ service' = service /\ fault' = fault
        /\ aeCalls' = {} /\ isCalls' = {} /\ goroutines' = goroutines
    BY <1>7 DEF RequestVoteRequestHandler, Save, Untouched
  <2>. HIDE DEF h
  <2>4. g \in RaftState /\ LogKept(h, g) /\ g.commitIndex = h.commitIndex
    BY <2>1, <2>2 DEF RaftState, LogKept
  <2>. HIDE DEF g, p
  <2>5. LogKept(rf[p], g)
    BY <2>2, <2>4 DEF LogKept
  <2>. QED
    BY <1>3, <1>4, <1>5, <2>1, <2>2, <2>3, <2>4, <2>5
<1>8. ASSUME NEW c \in rvCalls, RequestVoteResponseHandler(c) PROVE Untouched'
  <2>. DEFINE p == c.from
              g == AfterVoteReply(rf[p], c, c.reply)
  <2>1. p \in Server /\ c.reply.Term \in Nat /\ rf[p] \in RaftState
    BY <1>1 DEF RequestVoteCall
  <2>2. g \in RaftState /\ LogKept(rf[p], g)
    BY <2>1, AfterVoteReplyIn
  <2>3. g.commitIndex = rf[p].commitIndex
    BY <2>1 DEF AfterVoteReply, ToFollower, RaftState
  <2>4. /\ rf' = [rf EXCEPT ![p] = g] /\ service' = service /\ fault' = fault
        /\ aeCalls' = {} /\ isCalls' = {}
        /\ \/ goroutines' = goroutines
           \/ goroutines' = [goroutines EXCEPT ![p]["toLeader"] = @ + 1]
    BY <1>8 DEF RequestVoteResponseHandler, Untouched
  <2>. HIDE DEF g, p
  <2>5. \A q \in Server : OutOfLoop(q)'
    BY <1>5, <2>1, <2>4
  <2>. QED
    BY <1>3, <1>4, <2>1, <2>2, <2>3, <2>4, <2>5
<1>9. ASSUME NEW p \in Server, Restart(p) PROVE Untouched'
  <2>. DEFINE g == Booted(disk[p])
  <2>1. disk[p] \in DiskState /\ Durable(disk[p], rf[p]) /\ Covered(rf[p]) /\ rf[p] \in RaftState
    BY DEF RaftInv, NodeInv, DurableState
  <2>2. rf[p].snapshotIndex = -1 /\ rf[p].commitIndex = -1 /\ service[p] = <<>>
    BY DEF Untouched
  <2>3. g \in RaftState /\ LogKept(rf[p], g) /\ g.commitIndex = rf[p].commitIndex
    BY <2>1, <2>2, BootedIn DEF LogKept, Durable, Booted
  <2>4. /\ rf' = [rf EXCEPT ![p] = g] /\ service' = [service EXCEPT ![p] = g.snapshot]
        /\ fault' = [fault EXCEPT ![p] = IF MakeBlocks(g) THEN "blocked" ELSE "none"]
        /\ goroutines' = [goroutines EXCEPT ![p] = [x \in Point |-> 0]]
        /\ aeCalls' = Orphaned(aeCalls, p) /\ isCalls' = Orphaned(isCalls, p)
    BY <1>9 DEF Restart
  <2>5. aeCalls' = {} /\ isCalls' = {}
    BY <2>4 DEF Untouched, Orphaned
  <2>. HIDE DEF g
  <2>6. g.snapshot = <<>>
    <3>1. g.snapshot = rf[p].snapshot /\ Len(rf[p].snapshot) = 0 /\ rf[p].snapshot \in Seq(Command)
      BY <2>1, <2>2, <2>3 DEF LogKept, Covered, RaftState
    <3>. QED
      BY <3>1, EmptySeq
  <2>7. service' = service /\ \A q \in Server : fault'[q] # "panic"
    BY <1>1, <1>4, <2>2, <2>4, <2>6
  <2>. QED
    BY <1>3, <1>5, <2>3, <2>4, <2>5, <2>7
<1>10. ASSUME NEW p \in Server, ServerStep(p) PROVE ToCandidate(p) \/ Restart(p)
  <2>1. ~ToLeader(p)
    BY DEF ToLeader
  <2>2. ~LeaderTickerCheck(p) /\ ~LeaderUpdateCommitIndex(p) /\ ~LeaderTickerSend(p) /\ ~StartSend(p)
    BY <1>2 DEF LeaderTickerCheck, LeaderUpdateCommitIndex, LeaderTickerSend, StartSend, Point
  <2>3. ~(\E command \in Command : Start(p, command))
    BY DEF Start, IsLeader, LeadsOwnTerm
  <2>4. ~(\E i \in 1..Len(service[p]) : Snapshot(p, i - 1))
    <3>1. service[p] = <<>>
      BY DEF Untouched
    <3>2. Len(service[p]) = 0
      BY <3>1
    <3>3. 1..Len(service[p]) = {}
      BY <3>2
    <3>. QED
      BY <3>3
  <2>. QED
    BY <1>10, <2>1, <2>2, <2>3, <2>4 DEF ServerStep
<1>11. ASSUME Deliveries
       PROVE  \E c \in rvCalls : RequestVoteRequestHandler(c) \/ RequestVoteResponseHandler(c)
  BY <1>11 DEF Deliveries, Untouched
<1>. QED
  BY <1>6, <1>7, <1>8, <1>9, <1>10, <1>11 DEF Next

\* The first leader finds all logs empty.
LEMMA FirstLeader ==
    ASSUME RaftInv, RaftInv', Untouched, NEW s \in Server, NEW t \in Nat, ToLeader(s)
    PROVE  OnlyLeader(s, t)'
<1>1. /\ rf \in [Server -> RaftState] /\ service \in [Server -> Seq(Command)] /\ fault \in [Server -> Fault]
  BY DEF RaftInv, NodeInv
<1>2. ASSUME NEW p \in Server PROVE LastIndex(rf[p]) = -1 /\ Sound(rf[p], service[p], t, -1)
  <2>1. /\ rf[p].log = <<>> /\ rf[p].commitIndex = -1 /\ rf[p].snapshotIndex = -1
        /\ rf[p].snapshotTerm = 0 /\ service[p] = <<>>
    BY DEF Untouched
  <2>2. LastIndex(rf[p]) = -1 /\ OneTerm(rf[p].log, t) /\ rf[p].snapshotTerm = TermUpTo(rf[p].snapshotIndex, t)
    BY <2>1 DEF LastIndex, LastLogIndex, OneTerm, TermUpTo
  <2>3. Len(service[p]) = 0
    BY <2>1
  <2>. QED
    BY <2>1, <2>2, <2>3 DEF Sound
<1>. DEFINE g == Leader(rf[s], s)
<1>3. g \in RaftState /\ LogKept(rf[s], g)
  BY <1>1, LeaderIn
<1>4. /\ g.commitIndex = rf[s].commitIndex /\ g.nextIndex = [p \in Server |-> LastIndex(rf[s]) + 1]
      /\ g.matchIndex = [p \in Server |-> IF p = s THEN LastIndex(rf[s]) ELSE -1]
  BY <1>1 DEF Leader, RaftState
<1>5. /\ rf' = [rf EXCEPT ![s] = g] /\ service' = service /\ fault' = fault
      /\ aeCalls' = {} /\ isCalls' = {} /\ Move(s, "toLeader", "commit")
  BY DEF ToLeader, Save, calls, Untouched
<1>6. LoopIsOf(s)'
  <2>1. LoopIsOf(s)
    BY DEF Untouched, LoopIsOf
  <2>. QED
    BY <1>5, <2>1, MoveKept DEF Point
<1>. HIDE DEF g
<1>7. LastIndex(rf'[s]) = -1 /\ rf'[s] = g
  BY <1>1, <1>2, <1>3, <1>5 DEF LogKept, LastIndex
<1>8. ASSUME NEW p \in Server PROVE Sound(rf'[p], service'[p], t, -1) /\ fault'[p] # "panic"
  <2>1. LogKept(rf[p], rf'[p]) /\ rf'[p].commitIndex = rf[p].commitIndex
    BY <1>1, <1>3, <1>4, <1>5 DEF LogKept
  <2>2. Sound(rf[p], service[p], t, -1)
    BY <1>2
  <2>. QED
    BY <1>5, <2>1, <2>2, SameSound DEF Untouched
<1>9. Aims(rf'[s], -1)
  BY <1>2, <1>4, <1>7 DEF Aims
<1>10. \A p \in Server : p # s => OutOfLoop(p)'
  BY <1>6 DEF LoopIsOf
<1>11. \A c \in aeCalls' : AppendSound(c, s, t, LastIndex(rf'[s]))
  BY <1>5
<1>12. \A c \in isCalls' : InstallCallSound(c, s, t, LastIndex(rf'[s]))
  BY <1>5
<1>13. \A p \in Server : Sound(rf'[p], service'[p], t, LastIndex(rf'[s])) /\ fault'[p] # "panic"
  BY <1>7, <1>8
<1>14. Aims(rf'[s], LastIndex(rf'[s]))
  BY <1>7, <1>9
<1>. QED
  BY <1>10, <1>11, <1>12, <1>13, <1>14, Zenon DEF OnlyLeader

-----------------------------------------------------------------------------
\* The history only grows, and only toLeader adds a leader.
LEMMA LeadersGrow ==
    ASSUME Next
    PROVE  overlaid \subseteq overlaid' /\ (led' = led \/ \E s \in Server : ToLeader(s))
<1>. DEFINE Grown == overlaid \subseteq overlaid' /\ led' = led
<1>1. CASE Deliveries
  <2>1. ASSUME NEW c \in rvCalls, RequestVoteRequestHandler(c) PROVE Grown
    BY <2>1 DEF RequestVoteRequestHandler
  <2>2. ASSUME NEW c \in rvCalls, RequestVoteResponseHandler(c) PROVE Grown
    BY <2>2 DEF RequestVoteResponseHandler
  <2>3. ASSUME NEW c \in aeCalls, AppendEntriesRequestHandler(c) PROVE Grown
    BY <2>3 DEF AppendEntriesRequestHandler
  <2>4. ASSUME NEW c \in aeCalls, NEW r \in Returns(c, NoAnswer), AppendEntriesResponseHandler(c, r)
        PROVE  Grown
    BY <2>4 DEF AppendEntriesResponseHandler, history
  <2>5. ASSUME NEW c \in isCalls, InstallSnapshotRequestHandler(c) PROVE Grown
    BY <2>5 DEF InstallSnapshotRequestHandler, history
  <2>6. ASSUME NEW c \in isCalls, NEW r \in Returns(c, NoInstall), InstallSnapshotResponseHandler(c, r)
        PROVE  Grown
    BY <2>6 DEF InstallSnapshotResponseHandler, history
  <2>7. Grown
    <3>. HIDE DEF Grown
    <3>. QED
      BY <1>1, <2>1, <2>2, <2>3, <2>4, <2>5, <2>6 DEF Deliveries
  <2>. QED
    BY <2>7
<1>2. ASSUME NEW s \in Server, ServerStep(s) PROVE Grown \/ (overlaid \subseteq overlaid' /\ ToLeader(s))
  <2>1. CASE ToCandidate(s)
    BY <2>1 DEF ToCandidate
  <2>2. CASE ToLeader(s)
    BY <2>2 DEF ToLeader
  <2>3. CASE LeaderTickerCheck(s)
    BY <2>3 DEF LeaderTickerCheck, history
  <2>4. CASE LeaderUpdateCommitIndex(s)
    BY <2>4 DEF LeaderUpdateCommitIndex
  <2>5. CASE LeaderTickerSend(s) \/ StartSend(s)
    BY <2>5 DEF LeaderTickerSend, StartSend, LeaderSendAppendEntriesRPC
  <2>6. CASE \E command \in Command : Start(s, command)
    BY <2>6 DEF Start, history
  <2>7. CASE \E i \in 1..Len(service[s]) : Snapshot(s, i - 1)
    BY <2>7 DEF Snapshot, history
  <2>8. CASE Restart(s)
    BY <2>8 DEF Restart, history
  <2>. HIDE DEF Grown
  <2>. QED
    BY <1>2, <2>1, <2>2, <2>3, <2>4, <2>5, <2>6, <2>7, <2>8 DEF ServerStep
<1>. QED
  BY <1>1, <1>2 DEF Next

\* With one leader, every step keeps everybody sound.
LEMMA StepKeepsOnly ==
    ASSUME RaftInv, RaftInv', GaplessInv, LeadsOwnTerm, overlaid = {}, overlaid' = {},
           NEW s \in Server, NEW t \in Nat, led = {<<s, t>>}, led' = {<<s, t>>}, OnlyLeader(s, t), Next
    PROVE  OnlyLeader(s, t)'
<1>1. Gapless(rf[s])
  BY DEF GaplessInv
<1>2. CASE Deliveries
  <2>1. ASSUME NEW c \in rvCalls, RequestVoteRequestHandler(c) \/ RequestVoteResponseHandler(c)
        PROVE  OnlyLeader(s, t)'
    BY <2>1, ElectionKeepsOnly
  <2>2. ASSUME NEW c \in aeCalls, AppendEntriesRequestHandler(c) PROVE OnlyLeader(s, t)'
    BY <2>2, AppendRequestKeepsOnly
  <2>3. ASSUME NEW c \in aeCalls, NEW r \in Returns(c, NoAnswer), AppendEntriesResponseHandler(c, r)
        PROVE  OnlyLeader(s, t)'
    BY <1>1, <2>3, RepliesKeepOnly
  <2>4. ASSUME NEW c \in isCalls, InstallSnapshotRequestHandler(c) PROVE OnlyLeader(s, t)'
    BY <2>4, InstallRequestKeepsOnly
  <2>5. ASSUME NEW c \in isCalls, NEW r \in Returns(c, NoInstall), InstallSnapshotResponseHandler(c, r)
        PROVE  OnlyLeader(s, t)'
    BY <1>1, <2>5, RepliesKeepOnly
  <2>. QED
    BY <1>2, <2>1, <2>2, <2>3, <2>4, <2>5, Zenon DEF Deliveries
<1>3. ASSUME NEW p \in Server, ServerStep(p) PROVE OnlyLeader(s, t)'
  <2>1. CASE ToCandidate(p)
    BY <2>1, ElectionKeepsOnly
  <2>2. CASE ToLeader(p)
    <3>1. <<p, rf[p].currentTerm>> = <<s, t>>
      <4>1. led' = led \cup {<<p, rf[p].currentTerm>>}
        BY <2>2 DEF ToLeader
      <4>2. <<p, rf[p].currentTerm>> \in led'
        BY <4>1
      <4>. QED
        BY <4>2
    <3>2. p = s
      BY <3>1
    <3>. QED
      BY <2>2, <3>2, ToLeaderKeepsOnly
  <2>3. CASE \/ LeaderTickerCheck(p) \/ LeaderUpdateCommitIndex(p) \/ LeaderTickerSend(p) \/ StartSend(p)
             \/ \E command \in Command : Start(p, command)
    BY <2>3, LoopKeepsOnly
  <2>4. ASSUME NEW i \in 1..Len(service[p]), Snapshot(p, i - 1) PROVE OnlyLeader(s, t)'
    <3>1. i - 1 \in Nat
      BY DEF RaftInv, NodeInv
    <3>. QED
      BY <2>4, <3>1, SnapshotKeepsOnly
  <2>5. CASE Restart(p)
    BY <2>5, RestartKeepsOnly
  <2>. QED
    BY <1>3, <2>1, <2>2, <2>3, <2>4, <2>5, Zenon DEF ServerStep
<1>. QED
  BY <1>2, <1>3, Zenon DEF Next

\* One step from the history of at most one leader.
LEMMA OneLeaderStep ==
    ASSUME RaftInv, RaftInv', GaplessInv, LeadsOwnTerm, OneLeaderInv, Next
    PROVE  OneLeaderInv'
<1>1. overlaid \subseteq overlaid' /\ (led' = led \/ \E s \in Server : ToLeader(s))
  BY LeadersGrow
<1>2. ASSUME NEW s \in Server, ToLeader(s)
      PROVE  led' = led \cup {<<s, rf[s].currentTerm>>} /\ rf[s].currentTerm \in Nat
  <2>1. rf[s] \in RaftState
    BY DEF RaftInv, NodeInv
  <2>2. rf[s].currentTerm \in Nat
    BY <2>1 DEF RaftState
  <2>. QED
    BY <1>2, <2>2 DEF ToLeader
<1>3. IsFiniteSet(led')
  <2>1. IsFiniteSet(led)
    BY DEF OneLeaderInv
  <2>2. ASSUME NEW s \in Server, ToLeader(s) PROVE IsFiniteSet(led')
    <3>1. IsFiniteSet(led \cup {<<s, rf[s].currentTerm>>})
      BY <2>1, FS_AddElement
    <3>. QED
      BY <1>2, <2>2, <3>1
  <2>. QED
    BY <1>1, <2>1, <2>2
<1>4. ASSUME overlaid' = {}, led' = {} PROVE Untouched'
  <2>1. overlaid = {} /\ led = {}
    BY <1>1, <1>2, <1>4
  <2>2. Untouched
    BY <2>1 DEF OneLeaderInv
  <2>. QED
    BY <1>4, <2>1, <2>2, UntouchedStays
<1>5. ASSUME overlaid' = {}, NEW s \in Server, NEW t \in Nat, led' = {<<s, t>>} PROVE OnlyLeader(s, t)'
  <2>1. overlaid = {}
    BY <1>1, <1>5
  <2>2. CASE led = {<<s, t>>}
    <3>1. OnlyLeader(s, t)
      BY <2>1, <2>2, Zenon DEF OneLeaderInv
    <3>. QED
      BY <1>5, <2>1, <2>2, <3>1, StepKeepsOnly
  <2>3. CASE led # {<<s, t>>}
    <3>1. PICK p \in Server : ToLeader(p)
      BY <1>1, <1>5, <2>3
    <3>2. led' = led \cup {<<p, rf[p].currentTerm>>}
      BY <1>2, <3>1
    <3>3. led = {} /\ <<p, rf[p].currentTerm>> = <<s, t>>
      BY <1>5, <2>3, <3>2, Zenon
    <3>4. p = s
      BY <3>3
    <3>5. Untouched
      BY <2>1, <3>3 DEF OneLeaderInv
    <3>. QED
      BY <3>1, <3>4, <3>5, FirstLeader
  <2>. QED
    BY <2>2, <2>3
<1>. QED
  BY <1>3, <1>4, <1>5, Zenon DEF OneLeaderInv

(***************************************************************************)
(* As long as one server has led, in one term, and no request has overlaid *)
(* a snapshot, no peer panics or indexes out of range: not in the commit   *)
(* check of a batch, not in Snapshot or InstallSnapshot, and not in the    *)
(* leader's search for the entries to send.                                *)
(***************************************************************************)
THEOREM NoPanicWithOneLeader == Spec => []OneLeaderNoPanic
<1>1. Init => OneLeaderInv
  <2>. SUFFICES ASSUME Init PROVE OneLeaderInv
    OBVIOUS
  <2>1. led = {} /\ aeCalls = {} /\ isCalls = {} /\ IsFiniteSet(led)
    BY FS_EmptySet DEF Init
  <2>2. ASSUME NEW p \in Server
        PROVE  /\ rf[p].log = <<>> /\ rf[p].commitIndex = -1 /\ rf[p].snapshotIndex = -1
               /\ rf[p].snapshotTerm = 0 /\ service[p] = <<>> /\ fault[p] # "panic" /\ OutOfLoop(p)
    BY DEF Init, Booted, NewDisk, OutOfLoop
  <2>3. Untouched
    BY <2>1, <2>2 DEF Untouched
  <2>4. \A s \in Server, t \in Nat : led # {<<s, t>>}
    BY <2>1
  <2>. QED
    BY <2>1, <2>3, <2>4, Zenon DEF OneLeaderInv
<1>2. ASSUME RaftInv, RaftInv', GaplessInv, LeadInv, OneLeaderInv, [Next]_vars PROVE OneLeaderInv'
  <2>1. CASE UNCHANGED vars
    <3>1. UNCHANGED <<rf, service, fault, aeCalls, isCalls, goroutines, led, overlaid>>
      BY <2>1 DEF vars, node, calls, history
    <3>2. (Untouched => Untouched') /\ \A s, t : OnlyLeader(s, t) => OnlyLeader(s, t)'
      BY <3>1 DEF Untouched, OnlyLeader, OutOfLoop
    <3>. QED
      BY <1>2, <3>1, <3>2, Zenon DEF OneLeaderInv
  <2>2. CASE Next
    BY <1>2, <2>2, OneLeaderStep DEF LeadInv
  <2>. QED
    BY <1>2, <2>1, <2>2
<1>3. RaftInv /\ OneLeaderInv => OneLeaderNoPanic
  <2>. SUFFICES ASSUME RaftInv, OneLeaderInv, Cardinality(led) <= 1, overlaid = {}
                PROVE  \A p \in Server : fault[p] # "panic"
    BY DEF OneLeaderNoPanic
  <2>1. IsFiniteSet(led) /\ led \subseteq Server \X Nat
    BY DEF OneLeaderInv, RaftInv, RestInv
  <2>2. Cardinality(led) = 0 \/ Cardinality(led) = 1
    BY <2>1, FS_CardinalityType
  <2>3. CASE Cardinality(led) = 0
    <3>1. led = {}
      BY <2>1, <2>3, FS_EmptySet
    <3>. QED
      BY <3>1 DEF OneLeaderInv, Untouched
  <2>4. CASE Cardinality(led) = 1
    <3>1. PICK a : led = {a}
      BY <2>1, <2>4, FS_Singleton
    <3>2. PICK s \in Server, t \in Nat : a = <<s, t>>
      BY <2>1, <3>1
    <3>3. OnlyLeader(s, t)
      BY <3>1, <3>2 DEF OneLeaderInv
    <3>. QED
      BY <3>3 DEF OnlyLeader
  <2>. QED
    BY <2>2, <2>3, <2>4
<1>. QED
  BY <1>1, <1>2, <1>3, RaftInvariant, GaplessInvariant, LeadInvariant, PTL DEF Spec
=============================================================================
