------------------------------- MODULE RaftLog -------------------------------
(***************************************************************************)
(* The log arithmetic of raft/: what the handlers compute from a log, a    *)
(* snapshot position and an RPC, without any server state.                 *)
(*                                                                         *)
(* A Go slice is a sequence, so subscript i of the code is position i+1    *)
(* here, and findIndex's "-1, absent" is position 0.  The Index stored in  *)
(* an entry is the code's own 0-based index, and -1 still means "nothing". *)
(***************************************************************************)
EXTENDS Integers, Sequences, FiniteSets

CONSTANT Command    \* what clients hand to Start()

LogEntry == [Term : Nat, Index : Nat, Command : Command]

\* The indices of the code: log positions, with -1 for "none".
LogIndex == Nat \cup {-1}

Smaller(a, b) == IF a < b THEN a ELSE b

(***************************************************************************)
(* The first position of log that satisfies the membership test hits.      *)
(* Loops of the code that stop at their first hit are written with it.     *)
(***************************************************************************)
First(hits) == CHOOSE p \in hits : \A q \in hits : p <= q
Last(hits)  == CHOOSE p \in hits : \A q \in hits : p >= q

FindIndex(log, target) ==
    LET hits == {p \in DOMAIN log : log[p].Index = target}
    IN  IF hits = {} THEN 0 ELSE First(hits)

LastLogIndex(log, snapshotIndex) ==
    IF log # <<>> THEN log[Len(log)].Index ELSE snapshotIndex

LastLogTerm(log, snapshotTerm) ==
    IF log # <<>> THEN log[Len(log)].Term ELSE snapshotTerm

-----------------------------------------------------------------------------
(* Follower side of AppendEntries *)

\* Mutant of MergeEntries: append without cutting the log first.
MergeByAppending(log, at, entries) == log \o entries

\* Mutant of MergeEntries: a log at least as long as the entries is kept.
MergeIntoShorterOnly(log, at, entries) ==
    IF Len(log) - at < Len(entries) THEN SubSeq(log, 1, at) \o entries ELSE log

\* Mutant of MergeEntries: the entries end the log, even a stale request's.
MergeTruncating(log, at, entries) == SubSeq(log, 1, at) \o entries

(***************************************************************************)
(* Entries follow the matched position at (0 when PrevLogIndex is -1).     *)
(* A log that is not longer than the entries is overwritten from there; a  *)
(* longer one is only cut at the first entry whose term differs.           *)
(***************************************************************************)
MergeEntries(log, at, entries) ==
    LET differ == {i \in DOMAIN entries :
                      at + i <= Len(log) /\ log[at + i].Term # entries[i].Term}
    IN  IF Len(log) - at <= Len(entries)
          THEN SubSeq(log, 1, at) \o entries
        ELSE IF differ = {}
          THEN log
          ELSE SubSeq(log, 1, at + First(differ) - 1)
                 \o SubSeq(entries, First(differ), Len(entries))

\* PrevLogIndex is hidden by the follower's snapshot: keep the entries that
\* start right after the snapshot, if there are any.
MergeBehindSnapshot(log, snapshotIndex, entries) ==
    LET from == FindIndex(entries, snapshotIndex + 1)
        new  == SubSeq(entries, from, Len(entries))
    IN  IF from = 0
          THEN log
        ELSE IF \/ Len(log) <= Len(new)
                \/ \E i \in DOMAIN new : log[i].Term # new[i].Term
          THEN new
          ELSE log

Answer(log, success, xterm, xindex) ==
    [log |-> log, Success |-> success, XTerm |-> xterm, XIndex |-> xindex]

(***************************************************************************)
(* followerHandleLog: the follower's log after the call and the reply's    *)
(* Success, XTerm and XIndex.  (XLen is sent and never read.)              *)
(***************************************************************************)
FollowerHandleLog(log, snapshotIndex, args) ==
    LET last == LastLogIndex(log, snapshotIndex)
        at   == FindIndex(log, args.PrevLogIndex)
        run  == {p \in 1..at : log[p].Term = log[at].Term}
    IN  IF last < args.PrevLogIndex
          THEN Answer(log, FALSE, -1, last + 1)
        ELSE IF at = 0 /\ args.PrevLogIndex # -1
          THEN Answer(MergeBehindSnapshot(log, snapshotIndex, args.Entries), TRUE, -1, -1)
        ELSE IF at # 0 /\ log[at].Term # args.PrevLogTerm
          THEN Answer(SubSeq(log, 1, at - 1), FALSE, log[at].Term, log[First(run)].Index)
          ELSE Answer(MergeEntries(log, at, args.Entries), TRUE, -1, -1)

\* followerUpdateCommitIndex
FollowerCommitIndex(log, snapshotIndex, commitIndex, leaderCommit) ==
    IF commitIndex >= leaderCommit
      THEN commitIndex
      ELSE Smaller(leaderCommit, LastLogIndex(log, snapshotIndex))

-----------------------------------------------------------------------------
(* Leader side of AppendEntries *)

\* The entries after prevLogIndex; the caller made sure it is not below the
\* snapshot.  CanSend is the code's "should found prevLogIndex".
CanSend(log, snapshotIndex, prevLogIndex) ==
    prevLogIndex <= snapshotIndex \/ FindIndex(log, prevLogIndex) # 0

EntriesAfter(log, snapshotIndex, prevLogIndex) ==
    IF prevLogIndex = snapshotIndex
      THEN log
      ELSE SubSeq(log, FindIndex(log, prevLogIndex) + 1, Len(log))

TermAt(log, snapshotIndex, snapshotTerm, prevLogIndex) ==
    IF prevLogIndex = snapshotIndex
      THEN snapshotTerm
      ELSE log[FindIndex(log, prevLogIndex)].Term

\* leaderHandleLog after a failed match: where to probe next.
BackedUpNextIndex(log, reply) ==
    LET run == {p \in DOMAIN log : log[p].Term = reply.XTerm}
    IN  IF reply.XTerm = -1 \/ run = {}
          THEN reply.XIndex
          ELSE log[Last(run)].Index + 1

(***************************************************************************)
(* leaderUpdateCommitIndex sorts the match indices and takes subscript     *)
(* (n+1)/2 - 1: v is that element.                                         *)
(***************************************************************************)
IsMajorityIndex(matchIndex, v) ==
    LET peers == DOMAIN matchIndex
        k     == (Cardinality(peers) + 1) \div 2
    IN  /\ Cardinality({p \in peers : matchIndex[p] < v}) < k
        /\ k <= Cardinality({p \in peers : matchIndex[p] <= v})

-----------------------------------------------------------------------------
(* Handing committed entries to the service *)

\* sendCommittedLogChannel: the position of prevCommitIndex, 0 when the batch
\* starts with the first entry of the log.
BatchStart(log, snapshotIndex, prev) ==
    IF prev = -1 \/ prev = snapshotIndex THEN 0 ELSE FindIndex(log, prev)

\* Neither "should found startIndex" nor an out-of-range subscript.
CanBatch(log, snapshotIndex, prev, cur) ==
    /\ prev = -1 \/ prev = snapshotIndex \/ FindIndex(log, prev) # 0
    /\ BatchStart(log, snapshotIndex, prev) + (cur - prev) <= Len(log)

CommittedBatch(log, snapshotIndex, prev, cur) ==
    LET start == BatchStart(log, snapshotIndex, prev)
    IN  SubSeq(log, start + 1, start + (cur - prev))
=============================================================================
