----------------------------- MODULE RaftProofs -----------------------------
(***************************************************************************)
(* Proofs about the Raft peers, for any number of servers, any commands    *)
(* and any bounds: the types, what is on disk, what a snapshot covers, and *)
(* that nobody votes twice in a term without having led it.                *)
(***************************************************************************)
EXTENDS RaftProperties, SequenceTheorems, WellFoundedInduction, TLAPS

-----------------------------------------------------------------------------
(* What the log arithmetic of RaftLog returns, for every log *)

\* The first hit of a loop is one of the hits, and none comes before it.
LEMMA FirstIn ==
    ASSUME NEW hits \in SUBSET Nat, hits # {}
    PROVE  First(hits) \in hits /\ \A q \in hits : First(hits) <= q
<1>1. \E p \in hits : \A q \in hits : ~(<<q, p>> \in OpToRel(<, Nat))
  BY NatLessThanWellFounded, WFMin
<1>2. \A p, q \in hits : <<q, p>> \in OpToRel(<, Nat) <=> q < p
  BY DEF OpToRel
<1>3. \E p \in hits : \A q \in hits : p <= q
  <2>1. PICK p \in hits : \A q \in hits : ~(<<q, p>> \in OpToRel(<, Nat))
    BY <1>1
  <2>2. \A q \in hits : ~(q < p)
    BY <1>2, <2>1
  <2>3. \A q \in hits : p <= q
    BY <2>2
  <2>. QED
    BY <2>3
<1>. QED
  BY <1>3 DEF First

\* A set of positions of a log that is not empty has a last element.
LEMMA LastIn ==
    ASSUME NEW n \in Nat, NEW hits \in SUBSET (1..n), hits # {}
    PROVE  Last(hits) \in hits
<1>. DEFINE mirror == {n - p : p \in hits}
<1>1. mirror \in SUBSET Nat /\ mirror # {}
  <2>1. \A p \in hits : n - p \in Nat
    OBVIOUS
  <2>. QED
    BY <2>1
<1>2. First(mirror) \in mirror /\ \A q \in mirror : First(mirror) <= q
  BY <1>1, FirstIn
<1>3. PICK p \in hits : First(mirror) = n - p
  BY <1>2
<1>4. \A q \in hits : n - p <= n - q
  BY <1>2, <1>3
<1>5. \A q \in hits : p >= q
  BY <1>4
<1>. QED
  BY <1>5 DEF Last

\* findIndex returns "absent" or the position of an entry with that index.
LEMMA FindIndexIn ==
    ASSUME NEW log \in Seq(LogEntry), NEW target
    PROVE  /\ FindIndex(log, target) \in 0..Len(log)
           /\ FindIndex(log, target) # 0 =>
                 /\ FindIndex(log, target) \in DOMAIN log
                 /\ log[FindIndex(log, target)] \in LogEntry
                 /\ log[FindIndex(log, target)].Index = target
<1>. DEFINE hits == {p \in DOMAIN log : log[p].Index = target}
<1>1. hits \in SUBSET Nat /\ DOMAIN log = 1..Len(log) /\ Len(log) \in Nat
  OBVIOUS
<1>2. CASE hits = {}
  BY <1>1, <1>2 DEF FindIndex
<1>3. CASE hits # {}
  <2>1. First(hits) \in hits
    BY <1>1, <1>3, FirstIn
  <2>2. FindIndex(log, target) = First(hits)
    BY <1>3 DEF FindIndex
  <2>. QED
    BY <1>1, <2>1, <2>2
<1>. QED
  BY <1>2, <1>3

\* A slice of a log, as the code takes them, is a log.
LEMMA SliceIn ==
    ASSUME NEW S, NEW log \in Seq(S), NEW m \in Nat \ {0}, NEW n \in Int, n <= Len(log)
    PROVE  SubSeq(log, m, n) \in Seq(S)
<1>1. \A i \in m..n : log[i] \in S
  BY ElementOfSeq
<1>. QED
  BY <1>1, SubSeqProperties

\* getLastLogIndexAndTerm, with or without entries after the snapshot.
LEMMA LastLogIn ==
    ASSUME NEW log \in Seq(LogEntry), NEW index \in LogIndex, NEW term \in Nat
    PROVE  LastLogIndex(log, index) \in LogIndex /\ LastLogTerm(log, term) \in Nat
<1>1. log # <<>> => log[Len(log)] \in LogEntry
  BY EmptySeq, ElementOfSeq
<1>. QED
  BY <1>1 DEF LastLogIndex, LastLogTerm, LogIndex, LogEntry

-----------------------------------------------------------------------------
\* The follower's log after a matching request is made of log entries.
LEMMA MergeIn ==
    ASSUME NEW log \in Seq(LogEntry), NEW entries \in Seq(LogEntry), NEW at \in 0..Len(log)
    PROVE  MergeEntries(log, at, entries) \in Seq(LogEntry)
<1>. DEFINE differ == {i \in DOMAIN entries :
                         at + i <= Len(log) /\ log[at + i].Term # entries[i].Term}
<1>1. SubSeq(log, 1, at) \in Seq(LogEntry)
  BY SliceIn
<1>2. SubSeq(log, 1, at) \o entries \in Seq(LogEntry)
  BY <1>1, ConcatProperties
<1>3. CASE differ # {}
  <2>1. differ \in SUBSET Nat
    OBVIOUS
  <2>2. First(differ) \in differ
    BY <1>3, <2>1, FirstIn
  <2>3. \A k \in differ : k \in Nat \ {0} /\ k <= Len(entries) /\ at + k - 1 <= Len(log)
    OBVIOUS
  <2>. DEFINE k == First(differ)
              n == at + k - 1
  <2>4. /\ k \in Nat \ {0} /\ k <= Len(entries)
        /\ n \in Int /\ n <= Len(log) /\ 1 \in Nat \ {0}
    <3>. HIDE DEF differ
    <3>. QED
      BY <2>2, <2>3
  <2>. HIDE DEF k, n
  <2>5. SubSeq(log, 1, n) \in Seq(LogEntry)
    BY <2>4, SliceIn
  <2>6. SubSeq(entries, k, Len(entries)) \in Seq(LogEntry)
    BY <2>4, SliceIn
  <2>7. SubSeq(log, 1, n) \o SubSeq(entries, k, Len(entries)) \in Seq(LogEntry)
    BY <2>5, <2>6, ConcatProperties
  <2>. QED
    BY <1>2, <2>7 DEF MergeEntries, k, n
<1>4. CASE differ = {}
  BY <1>2, <1>4 DEF MergeEntries
<1>. QED
  BY <1>3, <1>4

\* The same when the match is hidden by the follower's snapshot.
LEMMA MergeBehindIn ==
    ASSUME NEW log \in Seq(LogEntry), NEW entries \in Seq(LogEntry), NEW index
    PROVE  MergeBehindSnapshot(log, index, entries) \in Seq(LogEntry)
<1>. DEFINE from == FindIndex(entries, index + 1)
<1>1. from \in 0..Len(entries)
  BY FindIndexIn
<1>2. from # 0 => SubSeq(entries, from, Len(entries)) \in Seq(LogEntry)
  BY <1>1, SliceIn
<1>. QED
  BY <1>2 DEF MergeBehindSnapshot

\* followerHandleLog leaves a log and answers with a reply of the right type.
LEMMA FollowerHandleLogIn ==
    ASSUME NEW log \in Seq(LogEntry), NEW index \in LogIndex, NEW args,
           args.PrevLogIndex \in Int, args.Entries \in Seq(LogEntry)
    PROVE  FollowerHandleLog(log, index, args) \in
               [log : Seq(LogEntry), Success : BOOLEAN, XTerm : Int, XIndex : Int]
<1>. DEFINE last == LastLogIndex(log, index)
            at   == FindIndex(log, args.PrevLogIndex)
            run  == {p \in 1..at : log[p].Term = log[at].Term}
            Reply == [log : Seq(LogEntry), Success : BOOLEAN, XTerm : Int, XIndex : Int]
<1>1. last \in Int /\ at \in 0..Len(log)
  <2>1. LastLogIndex(log, index) \in LogIndex
    <3>1. 0 \in Nat
      OBVIOUS
    <3>. QED
      BY <3>1, LastLogIn
  <2>. QED
    BY <2>1, FindIndexIn DEF LogIndex
<1>2. Answer(log, FALSE, -1, last + 1) \in Reply
  BY <1>1 DEF Answer
<1>3. Answer(MergeBehindSnapshot(log, index, args.Entries), TRUE, -1, -1) \in Reply
  BY MergeBehindIn DEF Answer
<1>4. ASSUME at # 0
      PROVE  Answer(SubSeq(log, 1, at - 1), FALSE, log[at].Term, log[First(run)].Index) \in Reply
  <2>1. at \in DOMAIN log /\ log[at] \in LogEntry
    BY <1>4, FindIndexIn
  <2>2. run \in SUBSET Nat /\ at \in run
    BY <1>1, <1>4
  <2>3. First(run) \in run
    BY <2>2, FirstIn
  <2>4. log[First(run)] \in LogEntry
    BY <1>1, <2>3, ElementOfSeq
  <2>5. SubSeq(log, 1, at - 1) \in Seq(LogEntry)
    BY <1>1, SliceIn
  <2>. QED
    BY <2>1, <2>4, <2>5 DEF Answer, LogEntry
<1>5. Answer(MergeEntries(log, at, args.Entries), TRUE, -1, -1) \in Reply
  BY <1>1, MergeIn DEF Answer
<1>. QED
  BY <1>2, <1>3, <1>4, <1>5 DEF FollowerHandleLog

\* followerUpdateCommitIndex computes an index.
LEMMA FollowerCommitIn ==
    ASSUME NEW log \in Seq(LogEntry), NEW index \in LogIndex,
           NEW commitIndex \in LogIndex, NEW leaderCommit \in LogIndex
    PROVE  FollowerCommitIndex(log, index, commitIndex, leaderCommit) \in LogIndex
<1>1. LastLogIndex(log, index) \in LogIndex
  BY LastLogIn
<1>. QED
  BY <1>1 DEF FollowerCommitIndex, Smaller

-----------------------------------------------------------------------------
\* A leader that passes CanSend sends entries of its log and a real term.
LEMMA SendIn ==
    ASSUME NEW log \in Seq(LogEntry), NEW index \in LogIndex, NEW term \in Nat,
           NEW prev \in Int, prev >= index, CanSend(log, index, prev)
    PROVE  EntriesAfter(log, index, prev) \in Seq(LogEntry) /\ TermAt(log, index, term, prev) \in Nat
<1>1. CASE prev = index
  BY <1>1 DEF EntriesAfter, TermAt
<1>2. CASE prev # index
  <2>1. FindIndex(log, prev) # 0
    BY <1>2 DEF CanSend, LogIndex
  <2>2. /\ FindIndex(log, prev) \in 0..Len(log)
        /\ log[FindIndex(log, prev)] \in LogEntry
    BY <2>1, FindIndexIn
  <2>3. SubSeq(log, FindIndex(log, prev) + 1, Len(log)) \in Seq(LogEntry)
    BY <2>2, SliceIn
  <2>. QED
    BY <1>2, <2>2, <2>3 DEF EntriesAfter, TermAt, LogEntry
<1>. QED
  BY <1>1, <1>2

\* After a failed match nextIndex is a number again.
LEMMA BackUpIn ==
    ASSUME NEW log \in Seq(LogEntry), NEW reply, reply.XIndex \in Int
    PROVE  BackedUpNextIndex(log, reply) \in Int
<1>. DEFINE run == {p \in DOMAIN log : log[p].Term = reply.XTerm}
<1>1. CASE run # {}
  <2>1. run \in SUBSET (1..Len(log)) /\ Len(log) \in Nat
    OBVIOUS
  <2>2. Last(run) \in run
    BY <1>1, <2>1, LastIn
  <2>3. log[Last(run)] \in LogEntry
    BY <2>1, <2>2, ElementOfSeq
  <2>. QED
    BY <1>1, <2>3 DEF BackedUpNextIndex, LogEntry
<1>2. CASE run = {}
  BY <1>2 DEF BackedUpNextIndex
<1>. QED
  BY <1>1, <1>2

\* What is handed to the service are entries of the log.
LEMMA BatchIn ==
    ASSUME NEW log \in Seq(LogEntry), NEW index, NEW prev \in Int, NEW cur \in Int,
           CanBatch(log, index, prev, cur)
    PROVE  CommittedBatch(log, index, prev, cur) \in Seq(LogEntry)
<1>. DEFINE start == BatchStart(log, index, prev)
<1>1. start \in Nat
  BY FindIndexIn DEF BatchStart
<1>2. start + (cur - prev) <= Len(log)
  BY DEF CanBatch
<1>3. SubSeq(log, start + 1, start + (cur - prev)) \in Seq(LogEntry)
  BY <1>1, <1>2, SliceIn
<1>. QED
  BY <1>3 DEF CommittedBatch

-----------------------------------------------------------------------------
(* What handlers and states are made of *)

\* What handlers leave behind.
OutcomeState == [g : RaftState, service : Seq(Command), fault : Fault]

\* The snapshot of g holds the commands up to its index.
Covered(g) == Len(g.snapshot) = g.snapshotIndex + 1

\* From g to h the vote is kept, or the term is a new one without a vote.
VoteKept(g, h) ==
    \/ h.currentTerm = g.currentTerm /\ h.votedFor = g.votedFor
    \/ h.currentTerm > g.currentTerm /\ h.votedFor = NoServer

\* From g to h nothing that belongs to the log changes.
LogKept(g, h) ==
    /\ h.log = g.log /\ h.snapshot = g.snapshot
    /\ h.snapshotIndex = g.snapshotIndex /\ h.snapshotTerm = g.snapshotTerm

-----------------------------------------------------------------------------
\* persist() saves a well-typed state, and Make() turns one into a peer.
LEMMA PersistentIn ==
    ASSUME NEW g \in RaftState
    PROVE  Persistent(g) \in DiskState /\ LogKept(g, Persistent(g))
                /\ Persistent(g).currentTerm = g.currentTerm
                /\ Persistent(g).votedFor = g.votedFor
BY DEF Persistent, DiskState, RaftState, LogKept

\* Make() turns what persist() saved into a peer with the same log.
LEMMA BootedIn ==
    ASSUME NEW d \in DiskState
    PROVE  Booted(d) \in RaftState /\ LogKept(d, Booted(d))
                /\ Booted(d).currentTerm = d.currentTerm
                /\ Booted(d).votedFor = d.votedFor
BY DEF Booted, DiskState, RaftState, LogKept, Role, LogIndex

\* A Persister nobody has written to reads as a well-typed state.
LEMMA NewDiskIn == NewDisk \in DiskState /\ Covered(NewDisk)
BY EmptySeq DEF NewDisk, DiskState, LogIndex, Covered

\* toFollower forgets the vote only together with the term.
LEMMA ToFollowerIn ==
    ASSUME NEW g \in RaftState, NEW term \in Nat
    PROVE  /\ ToFollower(g, term) \in RaftState
           /\ VoteKept(g, ToFollower(g, term))
           /\ LogKept(g, ToFollower(g, term))
<1>1. ToFollower(g, term) \in RaftState
  BY DEF ToFollower, RaftState, Role
<1>2. LogKept(g, ToFollower(g, term))
  BY DEF ToFollower, RaftState, LogKept
<1>3. VoteKept(g, ToFollower(g, term))
  BY DEF ToFollower, RaftState, VoteKept
<1>. QED
  BY <1>1, <1>2, <1>3

\* Keeping votes composes.
LEMMA VoteKeptTrans ==
    ASSUME NEW a \in RaftState, NEW b \in RaftState, NEW c \in RaftState,
           VoteKept(a, b), VoteKept(b, c)
    PROVE  VoteKept(a, c)
<1>1. a.currentTerm \in Int /\ b.currentTerm \in Int /\ c.currentTerm \in Int
  BY DEF RaftState
<1>. QED
  BY <1>1 DEF VoteKept

\* Observe is toFollower or nothing.
LEMMA ObserveIn ==
    ASSUME NEW g \in RaftState, NEW term \in Nat
    PROVE  /\ Observe(g, term) \in RaftState
           /\ VoteKept(g, Observe(g, term))
           /\ LogKept(g, Observe(g, term))
BY ToFollowerIn DEF Observe, VoteKept, LogKept

\* Handing entries to the service keeps the peer as it is.
LEMMA DeliverIn ==
    ASSUME NEW g \in RaftState, NEW svc \in Seq(Command), NEW batch \in Seq(LogEntry)
    PROVE  Deliver(g, svc, batch) \in OutcomeState /\ Deliver(g, svc, batch).g = g
<1>. DEFINE commands == [i \in DOMAIN batch |-> batch[i].Command]
<1>1. commands \in Seq(Command)
  <2>1. Len(batch) \in Nat /\ DOMAIN batch = 1..Len(batch)
    OBVIOUS
  <2>2. \A i \in 1..Len(batch) : batch[i].Command \in Command
    <3>1. \A i \in 1..Len(batch) : batch[i] \in LogEntry
      BY ElementOfSeq
    <3>. QED
      BY <3>1 DEF LogEntry
  <2>3. commands \in [1..Len(batch) -> Command]
    BY <2>1, <2>2
  <2>. QED
    BY <2>1, <2>3, SeqDef
<1>2. svc \o commands \in Seq(Command)
  BY <1>1, ConcatProperties
<1>. QED
  BY <1>2 DEF Deliver, Outcome, OutcomeState, Fault

\* Moving commitIndex touches neither the vote nor the log.
LEMMA CommitToIn ==
    ASSUME NEW g \in RaftState, NEW svc \in Seq(Command), NEW cur \in LogIndex
    PROVE  /\ CommitTo(g, svc, cur) \in OutcomeState
           /\ VoteKept(g, CommitTo(g, svc, cur).g)
           /\ LogKept(g, CommitTo(g, svc, cur).g)
<1>. DEFINE h == [g EXCEPT !.commitIndex = cur]
            batch == CommittedBatch(g.log, g.snapshotIndex, g.commitIndex, cur)
<1>1. h \in RaftState /\ VoteKept(g, h) /\ LogKept(g, h)
  BY DEF RaftState, VoteKept, LogKept
<1>2. CASE CanBatch(g.log, g.snapshotIndex, g.commitIndex, cur)
  <2>1. g.log \in Seq(LogEntry) /\ g.commitIndex \in Int /\ cur \in Int
    BY DEF RaftState, LogIndex
  <2>2. batch \in Seq(LogEntry)
    BY <1>2, <2>1, BatchIn
  <2>3. Deliver(h, svc, batch) \in OutcomeState /\ Deliver(h, svc, batch).g = h
    BY <1>1, <2>2, DeliverIn
  <2>. QED
    BY <1>1, <1>2, <2>3 DEF CommitTo
<1>3. CASE ~CanBatch(g.log, g.snapshotIndex, g.commitIndex, cur)
  BY <1>1, <1>3 DEF CommitTo, Outcome, OutcomeState, Fault
<1>. QED
  BY <1>2, <1>3

\* leaderUpdateCommitIndex, at its early returns, its panic and its end.
LEMMA AfterCommitCheckIn ==
    ASSUME NEW g \in RaftState, NEW svc \in Seq(Command), NEW n \in Int
    PROVE  /\ AfterCommitCheck(g, svc, n) \in OutcomeState
           /\ VoteKept(g, AfterCommitCheck(g, svc, n).g)
           /\ LogKept(g, AfterCommitCheck(g, svc, n).g)
<1>1. \A why \in Fault : Outcome(g, svc, why) \in OutcomeState /\ Outcome(g, svc, why).g = g
  BY DEF Outcome, OutcomeState
<1>2. VoteKept(g, g) /\ LogKept(g, g) /\ "none" \in Fault /\ "panic" \in Fault
  BY DEF VoteKept, LogKept, Fault
<1>3. MayCommit(g, n) => n \in LogIndex
  BY DEF MayCommit, RaftState, LogIndex
<1>. QED
  BY <1>1, <1>2, <1>3, CommitToIn DEF AfterCommitCheck

-----------------------------------------------------------------------------
\* toCandidate, toLeader and Start change a peer into a peer.
LEMMA CandidateIn ==
    ASSUME NEW g \in RaftState, NEW s \in Server
    PROVE  /\ Candidate(g, s) \in RaftState /\ LogKept(g, Candidate(g, s))
           /\ Candidate(g, s).currentTerm = g.currentTerm + 1
           /\ Candidate(g, s).votedFor = s
<1>. DEFINE term == g.currentTerm + 1
<1>1. term \in Nat /\ s \in Server \cup {NoServer} /\ "candidate" \in Role
  BY DEF RaftState, Role
<1>. HIDE DEF term
<1>. DEFINE h1 == [g EXCEPT !.role = "candidate", !.votedFor = s]
            h2 == [h1 EXCEPT !.currentTerm = term, !.voteCnt = 1]
<1>2. h1 \in RaftState /\ LogKept(g, h1) /\ h1.votedFor = s
  BY <1>1 DEF RaftState, LogKept
<1>3. Candidate(g, s) = h2
  BY DEF Candidate, term, RaftState
<1>. HIDE DEF h1
<1>4. h2 \in RaftState /\ LogKept(g, h2) /\ h2.votedFor = s /\ h2.currentTerm = term
  BY <1>1, <1>2 DEF RaftState, LogKept
<1>. QED
  BY <1>3, <1>4 DEF term

\* getLastLogIndexAndTerm of a peer is an index and a term.
LEMMA LastOfLogIn ==
    ASSUME NEW g \in RaftState
    PROVE  LastIndex(g) \in LogIndex /\ LastTerm(g) \in Nat
<1>1. g.log \in Seq(LogEntry) /\ g.snapshotIndex \in LogIndex /\ g.snapshotTerm \in Nat
  BY DEF RaftState
<1>. QED
  BY <1>1, LastLogIn DEF LastIndex, LastTerm

\* toLeader keeps the log and gives every peer a slot in both slices.
LEMMA LeaderIn ==
    ASSUME NEW g \in RaftState, NEW s \in Server
    PROVE  /\ Leader(g, s) \in RaftState /\ LogKept(g, Leader(g, s))
           /\ Leader(g, s).currentTerm = g.currentTerm
           /\ Leader(g, s).votedFor = NoServer
<1>1. LastIndex(g) \in Int
  BY LastOfLogIn DEF LogIndex
<1>2. /\ [p \in Server |-> LastIndex(g) + 1] \in [Server -> Int]
      /\ [p \in Server |-> IF p = s THEN LastIndex(g) ELSE -1] \in [Server -> Int]
  BY <1>1
<1>3. Leader(g, s) \in RaftState
  BY <1>2 DEF Leader, RaftState, Role
<1>. QED
  BY <1>3 DEF Leader, RaftState, LogKept

\* Start appends an entry of the right type and keeps term and vote.
LEMMA WithCommandIn ==
    ASSUME NEW g \in RaftState, NEW s \in Server, NEW command \in Command
    PROVE  /\ WithCommand(g, s, command) \in RaftState
           /\ VoteKept(g, WithCommand(g, s, command))
           /\ Covered(g) => Covered(WithCommand(g, s, command))
<1>. DEFINE index == LastIndex(g) + 1
            entry == [Term |-> g.currentTerm, Index |-> index, Command |-> command]
<1>1. index \in Nat
  BY LastOfLogIn DEF LogIndex
<1>2. entry \in LogEntry
  BY <1>1 DEF LogEntry, RaftState
<1>3. g.log \in Seq(LogEntry)
  BY DEF RaftState
<1>4. Append(g.log, entry) \in Seq(LogEntry)
  BY <1>2, <1>3, AppendProperties
<1>. HIDE DEF entry, index
<1>. DEFINE match == [g.matchIndex EXCEPT ![s] = index]
            next  == [g.nextIndex EXCEPT ![s] = index + 1]
<1>5. match \in [Server -> Int] /\ next \in [Server -> Int]
  BY <1>1 DEF RaftState
<1>6. WithCommand(g, s, command) =
        [g EXCEPT !.log = Append(g.log, entry), !.matchIndex = match, !.nextIndex = next]
  BY DEF WithCommand, entry, index
<1>. HIDE DEF match, next
<1>7. WithCommand(g, s, command) \in RaftState
  BY <1>4, <1>5, <1>6 DEF RaftState
<1>. QED
  BY <1>6, <1>7 DEF RaftState, VoteKept, Covered

\* A vote reply changes the count, or demotes the candidate.
LEMMA AfterVoteReplyIn ==
    ASSUME NEW g \in RaftState, NEW c, NEW reply, reply.Term \in Nat
    PROVE  /\ AfterVoteReply(g, c, reply) \in RaftState
           /\ VoteKept(g, AfterVoteReply(g, c, reply))
           /\ LogKept(g, AfterVoteReply(g, c, reply))
<1>. DEFINE n == g.voteCnt + 1
            h == [g EXCEPT !.voteCnt = n]
<1>1. n \in Nat
  BY DEF RaftState
<1>. HIDE DEF n
<1>2. h \in RaftState /\ VoteKept(g, h) /\ LogKept(g, h)
  BY <1>1 DEF RaftState, VoteKept, LogKept
<1>3. VoteKept(g, g) /\ LogKept(g, g)
  BY DEF VoteKept, LogKept
<1>4. AfterVoteReply(g, c, reply) \in {g, ToFollower(g, reply.Term), h}
  BY DEF AfterVoteReply, n
<1>. HIDE DEF h
<1>. QED
  BY <1>2, <1>3, <1>4, ToFollowerIn

\* A follower that accepts a request ends with a log and its vote.
LEMMA FollowerAfterIn ==
    ASSUME NEW g \in RaftState, NEW svc \in Seq(Command), NEW answer, NEW leaderCommit \in LogIndex,
           answer.log \in Seq(LogEntry)
    PROVE  /\ FollowerAfter(g, svc, answer, leaderCommit) \in OutcomeState
           /\ VoteKept(g, FollowerAfter(g, svc, answer, leaderCommit).g)
           /\ Covered(g) => Covered(FollowerAfter(g, svc, answer, leaderCommit).g)
<1>. DEFINE h == [g EXCEPT !.log = answer.log]
            cur == FollowerCommitIndex(h.log, h.snapshotIndex, h.commitIndex, leaderCommit)
<1>1. /\ h \in RaftState
      /\ h.currentTerm = g.currentTerm /\ h.votedFor = g.votedFor
      /\ h.snapshot = g.snapshot /\ h.snapshotIndex = g.snapshotIndex
  BY DEF RaftState
<1>. HIDE DEF h
<1>2. cur \in LogIndex
  <2>1. h.log \in Seq(LogEntry) /\ h.snapshotIndex \in LogIndex /\ h.commitIndex \in LogIndex
    BY <1>1 DEF RaftState
  <2>. QED
    BY <2>1, FollowerCommitIn
<1>. HIDE DEF cur
<1>3. /\ CommitTo(h, svc, cur) \in OutcomeState
      /\ VoteKept(h, CommitTo(h, svc, cur).g) /\ LogKept(h, CommitTo(h, svc, cur).g)
  BY <1>1, <1>2, CommitToIn
<1>4. Outcome(h, svc, "none") \in OutcomeState /\ Outcome(h, svc, "none").g = h
  BY <1>1 DEF Outcome, OutcomeState, Fault
<1>5. FollowerAfter(g, svc, answer, leaderCommit) \in {CommitTo(h, svc, cur), Outcome(h, svc, "none")}
  BY DEF FollowerAfter, h, cur
<1>. QED
  BY <1>1, <1>3, <1>4, <1>5 DEF VoteKept, LogKept, Covered

\* An AppendEntries reply moves nextIndex and matchIndex, or demotes.
LEMMA AfterAppendReplyIn ==
    ASSUME NEW g \in RaftState, NEW c \in AppendEntriesCall, NEW reply,
           reply.Term \in Nat, reply.XIndex \in Int
    PROVE  /\ AfterAppendReply(g, c, reply) \in RaftState
           /\ VoteKept(g, AfterAppendReply(g, c, reply))
           /\ LogKept(g, AfterAppendReply(g, c, reply))
<1>. DEFINE next == IF reply.Success THEN c.PrevLogIndex + Len(c.Entries) + 1
                                     ELSE BackedUpNextIndex(g.log, reply)
<1>1. next \in Int
  <2>1. g.log \in Seq(LogEntry)
    BY DEF RaftState
  <2>2. BackedUpNextIndex(g.log, reply) \in Int
    BY <2>1, BackUpIn
  <2>3. c.PrevLogIndex \in Int /\ Len(c.Entries) \in Int
    BY DEF AppendEntriesCall
  <2>. QED
    BY <2>2, <2>3
<1>2. c.to \in Server
  BY DEF AppendEntriesCall
<1>. HIDE DEF next
<1>. DEFINE nexts   == [g.nextIndex EXCEPT ![c.to] = next]
            matches == [g.matchIndex EXCEPT ![c.to] = IF reply.Success THEN next - 1 ELSE @]
            h       == [g EXCEPT !.nextIndex = nexts, !.matchIndex = matches]
<1>3. nexts \in [Server -> Int] /\ matches \in [Server -> Int]
  BY <1>1, <1>2 DEF RaftState
<1>4. LeaderHandleLog(g, c, reply) \in {g, h}
  BY DEF LeaderHandleLog, next
<1>. HIDE DEF nexts, matches
<1>5. h \in RaftState /\ VoteKept(g, h) /\ LogKept(g, h)
  BY <1>3 DEF RaftState, VoteKept, LogKept
<1>. HIDE DEF h
<1>6. VoteKept(g, g) /\ LogKept(g, g)
  BY DEF VoteKept, LogKept
<1>7. AfterAppendReply(g, c, reply) \in {g, h, ToFollower(g, reply.Term)}
  BY <1>4 DEF AfterAppendReply
<1>. QED
  BY <1>5, <1>6, <1>7, ToFollowerIn

-----------------------------------------------------------------------------
\* Cutting the log at an entry that is there.
LEMMA CompactedIn ==
    ASSUME NEW g \in RaftState, NEW at \in DOMAIN g.log, NEW snapshot \in Seq(Command)
    PROVE  /\ Compacted(g, at, snapshot) \in RaftState
           /\ VoteKept(g, Compacted(g, at, snapshot))
           /\ Compacted(g, at, snapshot).snapshot = snapshot
           /\ Compacted(g, at, snapshot).snapshotIndex = g.log[at].Index
<1>. DEFINE rest == SubSeq(g.log, at + 1, Len(g.log))
            index == g.log[at].Index
            term == g.log[at].Term
<1>1. g.log \in Seq(LogEntry) /\ at \in 1..Len(g.log)
  BY DEF RaftState
<1>2. rest \in Seq(LogEntry)
  BY <1>1, SliceIn
<1>3. g.log[at] \in LogEntry
  BY <1>1, ElementOfSeq
<1>4. index \in LogIndex /\ term \in Nat
  BY <1>3 DEF LogEntry, LogIndex
<1>5. Compacted(g, at, snapshot) =
        [g EXCEPT !.snapshot = snapshot, !.snapshotIndex = index, !.snapshotTerm = term, !.log = rest]
  BY DEF Compacted
<1>. HIDE DEF rest, index, term
<1>6. Compacted(g, at, snapshot) \in RaftState
  BY <1>2, <1>4, <1>5 DEF RaftState
<1>7. /\ Compacted(g, at, snapshot).snapshot = snapshot
      /\ Compacted(g, at, snapshot).snapshotIndex = index
      /\ VoteKept(g, Compacted(g, at, snapshot))
  BY <1>5 DEF RaftState, VoteKept
<1>. QED
  BY <1>6, <1>7 DEF index

\* A snapshot that is installed covers what the leader says it covers.
LEMMA AfterInstallIn ==
    ASSUME NEW g \in RaftState, NEW svc \in Seq(Command), NEW args,
           args.Snapshot \in Seq(Command), args.LastIncludedIndex \in LogIndex,
           args.LastIncludedTerm \in Nat,
           Len(args.Snapshot) = args.LastIncludedIndex + 1, Covered(g)
    PROVE  /\ AfterInstall(g, svc, args) \in OutcomeState
           /\ VoteKept(g, AfterInstall(g, svc, args).g)
           /\ Covered(AfterInstall(g, svc, args).g)
<1>. DEFINE at == FindIndex(g.log, args.LastIncludedIndex)
            whole == [g EXCEPT !.snapshot = args.Snapshot, !.log = <<>>,
                               !.snapshotIndex = args.LastIncludedIndex,
                               !.snapshotTerm  = args.LastIncludedTerm,
                               !.commitIndex   = args.LastIncludedIndex]
            cut   == Compacted(g, at, args.Snapshot)
            part  == [cut EXCEPT !.commitIndex = IF @ < args.LastIncludedIndex
                                                   THEN args.LastIncludedIndex ELSE @]
<1>1. g.log \in Seq(LogEntry)
  BY DEF RaftState
<1>2. <<>> \in Seq(LogEntry)
  OBVIOUS
<1>3. whole \in RaftState
  BY <1>2 DEF RaftState
<1>4. VoteKept(g, whole) /\ Covered(whole)
  BY DEF RaftState, VoteKept, Covered
<1>5. ASSUME at # 0 PROVE part \in RaftState /\ VoteKept(g, part) /\ Covered(part)
  <2>1. at \in DOMAIN g.log /\ g.log[at].Index = args.LastIncludedIndex
    BY <1>1, <1>5, FindIndexIn
  <2>. HIDE DEF at
  <2>2. /\ cut \in RaftState /\ VoteKept(g, cut)
        /\ cut.snapshot = args.Snapshot /\ cut.snapshotIndex = args.LastIncludedIndex
    BY <2>1, CompactedIn
  <2>. HIDE DEF cut
  <2>3. part \in RaftState
    BY <2>2 DEF RaftState
  <2>. QED
    BY <2>2, <2>3 DEF RaftState, VoteKept, Covered
<1>6. VoteKept(g, g)
  BY DEF VoteKept
<1>7. AfterInstall(g, svc, args) \in
        {Outcome(whole, args.Snapshot, why) : why \in Fault} \cup {Outcome(g, svc, "panic")}
          \cup {x \in {Outcome(part, args.Snapshot, "none")} : at # 0}
  BY DEF AfterInstall, Fault
<1>. HIDE DEF at, whole, part
<1>8. \A h \in RaftState, v \in Seq(Command), why \in Fault :
         Outcome(h, v, why) \in OutcomeState /\ Outcome(h, v, why).g = h
  BY DEF Outcome, OutcomeState
<1>9. "panic" \in Fault /\ "none" \in Fault
  BY DEF Fault
<1>. QED
  BY <1>3, <1>4, <1>5, <1>6, <1>7, <1>8, <1>9

\* InstallSnapshot at its panics, its early returns and its end.
LEMMA InstallOutcomeIn ==
    ASSUME NEW g \in RaftState, NEW svc \in Seq(Command), NEW args \in InstallSnapshotCall,
           Len(args.Snapshot) = args.LastIncludedIndex + 1, Covered(g)
    PROVE  /\ InstallOutcome(g, svc, args) \in OutcomeState
           /\ VoteKept(g, InstallOutcome(g, svc, args).g)
           /\ Covered(InstallOutcome(g, svc, args).g)
<1>. DEFINE h == Observe(g, args.Term)
<1>1. /\ args.Snapshot \in Seq(Command) /\ args.LastIncludedIndex \in LogIndex
      /\ args.LastIncludedTerm \in Nat /\ args.Term \in Nat
  BY DEF InstallSnapshotCall
<1>2. h \in RaftState /\ VoteKept(g, h) /\ LogKept(g, h)
  BY <1>1, ObserveIn
<1>3. Covered(h)
  BY <1>2 DEF LogKept, Covered
<1>. HIDE DEF h
<1>4. /\ AfterInstall(h, svc, args) \in OutcomeState
      /\ VoteKept(h, AfterInstall(h, svc, args).g) /\ Covered(AfterInstall(h, svc, args).g)
  BY <1>1, <1>2, <1>3, AfterInstallIn
<1>5. AfterInstall(h, svc, args).g \in RaftState
  BY <1>4 DEF OutcomeState
<1>6. VoteKept(g, AfterInstall(h, svc, args).g)
  BY <1>2, <1>4, <1>5, VoteKeptTrans
<1>7. \A why \in Fault : Outcome(g, svc, why) \in OutcomeState /\ Outcome(g, svc, why).g = g
  BY DEF Outcome, OutcomeState
<1>8. InstallOutcome(g, svc, args) \in
        {Outcome(g, svc, "panic"), Outcome(g, svc, "none"), AfterInstall(h, svc, args)}
  BY DEF InstallOutcome, h
<1>9. "panic" \in Fault /\ "none" \in Fault /\ VoteKept(g, g)
  BY DEF Fault, VoteKept
<1>. QED
  BY <1>4, <1>6, <1>7, <1>8, <1>9

\* An InstallSnapshot reply moves nextIndex and matchIndex, or demotes.
LEMMA AfterInstallReplyIn ==
    ASSUME NEW g \in RaftState, NEW c \in InstallSnapshotCall, NEW reply, reply.Term \in Nat
    PROVE  /\ AfterInstallReply(g, c, reply) \in RaftState
           /\ VoteKept(g, AfterInstallReply(g, c, reply))
           /\ LogKept(g, AfterInstallReply(g, c, reply))
<1>. DEFINE nexts   == [g.nextIndex EXCEPT ![c.to] = c.LastIncludedIndex + 1]
            matches == [g.matchIndex EXCEPT ![c.to] = c.LastIncludedIndex]
            h       == [g EXCEPT !.nextIndex = nexts, !.matchIndex = matches]
<1>1. c.to \in Server /\ c.LastIncludedIndex \in Int
  BY DEF InstallSnapshotCall, LogIndex
<1>2. nexts \in [Server -> Int] /\ matches \in [Server -> Int]
  BY <1>1 DEF RaftState
<1>3. AfterInstallReply(g, c, reply) \in {g, h, ToFollower(g, reply.Term)}
  BY DEF AfterInstallReply
<1>. HIDE DEF nexts, matches
<1>4. h \in RaftState /\ VoteKept(g, h) /\ LogKept(g, h)
  BY <1>2 DEF RaftState, VoteKept, LogKept
<1>. HIDE DEF h
<1>5. VoteKept(g, g) /\ LogKept(g, g)
  BY DEF VoteKept, LogKept
<1>. QED
  BY <1>3, <1>4, <1>5, ToFollowerIn

\* A snapshot that is taken covers the index the service asked for.
LEMMA AfterSnapshotIn ==
    ASSUME NEW g \in RaftState, NEW svc \in Seq(Command), NEW index \in Nat,
           index + 1 <= Len(svc), Covered(g)
    PROVE  /\ AfterSnapshot(g, svc, index) \in OutcomeState
           /\ VoteKept(g, AfterSnapshot(g, svc, index).g)
           /\ Covered(AfterSnapshot(g, svc, index).g)
<1>. DEFINE at   == FindIndex(g.log, index)
            taken == SubSeq(svc, 1, index + 1)
            h    == Compacted(g, at, taken)
            rest == IF h.commitIndex > h.snapshotIndex
                      THEN SubSeq(h.log, 1, FindIndex(h.log, h.commitIndex)) ELSE <<>>
<1>1. CASE at = 0
  BY <1>1 DEF AfterSnapshot, Outcome, OutcomeState, Fault, VoteKept
<1>2. CASE at # 0
  <2>1. g.log \in Seq(LogEntry)
    BY DEF RaftState
  <2>2. at \in DOMAIN g.log /\ g.log[at].Index = index
    BY <1>2, <2>1, FindIndexIn
  <2>3. taken \in Seq(Command) /\ Len(taken) = index + 1
    <3>1. \A i \in 1..(index + 1) : svc[i] \in Command
      BY ElementOfSeq
    <3>. QED
      BY <3>1, SubSeqProperties
  <2>. HIDE DEF at, taken
  <2>4. h \in RaftState /\ VoteKept(g, h) /\ h.snapshot = taken /\ h.snapshotIndex = index
    BY <2>2, <2>3, CompactedIn
  <2>5. Covered(h)
    BY <2>3, <2>4 DEF Covered
  <2>. HIDE DEF h
  <2>6. rest \in Seq(LogEntry)
    <3>1. h.log \in Seq(LogEntry)
      BY <2>4 DEF RaftState
    <3>2. FindIndex(h.log, h.commitIndex) \in 0..Len(h.log)
      BY <3>1, FindIndexIn
    <3>3. SubSeq(h.log, 1, FindIndex(h.log, h.commitIndex)) \in Seq(LogEntry)
      BY <3>1, <3>2, SliceIn
    <3>. QED
      BY <3>3
  <2>. HIDE DEF rest
  <2>7. Deliver(h, taken, rest) \in OutcomeState /\ Deliver(h, taken, rest).g = h
    BY <2>3, <2>4, <2>6, DeliverIn
  <2>8. AfterSnapshot(g, svc, index) = Deliver(h, taken, rest)
    BY <1>2, <2>4 DEF AfterSnapshot, at, taken, h, rest
  <2>. QED
    BY <2>4, <2>5, <2>7, <2>8
<1>. QED
  BY <1>1, <1>2

-----------------------------------------------------------------------------
(***************************************************************************)
(* The inductive invariant, by the parts of the state that an action can   *)
(* disturb separately.                                                     *)
(***************************************************************************)
NodeInv ==
    /\ rf      \in [Server -> RaftState]
    /\ disk    \in [Server -> DiskState]
    /\ service \in [Server -> Seq(Command)]
    /\ fault   \in [Server -> Fault]
    /\ DurableState
    /\ \A s \in Server : Covered(rf[s])

VoteInv ==
    /\ granted \subseteq Server \X Nat \X Server
    /\ VoteRemembered
    /\ VoteOnceUnlessLed

CallInv ==
    /\ rvCalls \subseteq RequestVoteCall
    /\ aeCalls \subseteq AppendEntriesCall
    /\ isCalls \subseteq InstallSnapshotCall
    /\ \A c \in isCalls : Len(c.Snapshot) = c.LastIncludedIndex + 1

RestInv ==
    /\ goroutines \in [Server -> [Point -> Nat]]
    /\ used \in [elections : Nat, commands : SUBSET Command, restarts : Nat, snapshots : Nat]
    /\ won   \subseteq Server \X Nat
    /\ led   \subseteq Server \X Nat
    /\ strayed \subseteq Server \X Nat
    /\ overlaid \subseteq Server

RaftInv == NodeInv /\ VoteInv /\ CallInv /\ RestInv

\* A handler that ends with persist() leaves memory and disk equal.
LEMMA FinishKeeps ==
    ASSUME NodeInv, NEW s \in Server, NEW out \in OutcomeState, Covered(out.g), Finish(s, out)
    PROVE  /\ NodeInv'
           /\ out.g \in RaftState
           /\ disk' = [disk EXCEPT ![s] = Persistent(out.g)]
           /\ rf'[s] = out.g
<1>1. /\ rf \in [Server -> RaftState] /\ disk \in [Server -> DiskState]
      /\ service \in [Server -> Seq(Command)] /\ fault \in [Server -> Fault]
      /\ DurableState /\ \A t \in Server : Covered(rf[t])
  BY DEF NodeInv
<1>2. out.g \in RaftState /\ out.service \in Seq(Command) /\ out.fault \in Fault
  BY DEF OutcomeState
<1>. DEFINE g == out.g
            d == Persistent(out.g)
<1>3. /\ d \in DiskState /\ LogKept(g, d)
      /\ d.currentTerm = g.currentTerm /\ d.votedFor = g.votedFor
  BY <1>2, PersistentIn
<1>4. /\ rf' = [rf EXCEPT ![s] = g] /\ disk' = [disk EXCEPT ![s] = d]
      /\ service' = [service EXCEPT ![s] = out.service]
      /\ fault' = [fault EXCEPT ![s] = out.fault]
  BY DEF Finish
<1>5. g \in RaftState /\ Covered(g)
  BY <1>2
<1>. HIDE DEF g, d
<1>6. /\ rf' \in [Server -> RaftState] /\ disk' \in [Server -> DiskState]
      /\ service' \in [Server -> Seq(Command)] /\ fault' \in [Server -> Fault]
      /\ rf'[s] = g /\ disk'[s] = d
      /\ \A t \in Server \ {s} : rf'[t] = rf[t] /\ disk'[t] = disk[t]
  BY <1>1, <1>2, <1>3, <1>4, <1>5
<1>7. DurableState'
  <2>1. Durable(d, g)
    BY <1>3 DEF Durable, LogKept
  <2>2. \A t \in Server : Durable(disk'[t], rf'[t])
    BY <1>1, <1>6, <2>1 DEF DurableState
  <2>. QED
    BY <2>2 DEF DurableState, Durable
<1>8. \A t \in Server : Covered(rf'[t])
  BY <1>1, <1>5, <1>6
<1>9. (\A t \in Server : Covered(rf[t]))'
  BY <1>8 DEF Covered
<1>. QED
  BY <1>2, <1>4, <1>6, <1>7, <1>9 DEF NodeInv, g, d

\* The same for the handlers that leave the service alone.
LEMMA SaveKeeps ==
    ASSUME NodeInv, NEW s \in Server, NEW g \in RaftState, Covered(g), Save(s, g)
    PROVE  /\ NodeInv'
           /\ disk' = [disk EXCEPT ![s] = Persistent(g)]
           /\ rf'[s] = g
<1>. DEFINE out == Outcome(g, service[s], fault[s])
<1>1. /\ service[s] \in Seq(Command) /\ fault[s] \in Fault
      /\ service = [service EXCEPT ![s] = service[s]] /\ fault = [fault EXCEPT ![s] = fault[s]]
  BY DEF NodeInv
<1>2. out \in OutcomeState /\ out.g = g /\ out.service = service[s] /\ out.fault = fault[s]
  BY <1>1 DEF Outcome, OutcomeState
<1>. HIDE DEF out
<1>3. Finish(s, out)
  BY <1>1, <1>2 DEF Save, Finish
<1>. QED
  BY <1>2, <1>3, FinishKeeps

\* Saving a peer that kept its vote, or lost it with its term, loses no vote.
LEMMA VotesKept ==
    ASSUME NodeInv, VoteInv, NEW s \in Server, NEW g \in RaftState, VoteKept(rf[s], g),
           disk' = [disk EXCEPT ![s] = Persistent(g)],
           granted' = granted, led' = led
    PROVE  VoteInv'
<1>1. /\ granted \subseteq Server \X Nat \X Server
      /\ VoteRemembered /\ VoteOnceUnlessLed
  BY DEF VoteInv
<1>2. /\ rf[s] \in RaftState /\ disk \in [Server -> DiskState] /\ DurableState
  BY DEF NodeInv
<1>3. Persistent(g).currentTerm = g.currentTerm /\ Persistent(g).votedFor = g.votedFor
  BY PersistentIn
<1>4. ASSUME NEW v \in granted
      PROVE  /\ v[2] <= disk'[v[1]].currentTerm
             /\ v[2] = disk'[v[1]].currentTerm =>
                   disk'[v[1]].votedFor = v[3] \/ <<v[1], v[2]>> \in led
  <2>1. v[1] \in Server /\ v[2] \in Nat
    BY <1>1
  <2>2. /\ v[2] <= disk[v[1]].currentTerm
        /\ v[2] = disk[v[1]].currentTerm =>
              disk[v[1]].votedFor = v[3] \/ <<v[1], v[2]>> \in led
    BY <1>1 DEF VoteRemembered
  <2>3. CASE v[1] # s
    BY <1>2, <2>1, <2>2, <2>3
  <2>4. CASE v[1] = s
    <3>1. disk'[s].currentTerm = g.currentTerm /\ disk'[s].votedFor = g.votedFor
      BY <1>2, <1>3
    <3>2. /\ disk[s].currentTerm \in Nat /\ rf[s].currentTerm \in Nat /\ g.currentTerm \in Nat
      BY <1>2 DEF DiskState, RaftState
    <3>3. \/ disk[s].currentTerm = rf[s].currentTerm /\ disk[s].votedFor = rf[s].votedFor
          \/ disk[s].currentTerm < rf[s].currentTerm /\ rf[s].votedFor = NoServer
      BY <1>2 DEF DurableState, Durable
    <3>4. \/ g.currentTerm = disk[s].currentTerm /\ g.votedFor = disk[s].votedFor
          \/ g.currentTerm > disk[s].currentTerm
      BY <3>2, <3>3 DEF VoteKept
    <3>. QED
      BY <2>1, <2>2, <2>4, <3>1, <3>2, <3>4
  <2>. QED
    BY <2>3, <2>4
<1>5. VoteRemembered'
  BY <1>4 DEF VoteRemembered
<1>6. VoteOnceUnlessLed'
  BY <1>1 DEF VoteOnceUnlessLed
<1>. QED
  BY <1>1, <1>5, <1>6 DEF VoteInv

\* Where nothing is saved no vote is lost.
LEMMA VotesSame ==
    ASSUME VoteInv, disk' = disk, granted' = granted, led' = led
    PROVE  VoteInv'
BY DEF VoteInv, VoteRemembered, VoteOnceUnlessLed

(***************************************************************************)
(* A vote of s for cand in term that is on disk: in an earlier term than   *)
(* it, or in the same term but led by s, come all other votes of s.        *)
(***************************************************************************)
LEMMA NewVote ==
    ASSUME VoteInv, NEW s \in Server, NEW cand \in Server, NEW term \in Nat,
           disk[s].currentTerm \in Nat,
           \/ disk[s].currentTerm < term
           \/ disk[s].currentTerm = term /\ disk[s].votedFor = NoServer,
           disk'[s].currentTerm = term, disk'[s].votedFor = cand,
           \A p \in Server \ {s} : disk'[p] = disk[p],
           granted' = granted \cup {<<s, term, cand>>}, led' = led
    PROVE  VoteInv'
<1>1. /\ granted \subseteq Server \X Nat \X Server
      /\ VoteRemembered /\ VoteOnceUnlessLed
  BY DEF VoteInv
<1>2. ASSUME NEW v \in granted, v[1] = s
      PROVE  v[2] < term \/ (v[2] = term /\ <<s, term>> \in led)
  <2>1. v[2] \in Nat /\ v[3] \in Server /\ v[3] # NoServer
    BY <1>1, ServerAssumption
  <2>2. /\ v[2] <= disk[s].currentTerm
        /\ v[2] = disk[s].currentTerm => disk[s].votedFor = v[3] \/ <<s, v[2]>> \in led
    BY <1>1, <1>2 DEF VoteRemembered
  <2>. QED
    BY <2>1, <2>2
<1>3. VoteRemembered'
  <2>1. ASSUME NEW v \in granted'
        PROVE  /\ v[2] <= disk'[v[1]].currentTerm
               /\ v[2] = disk'[v[1]].currentTerm =>
                     disk'[v[1]].votedFor = v[3] \/ <<v[1], v[2]>> \in led
    <3>1. CASE v = <<s, term, cand>>
      BY <3>1
    <3>2. CASE v \in granted /\ v[1] = s
      BY <1>1, <1>2, <3>2
    <3>3. CASE v \in granted /\ v[1] # s
      BY <1>1, <3>3 DEF VoteRemembered
    <3>. QED
      BY <3>1, <3>2, <3>3
  <2>. QED
    BY <2>1 DEF VoteRemembered
<1>4. VoteOnceUnlessLed'
  <2>1. ASSUME NEW v \in granted', NEW w \in granted', v[1] = w[1], v[2] = w[2], v[3] # w[3]
        PROVE  <<v[1], v[2]>> \in led
    <3>1. CASE v \in granted /\ w \in granted
      BY <1>1, <2>1, <3>1 DEF VoteOnceUnlessLed
    <3>2. CASE v = <<s, term, cand>> /\ w \in granted
      <4>1. w[1] = s /\ w[2] = term
        BY <2>1, <3>2
      <4>. QED
        BY <1>2, <3>2, <4>1
    <3>3. CASE w = <<s, term, cand>> /\ v \in granted
      <4>1. v[1] = s /\ v[2] = term
        BY <2>1, <3>3
      <4>. QED
        BY <1>2, <3>3, <4>1
    <3>. QED
      BY <2>1, <3>1, <3>2, <3>3
  <2>. QED
    BY <2>1 DEF VoteOnceUnlessLed
<1>. QED
  BY <1>1, <1>3, <1>4 DEF VoteInv

-----------------------------------------------------------------------------
(* Calls *)

\* An answered call is the call with its reply.
LEMMA AnsweredIn ==
    ASSUME NEW cs, NEW c \in cs, NEW r
    PROVE  Answered(cs, c, r) \subseteq cs \cup {[c EXCEPT !.done = TRUE, !.reply = r]}
BY DEF Answered

\* The calls stay well typed when a RequestVote call is answered,
LEMMA AnsweredVoteIn ==
    ASSUME CallInv, NEW c \in rvCalls, NEW r \in [Term : Nat, VoteGranted : BOOLEAN]
    PROVE  Answered(rvCalls, c, r) \subseteq RequestVoteCall
<1>. DEFINE answer == [c EXCEPT !.done = TRUE, !.reply = r]
<1>1. c \in RequestVoteCall
  BY DEF CallInv
<1>2. answer \in RequestVoteCall
  BY <1>1 DEF RequestVoteCall
<1>3. Answered(rvCalls, c, r) \subseteq rvCalls \cup {answer}
  BY AnsweredIn
<1>. HIDE DEF answer
<1>. QED
  BY <1>2, <1>3 DEF CallInv

\* when an AppendEntries call is answered,
LEMMA AnsweredAppendIn ==
    ASSUME CallInv, NEW c \in aeCalls,
           NEW r \in [Term : Nat, Success : BOOLEAN, XTerm : Int, XIndex : Int]
    PROVE  Answered(aeCalls, c, r) \subseteq AppendEntriesCall
<1>. DEFINE answer == [c EXCEPT !.done = TRUE, !.reply = r]
<1>1. c \in AppendEntriesCall
  BY DEF CallInv
<1>2. answer \in AppendEntriesCall
  BY <1>1 DEF AppendEntriesCall
<1>3. Answered(aeCalls, c, r) \subseteq aeCalls \cup {answer}
  BY AnsweredIn
<1>. HIDE DEF answer
<1>. QED
  BY <1>2, <1>3 DEF CallInv

\* and when an InstallSnapshot call is answered.
LEMMA AnsweredInstallIn ==
    ASSUME CallInv, NEW c \in isCalls, NEW r \in [Term : Nat]
    PROVE  /\ Answered(isCalls, c, r) \subseteq InstallSnapshotCall
           /\ \A d \in Answered(isCalls, c, r) : Len(d.Snapshot) = d.LastIncludedIndex + 1
<1>. DEFINE answer == [c EXCEPT !.done = TRUE, !.reply = r]
<1>1. c \in InstallSnapshotCall /\ Len(c.Snapshot) = c.LastIncludedIndex + 1
  BY DEF CallInv
<1>2. /\ answer \in InstallSnapshotCall
      /\ answer.Snapshot = c.Snapshot /\ answer.LastIncludedIndex = c.LastIncludedIndex
  BY <1>1 DEF InstallSnapshotCall
<1>3. Answered(isCalls, c, r) \subseteq isCalls \cup {answer}
  BY AnsweredIn
<1>. HIDE DEF answer
<1>. QED
  BY <1>1, <1>2, <1>3 DEF CallInv

\* The calls of a server that crashes stay calls.
LEMMA OrphanedIn ==
    ASSUME CallInv, NEW s
    PROVE  /\ Orphaned(rvCalls, s) \subseteq RequestVoteCall
           /\ Orphaned(aeCalls, s) \subseteq AppendEntriesCall
           /\ Orphaned(isCalls, s) \subseteq InstallSnapshotCall
           /\ \A c \in Orphaned(isCalls, s) : Len(c.Snapshot) = c.LastIncludedIndex + 1
<1>1. \A c \in RequestVoteCall : [c EXCEPT !.live = FALSE] \in RequestVoteCall
  BY DEF RequestVoteCall
<1>2. \A c \in AppendEntriesCall : [c EXCEPT !.live = FALSE] \in AppendEntriesCall
  BY DEF AppendEntriesCall
<1>3. \A c \in InstallSnapshotCall :
         /\ [c EXCEPT !.live = FALSE] \in InstallSnapshotCall
         /\ [c EXCEPT !.live = FALSE].Snapshot = c.Snapshot
         /\ [c EXCEPT !.live = FALSE].LastIncludedIndex = c.LastIncludedIndex
  BY DEF InstallSnapshotCall
<1>4. Orphaned(rvCalls, s) \subseteq RequestVoteCall
  BY <1>1 DEF CallInv, Orphaned
<1>5. Orphaned(aeCalls, s) \subseteq AppendEntriesCall
  BY <1>2 DEF CallInv, Orphaned
<1>6. \A c \in Orphaned(isCalls, s) :
         c \in isCalls \/ \E d \in isCalls : c = [d EXCEPT !.live = FALSE]
  BY DEF Orphaned
<1>7. \A c \in Orphaned(isCalls, s) :
         c \in InstallSnapshotCall /\ Len(c.Snapshot) = c.LastIncludedIndex + 1
  <2>. TAKE c \in Orphaned(isCalls, s)
  <2>1. CASE c \in isCalls
    BY <2>1 DEF CallInv
  <2>2. ASSUME NEW d \in isCalls, c = [d EXCEPT !.live = FALSE]
        PROVE  c \in InstallSnapshotCall /\ Len(c.Snapshot) = c.LastIncludedIndex + 1
    <3>1. d \in InstallSnapshotCall /\ Len(d.Snapshot) = d.LastIncludedIndex + 1
      BY DEF CallInv
    <3>2. /\ c \in InstallSnapshotCall
          /\ c.Snapshot = d.Snapshot /\ c.LastIncludedIndex = d.LastIncludedIndex
      BY <1>3, <2>2, <3>1
    <3>. QED
      BY <3>1, <3>2
  <2>. QED
    BY <1>6, <2>1, <2>2
<1>. QED
  BY <1>4, <1>5, <1>7

\* Using up a bound is counting.
LEMMA UseIn ==
    ASSUME RestInv
    PROVE  Use("elections") \/ Use("restarts") \/ Use("snapshots") =>
             used' \in [elections : Nat, commands : SUBSET Command, restarts : Nat, snapshots : Nat]
<1>1. used \in [elections : Nat, commands : SUBSET Command, restarts : Nat, snapshots : Nat]
  BY DEF RestInv
<1>2. used.elections + 1 \in Nat /\ used.restarts + 1 \in Nat /\ used.snapshots + 1 \in Nat
  BY <1>1
<1>. QED
  BY <1>1, <1>2 DEF Use

\* A goroutine that is at a point can leave it, and one can come to it.
LEMMA GoroutinesIn ==
    ASSUME RestInv, NEW s \in Server, NEW p \in Point, NEW q \in Point, p # q
    PROVE  /\ Spawn(s, p) => goroutines' \in [Server -> [Point -> Nat]]
           /\ At(s, p) /\ Exit(s, p) => goroutines' \in [Server -> [Point -> Nat]]
           /\ At(s, p) /\ Move(s, p, q) => goroutines' \in [Server -> [Point -> Nat]]
<1>1. goroutines \in [Server -> [Point -> Nat]] /\ goroutines[s] \in [Point -> Nat]
  BY DEF RestInv
<1>2. goroutines[s][p] + 1 \in Nat /\ goroutines[s][q] + 1 \in Nat
  BY <1>1
<1>3. At(s, p) => goroutines[s][p] - 1 \in Nat
  BY <1>1 DEF At
<1>4. Spawn(s, p) => goroutines' \in [Server -> [Point -> Nat]]
  BY <1>1, <1>2 DEF Spawn
<1>5. At(s, p) /\ Exit(s, p) => goroutines' \in [Server -> [Point -> Nat]]
  BY <1>1, <1>3 DEF Exit
<1>6. At(s, p) /\ Move(s, p, q) => goroutines' \in [Server -> [Point -> Nat]]
  BY <1>1, <1>2, <1>3 DEF Move
<1>. QED
  BY <1>4, <1>5, <1>6

-----------------------------------------------------------------------------
(* One lemma per action *)

\* Peers that Make() just started from empty disks satisfy the invariant.
LEMMA InitKeeps == Init => RaftInv
<1>. SUFFICES ASSUME Init PROVE RaftInv
  OBVIOUS
<1>. DEFINE g == Booted(NewDisk)
<1>1. /\ NewDisk \in DiskState /\ Covered(NewDisk)
      /\ g \in RaftState /\ LogKept(NewDisk, g)
      /\ g.currentTerm = NewDisk.currentTerm /\ g.votedFor = NewDisk.votedFor
  BY NewDiskIn, BootedIn
<1>. HIDE DEF g
<1>2. Durable(NewDisk, g) /\ Covered(g)
  BY <1>1 DEF Durable, LogKept, Covered
<1>3. rf = [s \in Server |-> g] /\ disk = [s \in Server |-> NewDisk]
  BY DEF Init, g
<1>4. NodeInv
  <2>1. /\ rf \in [Server -> RaftState] /\ disk \in [Server -> DiskState]
        /\ DurableState /\ \A s \in Server : Covered(rf[s])
    BY <1>1, <1>2, <1>3 DEF DurableState
  <2>2. service \in [Server -> Seq(Command)] /\ fault \in [Server -> Fault]
    BY EmptySeq DEF Init, Fault
  <2>. QED
    BY <2>1, <2>2 DEF NodeInv
<1>5. VoteInv
  BY DEF Init, VoteInv, VoteRemembered, VoteOnceUnlessLed
<1>6. CallInv
  BY DEF Init, CallInv
<1>7. RestInv
  BY DEF Init, RestInv
<1>. QED
  BY <1>4, <1>5, <1>6, <1>7 DEF RaftInv

\* toCandidate votes in a term in which nobody here has voted yet.
LEMMA ToCandidateKeeps ==
    ASSUME RaftInv, NEW s \in Server, ToCandidate(s)
    PROVE  RaftInv'
<1>. DEFINE g == Candidate(rf[s], s)
            Request(p) == [from |-> s, to |-> p, live |-> TRUE, done |-> FALSE,
                           Term |-> g.currentTerm, LastLogIndex |-> LastIndex(g),
                           LastLogTerm |-> LastTerm(g), reply |-> NoVote]
<1>1. NodeInv /\ VoteInv /\ CallInv /\ RestInv
  BY DEF RaftInv
<1>2. rf[s] \in RaftState /\ Covered(rf[s])
  BY <1>1 DEF NodeInv
<1>3. /\ g \in RaftState /\ LogKept(rf[s], g)
      /\ g.currentTerm = rf[s].currentTerm + 1 /\ g.votedFor = s
  BY <1>2, CandidateIn
<1>4. /\ Save(s, g)
      /\ rvCalls' = rvCalls \cup {Request(p) : p \in Server \ {s}}
      /\ granted' = granted \cup {<<s, g.currentTerm, s>>}
      /\ Use("elections")
      /\ UNCHANGED <<aeCalls, isCalls, goroutines, won, led, strayed, overlaid>>
  BY DEF ToCandidate
<1>. HIDE DEF g
<1>5. Covered(g)
  BY <1>2, <1>3 DEF LogKept, Covered
<1>6. NodeInv' /\ disk' = [disk EXCEPT ![s] = Persistent(g)]
  BY <1>1, <1>3, <1>4, <1>5, SaveKeeps
<1>7. CallInv'
  <2>1. LastIndex(g) \in LogIndex /\ LastTerm(g) \in Nat /\ g.currentTerm \in Nat
    BY <1>3, LastOfLogIn DEF RaftState
  <2>2. \A p \in Server \ {s} : Request(p) \in RequestVoteCall
    BY <2>1 DEF RequestVoteCall, NoVote
  <2>. HIDE DEF Request
  <2>3. rvCalls' \subseteq RequestVoteCall
    BY <1>1, <1>4, <2>2 DEF CallInv
  <2>. QED
    BY <1>1, <1>4, <2>3 DEF CallInv
<1>8. RestInv'
  BY <1>1, <1>4, UseIn DEF RestInv
<1>9. VoteInv'
  <2>1. /\ disk \in [Server -> DiskState] /\ Durable(disk[s], rf[s])
    BY <1>1 DEF NodeInv, DurableState
  <2>2. disk[s].currentTerm \in Nat /\ rf[s].currentTerm \in Nat
    BY <1>2, <2>1 DEF RaftState, DiskState
  <2>3. disk[s].currentTerm < g.currentTerm
    BY <1>3, <2>1, <2>2 DEF Durable
  <2>4. disk'[s].currentTerm = g.currentTerm /\ disk'[s].votedFor = s
    BY <1>3, <1>6, <2>1, PersistentIn
  <2>5. \A p \in Server \ {s} : disk'[p] = disk[p]
    BY <1>6, <2>1
  <2>6. g.currentTerm \in Nat
    BY <1>3 DEF RaftState
  <2>. QED
    BY <1>1, <1>4, <2>2, <2>3, <2>4, <2>5, <2>6, NewVote
<1>. QED
  BY <1>6, <1>7, <1>8, <1>9 DEF RaftInv

\* A vote is granted only by a peer without a vote in its term.
LEMMA RequestVoteRequestKeeps ==
    ASSUME RaftInv, NEW c \in rvCalls, RequestVoteRequestHandler(c)
    PROVE  RaftInv'
<1>. DEFINE s == c.to
            g == Observe(rf[s], c.Term)
            grant == GrantsVote(g, c)
            h == [g EXCEPT !.votedFor = IF grant THEN c.from ELSE @]
<1>1. NodeInv /\ VoteInv /\ CallInv /\ RestInv
  BY DEF RaftInv
<1>2. c.from \in Server /\ c.to \in Server /\ c.Term \in Nat
  BY <1>1 DEF CallInv, RequestVoteCall
<1>3. rf[s] \in RaftState /\ Covered(rf[s])
  BY <1>1, <1>2 DEF NodeInv
<1>4. g \in RaftState /\ VoteKept(rf[s], g) /\ LogKept(rf[s], g)
  BY <1>2, <1>3, ObserveIn
<1>5. /\ Save(s, h)
      /\ rvCalls' = Answered(rvCalls, c, [Term |-> g.currentTerm, VoteGranted |-> grant])
      /\ granted' = granted \cup (IF grant THEN {<<s, g.currentTerm, c.from>>} ELSE {})
      /\ UNCHANGED <<aeCalls, isCalls, goroutines, used, won, led, strayed, overlaid>>
  BY DEF RequestVoteRequestHandler
<1>6. grant \in BOOLEAN
  BY DEF GrantsVote
<1>7. grant => g.votedFor = NoServer
  BY DEF GrantsVote
<1>. HIDE DEF g, grant
<1>8. /\ h \in RaftState /\ LogKept(g, h) /\ h.currentTerm = g.currentTerm
      /\ h.votedFor = IF grant THEN c.from ELSE g.votedFor
  BY <1>2, <1>4 DEF RaftState, LogKept
<1>9. Covered(h)
  BY <1>3, <1>4, <1>8 DEF LogKept, Covered
<1>10. NodeInv' /\ disk' = [disk EXCEPT ![s] = Persistent(h)]
  BY <1>1, <1>2, <1>5, <1>8, <1>9, SaveKeeps
<1>11. CallInv'
  <2>1. [Term |-> g.currentTerm, VoteGranted |-> grant] \in [Term : Nat, VoteGranted : BOOLEAN]
    BY <1>4, <1>6 DEF RaftState
  <2>. QED
    BY <1>1, <1>5, <2>1, AnsweredVoteIn DEF CallInv
<1>12. RestInv'
  BY <1>1, <1>5 DEF RestInv
<1>13. VoteInv'
  <2>1. CASE ~grant
    <3>1. VoteKept(rf[s], h)
      BY <1>4, <1>8, <2>1 DEF VoteKept
    <3>. QED
      BY <1>1, <1>2, <1>5, <1>8, <1>10, <2>1, <3>1, VotesKept
  <2>2. CASE grant
    <3>1. disk \in [Server -> DiskState] /\ Durable(disk[s], rf[s])
      BY <1>1, <1>2 DEF NodeInv, DurableState
    <3>2. /\ disk[s].currentTerm \in Nat /\ rf[s].currentTerm \in Nat /\ g.currentTerm \in Nat
      BY <1>2, <1>3, <1>4, <3>1 DEF RaftState, DiskState
    <3>3. \/ disk[s].currentTerm < g.currentTerm
          \/ disk[s].currentTerm = g.currentTerm /\ disk[s].votedFor = NoServer
      BY <1>4, <1>7, <2>2, <3>1, <3>2 DEF Durable, VoteKept
    <3>4. disk'[s].currentTerm = g.currentTerm /\ disk'[s].votedFor = c.from
      BY <1>2, <1>8, <1>10, <2>2, <3>1, PersistentIn
    <3>5. \A p \in Server \ {s} : disk'[p] = disk[p]
      BY <1>10, <3>1
    <3>6. granted' = granted \cup {<<s, g.currentTerm, c.from>>} /\ led' = led
      BY <1>5, <2>2
    <3>. QED
      BY <1>1, <1>2, <3>2, <3>3, <3>4, <3>5, <3>6, NewVote
  <2>. QED
    BY <2>1, <2>2
<1>. QED
  BY <1>10, <1>11, <1>12, <1>13 DEF RaftInv

(***************************************************************************)
(* The reply to a vote is the one handler that does not persist: the disk  *)
(* falls behind in the term, with no vote in memory that it could lose.    *)
(***************************************************************************)
LEMMA RequestVoteResponseKeeps ==
    ASSUME RaftInv, NEW c \in rvCalls, RequestVoteResponseHandler(c)
    PROVE  RaftInv'
<1>. DEFINE s == c.from
            g == rf[s]
            h == AfterVoteReply(g, c, c.reply)
<1>1. NodeInv /\ VoteInv /\ CallInv /\ RestInv
  BY DEF RaftInv
<1>2. c.from \in Server /\ c.reply.Term \in Nat
  BY <1>1 DEF CallInv, RequestVoteCall
<1>3. g \in RaftState /\ Covered(g) /\ disk[s] \in DiskState /\ Durable(disk[s], g)
  BY <1>1, <1>2 DEF NodeInv, DurableState
<1>4. h \in RaftState /\ VoteKept(g, h) /\ LogKept(g, h)
  BY <1>2, <1>3, AfterVoteReplyIn
<1>5. /\ rf' = [rf EXCEPT ![s] = h]
      /\ rvCalls' = rvCalls \ {c}
      /\ Spawn(s, "toLeader") \/ goroutines' = goroutines
      /\ won' \subseteq won \cup {<<s, h.currentTerm>>}
      /\ UNCHANGED <<disk, service, fault, aeCalls, isCalls, used,
                     granted, led, strayed, overlaid>>
  BY DEF RequestVoteResponseHandler, Spawn
<1>. HIDE DEF h
<1>6. NodeInv'
  <2>1. Covered(h)
    BY <1>3, <1>4 DEF Covered, LogKept
  <2>2. Durable(disk[s], h)
    <3>1. g.currentTerm \in Nat /\ h.currentTerm \in Nat /\ disk[s].currentTerm \in Nat
      BY <1>3, <1>4 DEF RaftState, DiskState
    <3>. QED
      BY <1>3, <1>4, <3>1 DEF Durable, LogKept, VoteKept
  <2>3. /\ rf' \in [Server -> RaftState]
        /\ \A t \in Server : Durable(disk'[t], rf'[t]) /\ Covered(rf'[t])
    BY <1>1, <1>2, <1>4, <1>5, <2>1, <2>2 DEF NodeInv, DurableState
  <2>. QED
    BY <1>1, <1>5, <2>3 DEF NodeInv, DurableState, Durable, Covered
<1>7. VoteInv'
  BY <1>1, <1>5, VotesSame
<1>8. CallInv'
  BY <1>1, <1>5 DEF CallInv
<1>9. RestInv'
  <2>1. <<s, h.currentTerm>> \in Server \X Nat
    BY <1>2, <1>4 DEF RaftState
  <2>2. goroutines' \in [Server -> [Point -> Nat]]
    <3>1. "toLeader" \in Point /\ "check" \in Point /\ "toLeader" # "check"
      BY DEF Point
    <3>2. Spawn(s, "toLeader") => goroutines' \in [Server -> [Point -> Nat]]
      BY <1>1, <1>2, <3>1, GoroutinesIn
    <3>. QED
      BY <1>1, <1>5, <3>2 DEF RestInv
  <2>3. won' \subseteq Server \X Nat
    BY <1>1, <1>5, <2>1 DEF RestInv
  <2>. QED
    BY <1>1, <1>5, <2>2, <2>3 DEF RestInv
<1>. QED
  BY <1>6, <1>7, <1>8, <1>9 DEF RaftInv

\* toLeader forgets the vote, in a term that it now leads.
LEMMA ToLeaderKeeps ==
    ASSUME RaftInv, NEW s \in Server, ToLeader(s)
    PROVE  RaftInv'
<1>. DEFINE g == Leader(rf[s], s)
<1>1. NodeInv /\ VoteInv /\ CallInv /\ RestInv
  BY DEF RaftInv
<1>2. /\ rf[s] \in RaftState /\ Covered(rf[s])
      /\ disk \in [Server -> DiskState] /\ Durable(disk[s], rf[s])
  BY <1>1 DEF NodeInv, DurableState
<1>3. /\ g \in RaftState /\ LogKept(rf[s], g)
      /\ g.currentTerm = rf[s].currentTerm /\ g.votedFor = NoServer
  BY <1>2, LeaderIn
<1>4. /\ At(s, "toLeader") /\ Save(s, g) /\ Move(s, "toLeader", "commit")
      /\ led' = led \cup {<<s, rf[s].currentTerm>>}
      /\ UNCHANGED <<rvCalls, aeCalls, isCalls, used, granted, won, strayed, overlaid>>
  BY DEF ToLeader, calls
<1>. HIDE DEF g
<1>5. Covered(g)
  BY <1>2, <1>3 DEF LogKept, Covered
<1>6. NodeInv' /\ disk' = [disk EXCEPT ![s] = Persistent(g)]
  BY <1>1, <1>3, <1>4, <1>5, SaveKeeps
<1>7. VoteInv'
  <2>1. /\ granted \subseteq Server \X Nat \X Server /\ VoteRemembered /\ VoteOnceUnlessLed
    BY <1>1 DEF VoteInv
  <2>2. disk'[s].currentTerm = rf[s].currentTerm
    BY <1>2, <1>3, <1>6, PersistentIn
  <2>3. \A p \in Server \ {s} : disk'[p] = disk[p]
    BY <1>2, <1>6
  <2>4. disk[s].currentTerm \in Nat /\ rf[s].currentTerm \in Nat
           /\ disk[s].currentTerm <= rf[s].currentTerm
    BY <1>2 DEF Durable, RaftState, DiskState
  <2>5. ASSUME NEW v \in granted
        PROVE  /\ v[2] <= disk'[v[1]].currentTerm
               /\ v[2] = disk'[v[1]].currentTerm =>
                     disk'[v[1]].votedFor = v[3] \/ <<v[1], v[2]>> \in led'
    <3>1. v[1] \in Server /\ v[2] \in Nat
      BY <2>1
    <3>2. /\ v[2] <= disk[v[1]].currentTerm
          /\ v[2] = disk[v[1]].currentTerm =>
                disk[v[1]].votedFor = v[3] \/ <<v[1], v[2]>> \in led
      BY <2>1 DEF VoteRemembered
    <3>3. CASE v[1] # s
      BY <1>4, <2>3, <3>1, <3>2, <3>3
    <3>4. CASE v[1] = s
      BY <1>4, <2>2, <2>4, <3>1, <3>2, <3>4
    <3>. QED
      BY <3>3, <3>4
  <2>6. VoteRemembered'
    BY <1>4, <2>5 DEF VoteRemembered
  <2>7. VoteOnceUnlessLed'
    BY <1>4, <2>1 DEF VoteOnceUnlessLed
  <2>. QED
    BY <1>4, <2>1, <2>6, <2>7 DEF VoteInv
<1>8. CallInv'
  BY <1>1, <1>4 DEF CallInv
<1>9. RestInv'
  <2>1. <<s, rf[s].currentTerm>> \in Server \X Nat
    BY <1>2 DEF RaftState
  <2>2. "toLeader" \in Point /\ "commit" \in Point /\ "toLeader" # "commit"
    BY DEF Point
  <2>3. goroutines' \in [Server -> [Point -> Nat]]
    BY <1>1, <1>4, <2>2, GoroutinesIn
  <2>. QED
    BY <1>1, <1>4, <2>1, <2>3 DEF RestInv
<1>. QED
  BY <1>6, <1>7, <1>8, <1>9 DEF RaftInv

\* The role check of leaderTicker moves a goroutine and nothing else.
LEMMA LeaderTickerCheckKeeps ==
    ASSUME RaftInv, NEW s \in Server, LeaderTickerCheck(s)
    PROVE  RaftInv'
<1>1. NodeInv /\ VoteInv /\ CallInv /\ RestInv
  BY DEF RaftInv
<1>2. /\ At(s, "check") /\ (Move(s, "check", "commit") \/ Exit(s, "check"))
      /\ UNCHANGED <<rf, disk, service, fault, rvCalls, aeCalls, isCalls, used,
                     granted, won, led, strayed, overlaid>>
  BY DEF LeaderTickerCheck, node, calls, history
<1>3. "check" \in Point /\ "commit" \in Point /\ "check" # "commit"
  BY DEF Point
<1>4. goroutines' \in [Server -> [Point -> Nat]]
  BY <1>1, <1>2, <1>3, GoroutinesIn
<1>5. NodeInv'
  BY <1>1, <1>2 DEF NodeInv, DurableState
<1>6. VoteInv'
  BY <1>1, <1>2, VotesSame
<1>7. CallInv'
  BY <1>1, <1>2 DEF CallInv
<1>8. RestInv'
  BY <1>1, <1>2, <1>4 DEF RestInv
<1>. QED
  BY <1>5, <1>6, <1>7, <1>8 DEF RaftInv

\* leaderUpdateCommitIndex keeps the log and the vote.
LEMMA LeaderUpdateCommitIndexKeeps ==
    ASSUME RaftInv, NEW s \in Server, LeaderUpdateCommitIndex(s)
    PROVE  RaftInv'
<1>1. NodeInv /\ VoteInv /\ CallInv /\ RestInv
  BY DEF RaftInv
<1>2. rf[s] \in RaftState /\ Covered(rf[s]) /\ service[s] \in Seq(Command)
  BY <1>1 DEF NodeInv
<1>3. PICK p \in Server : Finish(s, AfterCommitCheck(rf[s], service[s], rf[s].matchIndex[p]))
  BY DEF LeaderUpdateCommitIndex
<1>4. /\ At(s, "commit") /\ Move(s, "commit", "send")
      /\ strayed' \subseteq strayed \cup {<<s, rf[s].currentTerm>>}
      /\ UNCHANGED <<rvCalls, aeCalls, isCalls, used, granted, won, led, overlaid>>
  BY DEF LeaderUpdateCommitIndex, Stray, calls
<1>. DEFINE out == AfterCommitCheck(rf[s], service[s], rf[s].matchIndex[p])
<1>5. rf[s].matchIndex[p] \in Int
  BY <1>2 DEF RaftState
<1>6. out \in OutcomeState /\ VoteKept(rf[s], out.g) /\ LogKept(rf[s], out.g)
  BY <1>2, <1>5, AfterCommitCheckIn
<1>. HIDE DEF out
<1>7. Covered(out.g)
  BY <1>2, <1>6 DEF LogKept, Covered
<1>8. NodeInv' /\ out.g \in RaftState /\ disk' = [disk EXCEPT ![s] = Persistent(out.g)]
  BY <1>1, <1>3, <1>6, <1>7, FinishKeeps DEF out
<1>9. VoteInv'
  BY <1>1, <1>4, <1>6, <1>8, VotesKept
<1>10. CallInv'
  BY <1>1, <1>4 DEF CallInv
<1>11. RestInv'
  <2>1. "commit" \in Point /\ "send" \in Point /\ "commit" # "send"
    BY DEF Point
  <2>2. goroutines' \in [Server -> [Point -> Nat]]
    BY <1>1, <1>4, <2>1, GoroutinesIn
  <2>3. <<s, rf[s].currentTerm>> \in Server \X Nat
    BY <1>2 DEF RaftState
  <2>. QED
    BY <1>1, <1>4, <2>2, <2>3 DEF RestInv
<1>. QED
  BY <1>8, <1>9, <1>10, <1>11 DEF RaftInv

(***************************************************************************)
(* leaderSendAppendEntriesRPC: what a peer of any role sends is typed, and *)
(* a snapshot leaves together with the index it covers.                    *)
(***************************************************************************)
LEMMA SendKeeps ==
    ASSUME RaftInv, NEW s \in Server, LeaderSendAppendEntriesRPC(s), disk' = disk
    PROVE  /\ NodeInv' /\ CallInv'
           /\ strayed' \subseteq Server \X Nat
<1>. DEFINE g == rf[s]
            others == Server \ {s}
            behind == {p \in others : Prev(g, p) < g.snapshotIndex}
            able   == \A p \in others : CanSend(g.log, g.snapshotIndex, Prev(g, p))
<1>1. NodeInv /\ CallInv /\ strayed \subseteq Server \X Nat
  BY DEF RaftInv, RestInv
<1>2. g \in RaftState /\ Covered(g)
  BY <1>1 DEF NodeInv
<1>3. CASE ~able
  <2>1. /\ fault' = [fault EXCEPT ![s] = "panic"]
        /\ UNCHANGED <<rf, disk, service, rvCalls, aeCalls, isCalls, strayed>>
    BY <1>3 DEF LeaderSendAppendEntriesRPC, calls
  <2>2. fault' \in [Server -> Fault]
    BY <1>1, <2>1 DEF NodeInv, Fault
  <2>3. NodeInv'
    BY <1>1, <2>1, <2>2 DEF NodeInv, DurableState
  <2>. QED
    BY <1>1, <2>1, <2>3 DEF CallInv
<1>4. CASE able
  <2>1. /\ aeCalls' = aeCalls \cup {AppendEntriesTo(g, s, p) : p \in others \ behind}
        /\ isCalls' = isCalls \cup {InstallSnapshotTo(g, s, p) : p \in behind}
        /\ strayed' \subseteq strayed \cup {<<s, g.currentTerm>>}
        /\ UNCHANGED <<rf, disk, service, fault, rvCalls>>
    BY <1>4 DEF LeaderSendAppendEntriesRPC, node, Stray
  <2>2. /\ g.currentTerm \in Nat /\ g.commitIndex \in LogIndex /\ g.log \in Seq(LogEntry)
        /\ g.snapshotIndex \in LogIndex /\ g.snapshotTerm \in Nat
        /\ g.snapshot \in Seq(Command) /\ g.nextIndex \in [Server -> Int]
    BY <1>2 DEF RaftState
  <2>3. Len(g.snapshot) = g.snapshotIndex + 1
    BY <1>2 DEF Covered
  <2>. HIDE DEF g
  <2>4. ASSUME NEW p \in others \ behind PROVE AppendEntriesTo(g, s, p) \in AppendEntriesCall
    <3>1. Prev(g, p) \in Int /\ Prev(g, p) >= g.snapshotIndex
      BY <2>2 DEF Prev, LogIndex
    <3>2. CanSend(g.log, g.snapshotIndex, Prev(g, p))
      BY <1>4
    <3>3. /\ EntriesAfter(g.log, g.snapshotIndex, Prev(g, p)) \in Seq(LogEntry)
          /\ TermAt(g.log, g.snapshotIndex, g.snapshotTerm, Prev(g, p)) \in Nat
      BY <2>2, <3>1, <3>2, SendIn
    <3>. QED
      BY <2>2, <3>1, <3>3 DEF AppendEntriesTo, AppendEntriesCall, NoAnswer, Refusal
  <2>5. ASSUME NEW p \in behind
        PROVE  /\ InstallSnapshotTo(g, s, p) \in InstallSnapshotCall
               /\ InstallSnapshotTo(g, s, p).Snapshot = g.snapshot
               /\ InstallSnapshotTo(g, s, p).LastIncludedIndex = g.snapshotIndex
    BY <2>2 DEF InstallSnapshotTo, InstallSnapshotCall, NoInstall
  <2>. HIDE DEF behind
  <2>6. aeCalls' \subseteq AppendEntriesCall
    BY <1>1, <2>1, <2>4 DEF CallInv
  <2>7. \A c \in isCalls' : c \in isCalls \/ \E p \in behind : c = InstallSnapshotTo(g, s, p)
    BY <2>1
  <2>8. ASSUME NEW c \in isCalls'
        PROVE  c \in InstallSnapshotCall /\ Len(c.Snapshot) = c.LastIncludedIndex + 1
    <3>1. CASE c \in isCalls
      BY <1>1, <3>1 DEF CallInv
    <3>2. CASE \E p \in behind : c = InstallSnapshotTo(g, s, p)
      BY <2>3, <2>5, <3>2
    <3>. QED
      BY <2>7, <3>1, <3>2
  <2>9. CallInv'
    BY <1>1, <2>1, <2>6, <2>8 DEF CallInv
  <2>10. NodeInv'
    BY <1>1, <2>1 DEF NodeInv, DurableState
  <2>. QED
    BY <1>1, <2>1, <2>2, <2>9, <2>10
<1>. QED
  BY <1>3, <1>4

\* The send of a leader's round.
LEMMA LeaderTickerSendKeeps ==
    ASSUME RaftInv, NEW s \in Server, LeaderTickerSend(s)
    PROVE  RaftInv'
<1>1. NodeInv /\ VoteInv /\ CallInv /\ RestInv
  BY DEF RaftInv
<1>2. /\ At(s, "send") /\ LeaderSendAppendEntriesRPC(s) /\ Move(s, "send", NextRound(s))
      /\ UNCHANGED <<used, granted, won, led, overlaid>>
  BY DEF LeaderTickerSend
<1>3. disk' = disk
  BY <1>2 DEF LeaderSendAppendEntriesRPC, node
<1>4. NodeInv' /\ CallInv' /\ strayed' \subseteq Server \X Nat
  BY <1>2, <1>3, SendKeeps
<1>5. VoteInv'
  BY <1>1, <1>2, <1>3, VotesSame
<1>6. RestInv'
  <2>1. "send" \in Point /\ NextRound(s) \in Point /\ "send" # NextRound(s)
    BY DEF Point, NextRound
  <2>2. goroutines' \in [Server -> [Point -> Nat]]
    BY <1>1, <1>2, <2>1, GoroutinesIn
  <2>. QED
    BY <1>1, <1>2, <1>4, <2>2 DEF RestInv
<1>. QED
  BY <1>4, <1>5, <1>6 DEF RaftInv

\* The send at the end of Start.
LEMMA StartSendKeeps ==
    ASSUME RaftInv, NEW s \in Server, StartSend(s)
    PROVE  RaftInv'
<1>1. NodeInv /\ VoteInv /\ CallInv /\ RestInv
  BY DEF RaftInv
<1>2. /\ At(s, "startSend") /\ LeaderSendAppendEntriesRPC(s) /\ Exit(s, "startSend")
      /\ UNCHANGED <<used, granted, won, led, overlaid>>
  BY DEF StartSend
<1>3. disk' = disk
  BY <1>2 DEF LeaderSendAppendEntriesRPC, node
<1>4. NodeInv' /\ CallInv' /\ strayed' \subseteq Server \X Nat
  BY <1>2, <1>3, SendKeeps
<1>5. VoteInv'
  BY <1>1, <1>2, <1>3, VotesSame
<1>6. RestInv'
  <2>1. "startSend" \in Point /\ "send" \in Point /\ "startSend" # "send"
    BY DEF Point
  <2>2. goroutines' \in [Server -> [Point -> Nat]]
    BY <1>1, <1>2, <2>1, GoroutinesIn
  <2>. QED
    BY <1>1, <1>2, <1>4, <2>2 DEF RestInv
<1>. QED
  BY <1>4, <1>5, <1>6 DEF RaftInv

\* Start appends one entry.
LEMMA StartKeeps ==
    ASSUME RaftInv, NEW s \in Server, NEW command \in Command, Start(s, command)
    PROVE  RaftInv'
<1>. DEFINE g == WithCommand(rf[s], s, command)
<1>1. NodeInv /\ VoteInv /\ CallInv /\ RestInv
  BY DEF RaftInv
<1>2. rf[s] \in RaftState /\ Covered(rf[s])
  BY <1>1 DEF NodeInv
<1>3. g \in RaftState /\ VoteKept(rf[s], g) /\ Covered(g)
  BY <1>2, WithCommandIn
<1>4. /\ Save(s, g) /\ Spawn(s, "startSend")
      /\ used' = [used EXCEPT !.commands = @ \cup {command}]
      /\ UNCHANGED <<rvCalls, aeCalls, isCalls, granted, won, led, strayed, overlaid>>
  BY DEF Start, calls, history
<1>. HIDE DEF g
<1>5. NodeInv' /\ disk' = [disk EXCEPT ![s] = Persistent(g)]
  BY <1>1, <1>3, <1>4, SaveKeeps
<1>6. VoteInv'
  BY <1>1, <1>3, <1>4, <1>5, VotesKept
<1>7. CallInv'
  BY <1>1, <1>4 DEF CallInv
<1>8. RestInv'
  <2>1. "startSend" \in Point /\ "send" \in Point /\ "startSend" # "send"
    BY DEF Point
  <2>2. goroutines' \in [Server -> [Point -> Nat]]
    BY <1>1, <1>4, <2>1, GoroutinesIn
  <2>. QED
    BY <1>1, <1>4, <2>2 DEF RestInv
<1>. QED
  BY <1>5, <1>6, <1>7, <1>8 DEF RaftInv

\* AppendEntries at a follower: refused, or the log match and the commit.
LEMMA AppendEntriesRequestKeeps ==
    ASSUME RaftInv, NEW c \in aeCalls, AppendEntriesRequestHandler(c)
    PROVE  RaftInv'
<1>. DEFINE s == c.to
            g == ToFollower(rf[s], c.Term)
            answer == FollowerHandleLog(g.log, g.snapshotIndex, c)
            out == FollowerAfter(g, service[s], answer, c.LeaderCommit)
            Reply == [Term : Nat, Success : BOOLEAN, XTerm : Int, XIndex : Int]
<1>1. NodeInv /\ VoteInv /\ CallInv /\ RestInv
  BY DEF RaftInv
<1>2. /\ s \in Server /\ c.Term \in Nat /\ c.PrevLogIndex \in Int
      /\ c.Entries \in Seq(LogEntry) /\ c.LeaderCommit \in LogIndex
  BY <1>1 DEF CallInv, AppendEntriesCall
<1>3. rf[s] \in RaftState /\ Covered(rf[s]) /\ service[s] \in Seq(Command)
  BY <1>1, <1>2 DEF NodeInv
<1>4. /\ overlaid' \subseteq overlaid \cup {s}
      /\ UNCHANGED <<rvCalls, isCalls, goroutines, used, granted, won, led, strayed>>
  BY DEF AppendEntriesRequestHandler
<1>5. RestInv'
  BY <1>1, <1>2, <1>4 DEF RestInv
<1>6. CASE c.Term < rf[s].currentTerm
  <2>. DEFINE r == Refusal(rf[s].currentTerm)
  <2>1. Save(s, rf[s]) /\ aeCalls' = Answered(aeCalls, c, r)
    BY <1>6 DEF AppendEntriesRequestHandler
  <2>2. r \in Reply
    <3>1. rf[s].currentTerm \in Nat
      BY <1>3 DEF RaftState
    <3>. QED
      BY <3>1 DEF Refusal
  <2>. HIDE DEF r
  <2>3. NodeInv' /\ disk' = [disk EXCEPT ![s] = Persistent(rf[s])]
    BY <1>1, <1>2, <1>3, <2>1, SaveKeeps
  <2>4. VoteKept(rf[s], rf[s])
    BY DEF VoteKept
  <2>5. VoteInv'
    BY <1>1, <1>2, <1>3, <1>4, <2>3, <2>4, VotesKept
  <2>6. CallInv'
    BY <1>1, <1>4, <2>1, <2>2, AnsweredAppendIn DEF CallInv
  <2>. QED
    BY <1>5, <2>3, <2>5, <2>6 DEF RaftInv
<1>7. CASE ~(c.Term < rf[s].currentTerm)
  <2>. DEFINE r == [Term |-> c.Term, Success |-> answer.Success,
                    XTerm |-> answer.XTerm, XIndex |-> answer.XIndex]
  <2>1. Finish(s, out) /\ aeCalls' = Answered(aeCalls, c, r)
    BY <1>7 DEF AppendEntriesRequestHandler
  <2>2. g \in RaftState /\ VoteKept(rf[s], g) /\ LogKept(rf[s], g)
    BY <1>2, <1>3, ToFollowerIn
  <2>. HIDE DEF g
  <2>3. answer \in [log : Seq(LogEntry), Success : BOOLEAN, XTerm : Int, XIndex : Int]
    <3>1. g.log \in Seq(LogEntry) /\ g.snapshotIndex \in LogIndex
      BY <2>2 DEF RaftState
    <3>. QED
      BY <1>2, <3>1, FollowerHandleLogIn
  <2>. HIDE DEF answer
  <2>4. answer.log \in Seq(LogEntry) /\ r \in Reply
    BY <1>2, <2>3
  <2>. HIDE DEF r
  <2>5. Covered(g)
    BY <1>3, <2>2 DEF Covered, LogKept
  <2>6. out \in OutcomeState /\ VoteKept(g, out.g) /\ Covered(out.g)
    BY <1>2, <1>3, <2>2, <2>4, <2>5, FollowerAfterIn
  <2>. HIDE DEF out
  <2>7. NodeInv' /\ out.g \in RaftState /\ disk' = [disk EXCEPT ![s] = Persistent(out.g)]
    BY <1>1, <1>2, <2>1, <2>6, FinishKeeps
  <2>8. VoteKept(rf[s], out.g)
    BY <1>3, <2>2, <2>6, <2>7, VoteKeptTrans
  <2>9. VoteInv'
    BY <1>1, <1>2, <1>4, <2>7, <2>8, VotesKept
  <2>10. CallInv'
    BY <1>1, <1>4, <2>1, <2>4, AnsweredAppendIn DEF CallInv
  <2>. QED
    BY <1>5, <2>7, <2>9, <2>10 DEF RaftInv
<1>. QED
  BY <1>6, <1>7

\* The reply to AppendEntries, real or the zero reply of a failed call.
LEMMA AppendEntriesResponseKeeps ==
    ASSUME RaftInv, NEW c \in aeCalls, NEW r \in Returns(c, NoAnswer), AppendEntriesResponseHandler(c, r)
    PROVE  RaftInv'
<1>. DEFINE s == c.from
            g == AfterAppendReply(rf[s], c, r)
<1>1. NodeInv /\ VoteInv /\ CallInv /\ RestInv
  BY DEF RaftInv
<1>2. c \in AppendEntriesCall /\ s \in Server
  BY <1>1 DEF CallInv, AppendEntriesCall
<1>3. r \in [Term : Nat, Success : BOOLEAN, XTerm : Int, XIndex : Int]
  <2>1. c.reply \in [Term : Nat, Success : BOOLEAN, XTerm : Int, XIndex : Int] /\ NoAnswer \in [Term : Nat, Success : BOOLEAN, XTerm : Int, XIndex : Int]
    BY <1>2 DEF AppendEntriesCall, NoAnswer, Refusal
  <2>. QED
    BY <2>1 DEF Returns
<1>4. rf[s] \in RaftState /\ Covered(rf[s])
  BY <1>1, <1>2 DEF NodeInv
<1>5. g \in RaftState /\ VoteKept(rf[s], g) /\ LogKept(rf[s], g)
  BY <1>2, <1>3, <1>4, AfterAppendReplyIn
<1>6. /\ Save(s, g) /\ aeCalls' = aeCalls \ {c}
      /\ UNCHANGED <<rvCalls, isCalls, goroutines, used, granted, won, led, strayed, overlaid>>
  BY DEF AppendEntriesResponseHandler, history
<1>. HIDE DEF g
<1>7. Covered(g)
  BY <1>4, <1>5 DEF LogKept, Covered
<1>8. NodeInv' /\ disk' = [disk EXCEPT ![s] = Persistent(g)]
  BY <1>1, <1>2, <1>5, <1>6, <1>7, SaveKeeps
<1>9. VoteInv'
  BY <1>1, <1>2, <1>5, <1>6, <1>8, VotesKept
<1>10. CallInv'
  BY <1>1, <1>6 DEF CallInv
<1>11. RestInv'
  BY <1>1, <1>6 DEF RestInv
<1>. QED
  BY <1>8, <1>9, <1>10, <1>11 DEF RaftInv

\* InstallSnapshot at a follower, whatever becomes of its log.
LEMMA InstallSnapshotRequestKeeps ==
    ASSUME RaftInv, NEW c \in isCalls, InstallSnapshotRequestHandler(c)
    PROVE  RaftInv'
<1>. DEFINE s == c.to
            out == InstallOutcome(rf[s], service[s], c)
            r == [Term |-> out.g.currentTerm]
<1>1. NodeInv /\ VoteInv /\ CallInv /\ RestInv
  BY DEF RaftInv
<1>2. c \in InstallSnapshotCall /\ s \in Server /\ Len(c.Snapshot) = c.LastIncludedIndex + 1
  BY <1>1 DEF CallInv, InstallSnapshotCall
<1>3. rf[s] \in RaftState /\ Covered(rf[s]) /\ service[s] \in Seq(Command)
  BY <1>1, <1>2 DEF NodeInv
<1>4. out \in OutcomeState /\ VoteKept(rf[s], out.g) /\ Covered(out.g)
  BY <1>2, <1>3, InstallOutcomeIn
<1>5. /\ Finish(s, out) /\ isCalls' = Answered(isCalls, c, r)
      /\ UNCHANGED <<rvCalls, aeCalls, goroutines, used, granted, won, led, strayed, overlaid>>
  BY DEF InstallSnapshotRequestHandler, history
<1>. HIDE DEF out
<1>6. NodeInv' /\ out.g \in RaftState /\ disk' = [disk EXCEPT ![s] = Persistent(out.g)]
  BY <1>1, <1>2, <1>4, <1>5, FinishKeeps
<1>7. VoteInv'
  BY <1>1, <1>2, <1>4, <1>5, <1>6, VotesKept
<1>8. CallInv'
  <2>1. r \in [Term : Nat]
    BY <1>6 DEF RaftState
  <2>. HIDE DEF r
  <2>. QED
    BY <1>1, <1>5, <2>1, AnsweredInstallIn DEF CallInv
<1>9. RestInv'
  BY <1>1, <1>5 DEF RestInv
<1>. QED
  BY <1>6, <1>7, <1>8, <1>9 DEF RaftInv

\* The reply to InstallSnapshot, real or the zero reply of a failed call.
LEMMA InstallSnapshotResponseKeeps ==
    ASSUME RaftInv, NEW c \in isCalls, NEW r \in Returns(c, NoInstall), InstallSnapshotResponseHandler(c, r)
    PROVE  RaftInv'
<1>. DEFINE s == c.from
            g == AfterInstallReply(rf[s], c, r)
<1>1. NodeInv /\ VoteInv /\ CallInv /\ RestInv
  BY DEF RaftInv
<1>2. c \in InstallSnapshotCall /\ s \in Server
  BY <1>1 DEF CallInv, InstallSnapshotCall
<1>3. r \in [Term : Nat]
  <2>1. c.reply \in [Term : Nat] /\ NoInstall \in [Term : Nat]
    BY <1>2 DEF InstallSnapshotCall, NoInstall
  <2>. QED
    BY <2>1 DEF Returns
<1>4. rf[s] \in RaftState /\ Covered(rf[s])
  BY <1>1, <1>2 DEF NodeInv
<1>5. g \in RaftState /\ VoteKept(rf[s], g) /\ LogKept(rf[s], g)
  BY <1>2, <1>3, <1>4, AfterInstallReplyIn
<1>6. /\ Save(s, g) /\ isCalls' = isCalls \ {c}
      /\ UNCHANGED <<rvCalls, aeCalls, goroutines, used, granted, won, led, strayed, overlaid>>
  BY DEF InstallSnapshotResponseHandler, history
<1>. HIDE DEF g
<1>7. Covered(g)
  BY <1>4, <1>5 DEF LogKept, Covered
<1>8. NodeInv' /\ disk' = [disk EXCEPT ![s] = Persistent(g)]
  BY <1>1, <1>2, <1>5, <1>6, <1>7, SaveKeeps
<1>9. VoteInv'
  BY <1>1, <1>2, <1>5, <1>6, <1>8, VotesKept
<1>10. CallInv'
  BY <1>1, <1>6 DEF CallInv
<1>11. RestInv'
  BY <1>1, <1>6 DEF RestInv
<1>. QED
  BY <1>8, <1>9, <1>10, <1>11 DEF RaftInv

\* Snapshot: the service asks for an index it has applied.
LEMMA SnapshotKeeps ==
    ASSUME RaftInv, NEW s \in Server, NEW index \in Nat, Snapshot(s, index)
    PROVE  RaftInv'
<1>. DEFINE out == AfterSnapshot(rf[s], service[s], index)
<1>1. NodeInv /\ VoteInv /\ CallInv /\ RestInv
  BY DEF RaftInv
<1>2. rf[s] \in RaftState /\ Covered(rf[s]) /\ service[s] \in Seq(Command)
  BY <1>1 DEF NodeInv
<1>3. /\ index + 1 <= Len(service[s]) /\ Finish(s, out) /\ Use("snapshots")
      /\ UNCHANGED <<rvCalls, aeCalls, isCalls, goroutines, granted, won, led, strayed, overlaid>>
  BY DEF Snapshot, calls, history
<1>4. out \in OutcomeState /\ VoteKept(rf[s], out.g) /\ Covered(out.g)
  BY <1>2, <1>3, AfterSnapshotIn
<1>. HIDE DEF out
<1>5. NodeInv' /\ out.g \in RaftState /\ disk' = [disk EXCEPT ![s] = Persistent(out.g)]
  BY <1>1, <1>3, <1>4, FinishKeeps
<1>6. VoteInv'
  BY <1>1, <1>3, <1>4, <1>5, VotesKept
<1>7. CallInv'
  BY <1>1, <1>3 DEF CallInv
<1>8. RestInv'
  BY <1>1, <1>3, UseIn DEF RestInv
<1>. QED
  BY <1>5, <1>6, <1>7, <1>8 DEF RaftInv

\* A crash leaves what is on disk.
LEMMA RestartKeeps ==
    ASSUME RaftInv, NEW s \in Server, Restart(s)
    PROVE  RaftInv'
<1>. DEFINE g == Booted(disk[s])
<1>1. NodeInv /\ VoteInv /\ CallInv /\ RestInv
  BY DEF RaftInv
<1>2. /\ rf[s] \in RaftState /\ Covered(rf[s])
      /\ disk[s] \in DiskState /\ Durable(disk[s], rf[s])
  BY <1>1 DEF NodeInv, DurableState
<1>3. /\ g \in RaftState /\ LogKept(disk[s], g)
      /\ g.currentTerm = disk[s].currentTerm /\ g.votedFor = disk[s].votedFor
  BY <1>2, BootedIn
<1>4. /\ rf' = [rf EXCEPT ![s] = g]
      /\ service' = [service EXCEPT ![s] = g.snapshot]
      /\ fault' = [fault EXCEPT ![s] = IF MakeBlocks(g) THEN "blocked" ELSE "none"]
      /\ goroutines' = [goroutines EXCEPT ![s] = [p \in Point |-> 0]]
      /\ rvCalls' = Orphaned(rvCalls, s) /\ aeCalls' = Orphaned(aeCalls, s)
      /\ isCalls' = Orphaned(isCalls, s)
      /\ Use("restarts")
      /\ UNCHANGED <<disk, granted, won, led, strayed, overlaid>>
  BY DEF Restart, history
<1>. HIDE DEF g
<1>5. Durable(disk[s], g) /\ Covered(g) /\ g.snapshot \in Seq(Command)
  BY <1>2, <1>3 DEF Durable, LogKept, Covered, RaftState
<1>6. NodeInv'
  <2>1. service' \in [Server -> Seq(Command)] /\ fault' \in [Server -> Fault]
    BY <1>1, <1>4, <1>5 DEF NodeInv, Fault
  <2>2. /\ rf' \in [Server -> RaftState]
        /\ \A t \in Server : Durable(disk'[t], rf'[t]) /\ Covered(rf'[t])
    BY <1>1, <1>3, <1>4, <1>5 DEF NodeInv, DurableState
  <2>. QED
    BY <1>1, <1>4, <2>1, <2>2 DEF NodeInv, DurableState, Durable, Covered
<1>7. VoteInv'
  BY <1>1, <1>4, VotesSame
<1>8. CallInv'
  BY <1>1, <1>4, OrphanedIn DEF CallInv
<1>9. RestInv'
  <2>1. goroutines' \in [Server -> [Point -> Nat]]
    BY <1>1, <1>4 DEF RestInv
  <2>. QED
    BY <1>1, <1>4, <2>1, UseIn DEF RestInv
<1>. QED
  BY <1>6, <1>7, <1>8, <1>9 DEF RaftInv

-----------------------------------------------------------------------------
\* Every step of every server keeps the invariant.
LEMMA NextKeeps ==
    ASSUME RaftInv, [Next]_vars
    PROVE  RaftInv'
<1>1. CASE UNCHANGED vars
  <2>1. UNCHANGED <<rf, disk, service, fault, rvCalls, aeCalls, isCalls, goroutines, used,
                    granted, won, led, strayed, overlaid>>
    BY <1>1 DEF vars, node, calls, history
  <2>2. NodeInv'
    BY <2>1 DEF RaftInv, NodeInv, DurableState
  <2>3. VoteInv'
    BY <2>1, VotesSame DEF RaftInv
  <2>4. CallInv' /\ RestInv'
    BY <2>1 DEF RaftInv, CallInv, RestInv
  <2>. QED
    BY <2>2, <2>3, <2>4 DEF RaftInv
<1>2. CASE Deliveries
  <2>1. ASSUME NEW c \in rvCalls, RequestVoteRequestHandler(c) PROVE RaftInv'
    BY <2>1, RequestVoteRequestKeeps
  <2>2. ASSUME NEW c \in rvCalls, RequestVoteResponseHandler(c) PROVE RaftInv'
    BY <2>2, RequestVoteResponseKeeps
  <2>3. ASSUME NEW c \in aeCalls, AppendEntriesRequestHandler(c) PROVE RaftInv'
    BY <2>3, AppendEntriesRequestKeeps
  <2>4. ASSUME NEW c \in aeCalls, NEW r \in Returns(c, NoAnswer),
               AppendEntriesResponseHandler(c, r)
        PROVE  RaftInv'
    BY <2>4, AppendEntriesResponseKeeps
  <2>5. ASSUME NEW c \in isCalls, InstallSnapshotRequestHandler(c) PROVE RaftInv'
    BY <2>5, InstallSnapshotRequestKeeps
  <2>6. ASSUME NEW c \in isCalls, NEW r \in Returns(c, NoInstall),
               InstallSnapshotResponseHandler(c, r)
        PROVE  RaftInv'
    BY <2>6, InstallSnapshotResponseKeeps
  <2>. QED
    BY <1>2, <2>1, <2>2, <2>3, <2>4, <2>5, <2>6 DEF Deliveries
<1>3. ASSUME NEW s \in Server, ServerStep(s) PROVE RaftInv'
  <2>1. CASE ToCandidate(s)
    BY <2>1, ToCandidateKeeps
  <2>2. CASE ToLeader(s)
    BY <2>2, ToLeaderKeeps
  <2>3. CASE LeaderTickerCheck(s)
    BY <2>3, LeaderTickerCheckKeeps
  <2>4. CASE LeaderUpdateCommitIndex(s)
    BY <2>4, LeaderUpdateCommitIndexKeeps
  <2>5. CASE LeaderTickerSend(s)
    BY <2>5, LeaderTickerSendKeeps
  <2>6. ASSUME NEW command \in Command, Start(s, command) PROVE RaftInv'
    BY <2>6, StartKeeps
  <2>7. CASE StartSend(s)
    BY <2>7, StartSendKeeps
  <2>8. ASSUME NEW i \in 1..Len(service[s]), Snapshot(s, i - 1) PROVE RaftInv'
    <3>1. i - 1 \in Nat
      BY <2>8
    <3>. QED
      BY <2>8, <3>1, SnapshotKeeps
  <2>9. CASE Restart(s)
    BY <2>9, RestartKeeps
  <2>. QED
    BY <1>3, <2>1, <2>2, <2>3, <2>4, <2>5, <2>6, <2>7, <2>8, <2>9 DEF ServerStep
<1>. QED
  BY <1>1, <1>2, <1>3 DEF Next

\* The invariant contains the properties that are stated about the peers.
LEMMA RaftInvImplies ==
    ASSUME RaftInv
    PROVE  TypeOK /\ DurableState /\ SnapshotCoversIndex /\ VoteOnceUnlessLed
<1>1. NodeInv /\ VoteInv /\ CallInv /\ RestInv
  BY DEF RaftInv
<1>2. TypeOK
  BY <1>1 DEF NodeInv, VoteInv, CallInv, RestInv, TypeOK
<1>3. DurableState
  BY <1>1 DEF NodeInv
<1>4. SnapshotCoversIndex
  BY <1>1 DEF NodeInv, CallInv, Covered, DurableState, Durable, SnapshotCoversIndex
<1>. QED
  BY <1>1, <1>2, <1>3, <1>4 DEF VoteInv

\* The conjunction of the parts is an invariant of every behaviour.
THEOREM RaftInvariant == Spec => []RaftInv
<1>1. Init => RaftInv
  BY InitKeeps
<1>2. RaftInv /\ [Next]_vars => RaftInv'
  BY NextKeeps
<1>. QED
  BY <1>1, <1>2, PTL DEF Spec

\* Every field keeps the type of its Go declaration, through every handler,
\* crash and late reply.
THEOREM TypeCorrect == Spec => []TypeOK
<1>1. RaftInv => TypeOK
  BY RaftInvImplies
<1>. QED
  BY <1>1, RaftInvariant, PTL

(***************************************************************************)
(* A crash at any moment loses at most a term in which the server has not  *)
(* voted: the missing persist() of the vote reply costs no more than that. *)
(***************************************************************************)
THEOREM DiskIsCurrent == Spec => []DurableState
<1>1. RaftInv => DurableState
  BY RaftInvImplies
<1>. QED
  BY <1>1, RaftInvariant, PTL

(***************************************************************************)
(* A server that votes for two candidates in one term led that term: no    *)
(* crash, lost reply or late request gives a second vote.                  *)
(***************************************************************************)
THEOREM SecondVoteOnlyByLeader == Spec => []VoteOnceUnlessLed
<1>1. RaftInv => VoteOnceUnlessLed
  BY RaftInvImplies
<1>. QED
  BY <1>1, RaftInvariant, PTL

\* The snapshot and the index it is labelled with never get out of step.
THEOREM SnapshotsAreLabelledRight == Spec => []SnapshotCoversIndex
<1>1. RaftInv => SnapshotCoversIndex
  BY RaftInvImplies
<1>. QED
  BY <1>1, RaftInvariant, PTL
=============================================================================
