------------------------- MODULE RaftElectionProofs -------------------------
(***************************************************************************)
(* Proofs about elections, for any number of servers, crashes and lost,    *)
(* late or repeated replies: who wins a term has the votes of a majority,  *)
(* and in a history without the known races nobody else leads it.          *)
(***************************************************************************)
EXTENDS RaftProofs, FiniteSetTheorems

\* From g to h the term does not go back, and a candidate was one before, of
\* the same term and with the same votes.
VotesAsBefore(g, h) ==
    /\ g.currentTerm <= h.currentTerm
    /\ h.role = "candidate" =>
         /\ g.role = "candidate"
         /\ h.currentTerm = g.currentTerm /\ h.voteCnt = g.voteCnt

\* The same, and a leader was one before, of the same term.
StandsAsBefore(g, h) ==
    /\ VotesAsBefore(g, h)
    /\ h.role = "leader" => g.role = "leader" /\ h.currentTerm = g.currentTerm

\* c is the RequestVote call of s to p in term t.
IsCall(c, s, p, t) == c.from = s /\ c.to = p /\ c.Term = t

\* The vote of p for s in term t is on its way to s.
OnItsWay(s, p, t) == \E c \in rvCalls : IsCall(c, s, p, t) /\ c.done /\ c.reply.VoteGranted

\* The voters of s in its term whose vote is not on its way any more.
Heard(s) == {p \in Voters(s, rf[s].currentTerm) : ~OnItsWay(s, p, rf[s].currentTerm)}

-----------------------------------------------------------------------------
(***************************************************************************)
(* The inductive invariant.  A server is asked once per term, which is one *)
(* of the past for the candidate's disk; until it is asked it has not      *)
(* voted for the candidate, and what it grants is in the history; so the   *)
(* replies counted and those that can still be counted are different       *)
(* voters.                                                                 *)
(***************************************************************************)
AskedOnce ==
    \A c, d \in rvCalls : IsCall(c, d.from, d.to, d.Term) => c = d

NoFutureTerm ==
    /\ \A c \in rvCalls : c.Term <= disk[c.from].currentTerm
    /\ \A v \in granted : v[2] <= disk[v[3]].currentTerm

VoteFollowsRequest ==
    \A c \in rvCalls :
        /\ ~c.done => <<c.to, c.Term, c.from>> \notin granted
        /\ c.done /\ c.reply.VoteGranted => <<c.to, c.Term, c.from>> \in granted

CountedAreVoters ==
    \A s \in Server : rf[s].role = "candidate" => rf[s].voteCnt <= Cardinality(Heard(s))

TallyInv ==
    AskedOnce /\ NoFutureTerm /\ VoteFollowsRequest /\ CountedAreVoters /\ WonByQuorum

-----------------------------------------------------------------------------
(* What the handlers do to a candidate *)

\* Standing as before composes.
LEMMA StandsTrans ==
    ASSUME NEW a \in RaftState, NEW b \in RaftState, NEW c \in RaftState,
           StandsAsBefore(a, b), StandsAsBefore(b, c)
    PROVE  StandsAsBefore(a, c)
<1>1. a.currentTerm \in Int /\ b.currentTerm \in Int /\ c.currentTerm \in Int
  BY DEF RaftState
<1>. QED
  BY <1>1 DEF StandsAsBefore, VotesAsBefore

\* Nothing changes for a peer that stays as it is.
LEMMA StandsSame ==
    ASSUME NEW g \in RaftState
    PROVE  StandsAsBefore(g, g)
BY DEF StandsAsBefore, VotesAsBefore, RaftState

\* toFollower ends a candidacy.
LEMMA ToFollowerStands ==
    ASSUME NEW g \in RaftState, NEW term \in Nat
    PROVE  StandsAsBefore(g, ToFollower(g, term)) /\ StandsAsBefore(g, Observe(g, term))
<1>1. StandsAsBefore(g, ToFollower(g, term))
  BY DEF ToFollower, RaftState, StandsAsBefore, VotesAsBefore
<1>. QED
  BY <1>1, StandsSame DEF Observe

\* Whoever observes a term is in it or in a later one.
LEMMA ObserveTerm ==
    ASSUME NEW g \in RaftState, NEW term \in Nat
    PROVE  Observe(g, term).currentTerm >= term
<1>1. g.currentTerm \in Nat
  BY DEF RaftState
<1>2. ToFollower(g, term).currentTerm = IF g.currentTerm < term THEN term ELSE g.currentTerm
  BY DEF ToFollower, RaftState
<1>. QED
  BY <1>1, <1>2 DEF Observe

\* Committing leaves the candidacy alone.
LEMMA CommitStands ==
    ASSUME NEW g \in RaftState, NEW svc \in Seq(Command), NEW cur \in LogIndex
    PROVE  StandsAsBefore(g, CommitTo(g, svc, cur).g)
<1>. DEFINE h == [g EXCEPT !.commitIndex = cur]
<1>1. StandsAsBefore(g, h)
  BY DEF StandsAsBefore, VotesAsBefore, RaftState
<1>2. CommitTo(g, svc, cur).g = h
  BY DEF CommitTo, Deliver, Outcome
<1>. QED
  BY <1>1, <1>2

\* So does leaderUpdateCommitIndex.
LEMMA CommitCheckStands ==
    ASSUME NEW g \in RaftState, NEW svc \in Seq(Command), NEW n \in Int
    PROVE  StandsAsBefore(g, AfterCommitCheck(g, svc, n).g)
<1>1. MayCommit(g, n) => n \in LogIndex
  BY DEF MayCommit, RaftState, LogIndex
<1>2. \A why : Outcome(g, svc, why).g = g
  BY DEF Outcome
<1>. QED
  BY <1>1, <1>2, StandsSame, CommitStands DEF AfterCommitCheck

\* Start and toLeader are steps of a leader and to one.
LEMMA LeaderStands ==
    ASSUME NEW g \in RaftState, NEW s \in Server, NEW command \in Command
    PROVE  StandsAsBefore(g, WithCommand(g, s, command))
BY DEF WithCommand, StandsAsBefore, VotesAsBefore, RaftState

\* A follower that accepts a request stays one.
LEMMA FollowerAfterStands ==
    ASSUME NEW g \in RaftState, NEW svc \in Seq(Command), NEW answer, NEW leaderCommit \in LogIndex,
           answer.log \in Seq(LogEntry)
    PROVE  StandsAsBefore(g, FollowerAfter(g, svc, answer, leaderCommit).g)
<1>. DEFINE h == [g EXCEPT !.log = answer.log]
            cur == FollowerCommitIndex(h.log, h.snapshotIndex, h.commitIndex, leaderCommit)
<1>1. h \in RaftState /\ StandsAsBefore(g, h)
  <2>1. h \in RaftState /\ h.role = g.role /\ h.currentTerm = g.currentTerm /\ h.voteCnt = g.voteCnt
    BY DEF RaftState
  <2>2. g.currentTerm <= g.currentTerm
    BY DEF RaftState
  <2>. HIDE DEF h, cur
  <2>. QED
    BY <2>1, <2>2 DEF StandsAsBefore, VotesAsBefore
<1>. HIDE DEF h
<1>2. cur \in LogIndex
  <2>1. h.log \in Seq(LogEntry) /\ h.snapshotIndex \in LogIndex /\ h.commitIndex \in LogIndex
    BY <1>1 DEF RaftState
  <2>. QED
    BY <2>1, FollowerCommitIn
<1>. HIDE DEF cur
<1>3. StandsAsBefore(h, CommitTo(h, svc, cur).g) /\ CommitTo(h, svc, cur).g \in RaftState
  BY <1>1, <1>2, CommitStands, CommitToIn DEF OutcomeState
<1>4. StandsAsBefore(g, CommitTo(h, svc, cur).g)
  BY <1>1, <1>3, StandsTrans
<1>5. Outcome(h, svc, "none").g = h
  BY DEF Outcome
<1>6. FollowerAfter(g, svc, answer, leaderCommit) \in {CommitTo(h, svc, cur), Outcome(h, svc, "none")}
  BY DEF FollowerAfter, h, cur
<1>. QED
  BY <1>1, <1>4, <1>5, <1>6

\* Replies to the leader's calls touch its slices, or demote it.
LEMMA AppendReplyStands ==
    ASSUME NEW g \in RaftState, NEW c, NEW reply, reply.Term \in Nat
    PROVE  StandsAsBefore(g, AfterAppendReply(g, c, reply))
<1>1. StandsAsBefore(g, LeaderHandleLog(g, c, reply))
  BY DEF LeaderHandleLog, StandsAsBefore, VotesAsBefore, RaftState
<1>. QED
  BY <1>1, StandsSame, ToFollowerStands DEF AfterAppendReply

\* The same for InstallSnapshot.
LEMMA InstallReplyStands ==
    ASSUME NEW g \in RaftState, NEW c, NEW reply, reply.Term \in Nat
    PROVE  StandsAsBefore(g, AfterInstallReply(g, c, reply))
<1>1. StandsAsBefore(g, [g EXCEPT !.nextIndex[c.to]  = c.LastIncludedIndex + 1,
                                  !.matchIndex[c.to] = c.LastIncludedIndex])
  BY DEF StandsAsBefore, VotesAsBefore, RaftState
<1>. QED
  BY <1>1, StandsSame, ToFollowerStands DEF AfterInstallReply

\* Installing a snapshot demotes a peer only through the term.
LEMMA InstallStands ==
    ASSUME NEW g \in RaftState, NEW svc, NEW args \in InstallSnapshotCall
    PROVE  StandsAsBefore(g, InstallOutcome(g, svc, args).g)
<1>. DEFINE h == Observe(g, args.Term)
<1>1. args.Term \in Nat
  BY DEF InstallSnapshotCall
<1>2. h \in RaftState /\ StandsAsBefore(g, h)
  BY <1>1, ObserveIn, ToFollowerStands
<1>. HIDE DEF h
<1>3. /\ AfterInstall(h, svc, args).g.role = h.role
      /\ AfterInstall(h, svc, args).g.currentTerm = h.currentTerm
      /\ AfterInstall(h, svc, args).g.voteCnt = h.voteCnt
  BY <1>2 DEF AfterInstall, Outcome, Compacted, RaftState
<1>4. StandsAsBefore(g, AfterInstall(h, svc, args).g)
  BY <1>2, <1>3 DEF StandsAsBefore, VotesAsBefore
<1>5. \A why : Outcome(g, svc, why).g = g
  BY DEF Outcome
<1>. QED
  BY <1>4, <1>5, StandsSame DEF InstallOutcome, h

\* Taking a snapshot leaves the candidacy alone.
LEMMA SnapshotStands ==
    ASSUME NEW g \in RaftState, NEW svc, NEW index
    PROVE  StandsAsBefore(g, AfterSnapshot(g, svc, index).g)
<1>1. /\ AfterSnapshot(g, svc, index).g.role = g.role
      /\ AfterSnapshot(g, svc, index).g.currentTerm = g.currentTerm
      /\ AfterSnapshot(g, svc, index).g.voteCnt = g.voteCnt
  BY DEF AfterSnapshot, Deliver, Outcome, Compacted, RaftState
<1>. QED
  BY <1>1 DEF StandsAsBefore, VotesAsBefore, RaftState

-----------------------------------------------------------------------------
(* Steps that neither count votes nor stand for election *)

\* Sets of servers are finite, and larger ones have more members.
LEMMA VotersFinite ==
    ASSUME NEW A \in SUBSET Server, NEW B \in SUBSET A
    PROVE  /\ IsFiniteSet(A) /\ IsFiniteSet(B)
           /\ Cardinality(A) \in Nat /\ Cardinality(B) \in Nat
           /\ Cardinality(B) <= Cardinality(A)
<1>1. IsFiniteSet(A)
  BY ServerAssumption, FS_Subset
<1>2. IsFiniteSet(B) /\ Cardinality(B) <= Cardinality(A)
  BY <1>1, FS_Subset
<1>. QED
  BY <1>1, <1>2, FS_CardinalityType

\* A number that is a quorum stays one when it grows.
LEMMA QuorumGrows ==
    ASSUME NEW m \in Nat, NEW n \in Nat, m <= n, IsQuorum(m)
    PROVE  IsQuorum(n)
<1>1. Cardinality(Server) \div 2 + 1 \in Int
  BY ServerAssumption, FS_CardinalityType
<1>. QED
  BY <1>1 DEF IsQuorum

\* Votes are never taken back, so a majority stays one.
LEMMA MajorityStays ==
    ASSUME WonByQuorum, granted \subseteq granted', won' = won
    PROVE  WonByQuorum'
<1>. SUFFICES ASSUME NEW w \in won
              PROVE  IsQuorum(Cardinality({p \in Server : <<p, w[2], w[1]>> \in granted'}))
  BY DEF WonByQuorum, Voters, IsQuorum
<1>. DEFINE A == {p \in Server : <<p, w[2], w[1]>> \in granted}
            B == {p \in Server : <<p, w[2], w[1]>> \in granted'}
<1>1. IsQuorum(Cardinality(A))
  BY DEF WonByQuorum, Voters
<1>2. A \in SUBSET B /\ B \in SUBSET Server
  OBVIOUS
<1>. HIDE DEF A, B
<1>. QED
  BY <1>1, <1>2, VotersFinite, QuorumGrows DEF B

(***************************************************************************)
(* A step in which no call is made or answered and nobody votes: calls may *)
(* be orphaned.                                                            *)
(***************************************************************************)
LEMMA QuietKeepsTally ==
    ASSUME RaftInv, RaftInv', TallyInv, AskedOnce',
           \A c \in rvCalls' : \E d \in rvCalls :
               /\ c.from = d.from /\ c.to = d.to /\ c.Term = d.Term
               /\ c.done = d.done /\ c.reply = d.reply,
           granted' = granted, won' = won,
           \A s \in Server : disk[s].currentTerm <= disk'[s].currentTerm,
           \A s \in Server : rf'[s].role = "candidate" =>
               /\ rf[s].role = "candidate"
               /\ rf'[s].currentTerm = rf[s].currentTerm
               /\ rf'[s].voteCnt = rf[s].voteCnt
    PROVE  TallyInv'
<1>1. /\ \A s \in Server : disk[s].currentTerm \in Nat /\ disk'[s].currentTerm \in Nat
      /\ \A s \in Server : rf[s] \in RaftState
      /\ \A c \in rvCalls : c.from \in Server /\ c.to \in Server /\ c.Term \in Nat
      /\ \A v \in granted : v[2] \in Nat /\ v[3] \in Server
  BY DEF RaftInv, NodeInv, VoteInv, CallInv, DiskState, RequestVoteCall
<1>2. NoFutureTerm'
  <2>1. ASSUME NEW c \in rvCalls' PROVE c.Term <= disk'[c.from].currentTerm
    <3>1. PICK d \in rvCalls : c.from = d.from /\ c.Term = d.Term
      OBVIOUS
    <3>2. d.Term <= disk[d.from].currentTerm
      BY DEF TallyInv, NoFutureTerm
    <3>. QED
      BY <1>1, <3>1, <3>2
  <2>2. ASSUME NEW v \in granted' PROVE v[2] <= disk'[v[3]].currentTerm
    <3>1. v[2] <= disk[v[3]].currentTerm
      BY DEF TallyInv, NoFutureTerm
    <3>. QED
      BY <1>1, <3>1
  <2>. QED
    BY <2>1, <2>2 DEF NoFutureTerm
<1>3. VoteFollowsRequest'
  <2>1. ASSUME NEW c \in rvCalls'
        PROVE  /\ ~c.done => <<c.to, c.Term, c.from>> \notin granted
               /\ c.done /\ c.reply.VoteGranted => <<c.to, c.Term, c.from>> \in granted
    <3>1. PICK d \in rvCalls : /\ c.from = d.from /\ c.to = d.to /\ c.Term = d.Term
                               /\ c.done = d.done /\ c.reply = d.reply
      OBVIOUS
    <3>. QED
      BY <3>1 DEF TallyInv, VoteFollowsRequest
  <2>. QED
    BY <2>1 DEF VoteFollowsRequest
<1>4. CountedAreVoters'
  <2>. SUFFICES ASSUME NEW s \in Server, rf'[s].role = "candidate"
                PROVE  rf'[s].voteCnt <= Cardinality(Heard(s)')
    BY DEF CountedAreVoters
  <2>1. rf[s].voteCnt <= Cardinality(Heard(s)) /\ rf[s].voteCnt \in Nat
    BY <1>1 DEF TallyInv, CountedAreVoters, RaftState
  <2>2. ASSUME NEW p, OnItsWay(s, p, rf[s].currentTerm)'
        PROVE  OnItsWay(s, p, rf[s].currentTerm)
    <3>1. PICK c \in rvCalls' : /\ c.from = s /\ c.to = p /\ c.Term = rf'[s].currentTerm
                                /\ c.done /\ c.reply.VoteGranted
      BY <2>2 DEF OnItsWay, IsCall
    <3>. QED
      BY <3>1 DEF OnItsWay, IsCall
  <2>3. Heard(s) \in SUBSET (Heard(s)') /\ Heard(s)' \in SUBSET Server
    BY <2>2 DEF Heard, Voters
  <2>. QED
    BY <2>1, <2>3, VotersFinite
<1>5. WonByQuorum'
  BY MajorityStays DEF TallyInv
<1>. QED
  BY <1>2, <1>3, <1>4, <1>5 DEF TallyInv

\* A handler that persists, has no part in an election and knows its place.
LEMMA SavedKeepsTally ==
    ASSUME RaftInv, RaftInv', TallyInv, NEW s \in Server, NEW g \in RaftState,
           VotesAsBefore(rf[s], g),
           rf' = [rf EXCEPT ![s] = g], disk' = [disk EXCEPT ![s] = Persistent(g)],
           rvCalls' = rvCalls, granted' = granted, won' = won
    PROVE  TallyInv'
<1>1. /\ rf \in [Server -> RaftState] /\ disk \in [Server -> DiskState]
      /\ Durable(disk[s], rf[s])
  BY DEF RaftInv, NodeInv, DurableState
<1>2. Persistent(g).currentTerm = g.currentTerm
  BY DEF Persistent
<1>3. disk[s].currentTerm \in Nat /\ rf[s].currentTerm \in Nat /\ g.currentTerm \in Nat
  BY <1>1 DEF RaftState, DiskState
<1>4. disk[s].currentTerm <= g.currentTerm
  BY <1>1, <1>3 DEF Durable, VotesAsBefore
<1>5. \A t \in Server : disk[t].currentTerm <= disk'[t].currentTerm
  BY <1>1, <1>2, <1>4 DEF DiskState
<1>6. \A t \in Server : rf'[t].role = "candidate" =>
         /\ rf[t].role = "candidate"
         /\ rf'[t].currentTerm = rf[t].currentTerm /\ rf'[t].voteCnt = rf[t].voteCnt
  BY <1>1 DEF VotesAsBefore
<1>7. AskedOnce'
  BY DEF TallyInv, AskedOnce
<1>. QED
  BY <1>5, <1>6, <1>7, QuietKeepsTally

\* Steps that touch neither a peer nor its votes.
LEMMA ElsewhereKeepsTally ==
    ASSUME RaftInv, RaftInv', TallyInv,
           UNCHANGED <<rf, disk, rvCalls, granted, won>>
    PROVE  TallyInv'
<1>1. \A s \in Server : disk[s].currentTerm <= disk'[s].currentTerm
  BY DEF RaftInv, NodeInv, DiskState
<1>2. AskedOnce'
  BY DEF TallyInv, AskedOnce
<1>. QED
  BY <1>1, <1>2, QuietKeepsTally

-----------------------------------------------------------------------------
(* The steps of an election *)

\* A new term: nobody was asked in it, and the only vote is the candidate's.
LEMMA ToCandidateKeepsTally ==
    ASSUME RaftInv, RaftInv', TallyInv, NEW s \in Server, ToCandidate(s)
    PROVE  TallyInv'
<1>. DEFINE g == Candidate(rf[s], s)
            t == g.currentTerm
            Request(p) == [from |-> s, to |-> p, live |-> TRUE, done |-> FALSE,
                           Term |-> t, LastLogIndex |-> LastIndex(g),
                           LastLogTerm |-> LastTerm(g), reply |-> NoVote]
<1>1. /\ rf \in [Server -> RaftState] /\ disk \in [Server -> DiskState]
      /\ Durable(disk[s], rf[s])
      /\ \A c \in rvCalls : c.from \in Server /\ c.Term \in Nat
      /\ \A v \in granted : v[2] \in Nat /\ v[3] \in Server
  BY DEF RaftInv, NodeInv, DurableState, VoteInv, CallInv, RequestVoteCall
<1>2. /\ t = rf[s].currentTerm + 1 /\ g.role = "candidate" /\ g.voteCnt = 1
      /\ g \in RaftState
  <2>1. rf[s] \in RaftState
    BY <1>1
  <2>2. t = rf[s].currentTerm + 1 /\ g \in RaftState
    BY <2>1, CandidateIn
  <2>3. g.role = "candidate" /\ g.voteCnt = 1
    BY <2>1 DEF Candidate, RaftState
  <2>. QED
    BY <2>2, <2>3
<1>3. /\ rf' = [rf EXCEPT ![s] = g] /\ disk' = [disk EXCEPT ![s] = Persistent(g)]
      /\ rvCalls' = rvCalls \cup {Request(p) : p \in Server \ {s}}
      /\ granted' = granted \cup {<<s, t, s>>} /\ won' = won
  BY DEF ToCandidate, Save
<1>4. Persistent(g).currentTerm = t
  BY DEF Persistent
<1>. HIDE DEF g
<1>5. /\ t \in Nat /\ rf[s].currentTerm \in Nat /\ disk[s].currentTerm \in Nat
      /\ disk[s].currentTerm < t
  <2>1. rf[s].currentTerm \in Nat /\ disk[s].currentTerm \in Nat
    BY <1>1 DEF RaftState, DiskState
  <2>2. disk[s].currentTerm <= rf[s].currentTerm
    BY <1>1, <2>1 DEF Durable
  <2>. QED
    BY <1>2, <2>1, <2>2
<1>. HIDE DEF t
<1>6. \A p : /\ Request(p).from = s /\ Request(p).to = p /\ Request(p).Term = t
             /\ ~Request(p).done
  OBVIOUS
<1>. HIDE DEF Request
<1>7. /\ \A c \in rvCalls : c.from = s => c.Term < t
      /\ \A v \in granted : v[3] = s => v[2] < t
  BY <1>1, <1>5 DEF TallyInv, NoFutureTerm
<1>8. AskedOnce'
  <2>. SUFFICES ASSUME NEW c \in rvCalls', NEW d \in rvCalls',
                       c.from = d.from, c.to = d.to, c.Term = d.Term
                PROVE  c = d
    BY DEF AskedOnce, IsCall
  <2>1. CASE c \in rvCalls /\ d \in rvCalls
    BY <2>1 DEF TallyInv, AskedOnce, IsCall
  <2>2. \A x \in rvCalls' : x \in rvCalls \/ (x = Request(x.to) /\ x.from = s /\ x.Term = t)
    BY <1>3, <1>6
  <2>3. \A x \in rvCalls : ~(x.from = s /\ x.Term = t)
    BY <1>1, <1>5, <1>7
  <2>. QED
    BY <2>1, <2>2, <2>3
<1>9. NoFutureTerm'
  <2>1. /\ \A p \in Server : disk[p].currentTerm <= disk'[p].currentTerm
        /\ \A p \in Server : disk[p].currentTerm \in Nat /\ disk'[p].currentTerm \in Nat
        /\ disk'[s].currentTerm = t
    BY <1>1, <1>3, <1>4, <1>5 DEF DiskState
  <2>2. ASSUME NEW c \in rvCalls' PROVE c.Term <= disk'[c.from].currentTerm
    <3>1. CASE c \in rvCalls
      BY <1>1, <2>1, <3>1 DEF TallyInv, NoFutureTerm
    <3>2. CASE c \notin rvCalls
      BY <1>3, <1>5, <1>6, <2>1, <3>2
    <3>. QED
      BY <3>1, <3>2
  <2>3. ASSUME NEW v \in granted' PROVE v[2] <= disk'[v[3]].currentTerm
    <3>1. CASE v \in granted
      BY <1>1, <2>1, <3>1 DEF TallyInv, NoFutureTerm
    <3>2. CASE v = <<s, t, s>>
      BY <1>5, <2>1, <3>2
    <3>. QED
      BY <1>3, <3>1, <3>2
  <2>. QED
    BY <2>2, <2>3 DEF NoFutureTerm
<1>10. VoteFollowsRequest'
  <2>1. ASSUME NEW c \in rvCalls'
        PROVE  /\ ~c.done => <<c.to, c.Term, c.from>> \notin granted'
               /\ c.done /\ c.reply.VoteGranted => <<c.to, c.Term, c.from>> \in granted'
    <3>1. CASE c \in rvCalls
      <4>1. <<c.to, c.Term, c.from>> # <<s, t, s>>
        BY <1>1, <1>5, <1>7, <3>1
      <4>. QED
        BY <1>3, <3>1, <4>1 DEF TallyInv, VoteFollowsRequest
    <3>2. ASSUME NEW p \in Server \ {s}, c = Request(p)
          PROVE  ~c.done /\ <<c.to, c.Term, c.from>> \notin granted'
      <4>1. ~c.done /\ c.to = p /\ c.Term = t /\ c.from = s
        BY <1>6, <3>2
      <4>2. <<p, t, s>> \notin granted
        BY <1>5, <1>7
      <4>. QED
        BY <1>3, <4>1, <4>2
    <3>. QED
      BY <1>3, <3>1, <3>2
  <2>. QED
    BY <2>1 DEF VoteFollowsRequest
<1>11. CountedAreVoters'
  <2>. SUFFICES ASSUME NEW q \in Server, rf'[q].role = "candidate"
                PROVE  rf'[q].voteCnt <= Cardinality(Heard(q)')
    BY DEF CountedAreVoters
  <2>1. CASE q = s
    <3>1. rf'[q].voteCnt = 1 /\ rf'[q].currentTerm = t
      BY <1>1, <1>2, <1>3, <2>1 DEF t
    <3>2. \A c \in rvCalls' : c.from = s /\ c.Term = t => ~c.done
      BY <1>1, <1>3, <1>5, <1>6, <1>7
    <3>3. s \in Heard(q)'
      BY <1>3, <2>1, <3>1, <3>2 DEF Heard, Voters, OnItsWay, IsCall
    <3>4. {s} \in SUBSET (Heard(q)') /\ Heard(q)' \in SUBSET Server
      BY <3>3 DEF Heard, Voters
    <3>5. Cardinality({s}) = 1
      BY FS_Singleton
    <3>. QED
      BY <3>1, <3>4, <3>5, VotersFinite
  <2>2. CASE q # s
    <3>1. rf'[q] = rf[q]
      BY <1>1, <1>3, <2>2
    <3>2. rf[q].voteCnt <= Cardinality(Heard(q)) /\ rf[q].voteCnt \in Nat
      BY <1>1, <3>1 DEF TallyInv, CountedAreVoters, RaftState
    <3>3. ASSUME NEW p, OnItsWay(q, p, rf[q].currentTerm)'
          PROVE  OnItsWay(q, p, rf[q].currentTerm)
      <4>1. PICK c \in rvCalls' : /\ c.from = q /\ c.to = p /\ c.Term = rf[q].currentTerm
                                  /\ c.done /\ c.reply.VoteGranted
        BY <3>1, <3>3 DEF OnItsWay, IsCall
      <4>2. c \in rvCalls
        BY <1>3, <1>6, <2>2, <4>1
      <4>. QED
        BY <4>1, <4>2 DEF OnItsWay, IsCall
    <3>4. Heard(q) \in SUBSET (Heard(q)') /\ Heard(q)' \in SUBSET Server
      BY <1>3, <3>1, <3>3 DEF Heard, Voters
    <3>. QED
      BY <3>1, <3>2, <3>4, VotersFinite
  <2>. QED
    BY <2>1, <2>2
<1>12. WonByQuorum'
  BY <1>3, MajorityStays DEF TallyInv
<1>. QED
  BY <1>8, <1>9, <1>10, <1>11, <1>12 DEF TallyInv

\* A server that is asked, and grants its vote or not.
LEMMA RequestVoteRequestKeepsTally ==
    ASSUME RaftInv, RaftInv', TallyInv, NEW c \in rvCalls, RequestVoteRequestHandler(c)
    PROVE  TallyInv'
<1>. DEFINE s == c.to
            g == Observe(rf[s], c.Term)
            grant == GrantsVote(g, c)
            h == [g EXCEPT !.votedFor = IF grant THEN c.from ELSE @]
            r == [Term |-> g.currentTerm, VoteGranted |-> grant]
            answer == [c EXCEPT !.done = TRUE, !.reply = r]
<1>1. /\ rf \in [Server -> RaftState] /\ disk \in [Server -> DiskState]
      /\ \A p \in Server : Durable(disk[p], rf[p])
      /\ c \in RequestVoteCall
      /\ \A d \in rvCalls : d.from \in Server /\ d.to \in Server /\ d.Term \in Nat
      /\ \A v \in granted : v[2] \in Nat /\ v[3] \in Server
  BY DEF RaftInv, NodeInv, DurableState, VoteInv, CallInv, RequestVoteCall
<1>2. s \in Server /\ c.from \in Server /\ c.Term \in Nat /\ rf[s] \in RaftState
  BY <1>1
<1>3. g \in RaftState /\ StandsAsBefore(rf[s], g)
  BY <1>2, ObserveIn, ToFollowerStands
<1>4. /\ ~c.done
      /\ rf' = [rf EXCEPT ![s] = h] /\ disk' = [disk EXCEPT ![s] = Persistent(h)]
      /\ rvCalls' = Answered(rvCalls, c, r)
      /\ granted' = granted \cup (IF grant THEN {<<s, g.currentTerm, c.from>>} ELSE {})
      /\ won' = won
  BY DEF RequestVoteRequestHandler, Save
<1>5. grant => g.currentTerm = c.Term
  <2>1. g.currentTerm >= c.Term
    BY <1>2, ObserveTerm
  <2>2. grant => g.currentTerm <= c.Term
    BY DEF GrantsVote
  <2>3. g.currentTerm \in Nat
    BY <1>3 DEF RaftState
  <2>. QED
    BY <1>2, <2>1, <2>2, <2>3
<1>6. h.role = g.role /\ h.currentTerm = g.currentTerm /\ h.voteCnt = g.voteCnt
  BY <1>3 DEF RaftState
<1>7. Persistent(h).currentTerm = g.currentTerm
  BY <1>6 DEF Persistent
<1>8. /\ answer.from = c.from /\ answer.to = c.to /\ answer.Term = c.Term
      /\ answer.done /\ answer.reply.VoteGranted = grant
  BY <1>1 DEF RequestVoteCall
<1>9. rvCalls' \subseteq (rvCalls \ {c}) \cup {answer}
  BY <1>4 DEF Answered
<1>. HIDE DEF g, grant, h, r, answer
<1>10. \A d \in rvCalls : d.from = c.from /\ d.to = c.to /\ d.Term = c.Term => d = c
  BY DEF TallyInv, AskedOnce, IsCall
<1>11. granted \subseteq granted' /\ granted' \subseteq granted \cup {<<s, c.Term, c.from>>}
          /\ (grant => <<s, c.Term, c.from>> \in granted')
  BY <1>4, <1>5
<1>12. <<s, c.Term, c.from>> \notin granted
  BY <1>4 DEF TallyInv, VoteFollowsRequest
<1>13. AskedOnce'
  <2>. SUFFICES ASSUME NEW x \in rvCalls', NEW y \in rvCalls',
                       x.from = y.from, x.to = y.to, x.Term = y.Term
                PROVE  x = y
    BY DEF AskedOnce, IsCall
  <2>1. CASE x \in rvCalls \ {c} /\ y \in rvCalls \ {c}
    BY <2>1 DEF TallyInv, AskedOnce, IsCall
  <2>2. CASE x = answer /\ y \in rvCalls \ {c}
    BY <1>8, <1>10, <2>2
  <2>3. CASE y = answer /\ x \in rvCalls \ {c}
    BY <1>8, <1>10, <2>3
  <2>. QED
    BY <1>9, <2>1, <2>2, <2>3
<1>14. NoFutureTerm'
  <2>1. /\ \A p \in Server : disk[p].currentTerm \in Nat /\ disk'[p].currentTerm \in Nat
        /\ \A p \in Server : disk[p].currentTerm <= disk'[p].currentTerm
    <3>1. disk[s].currentTerm \in Nat /\ rf[s].currentTerm \in Nat /\ g.currentTerm \in Nat
      BY <1>1, <1>2, <1>3 DEF RaftState, DiskState
    <3>2. disk[s].currentTerm <= g.currentTerm
      BY <1>1, <1>2, <1>3, <3>1 DEF Durable, StandsAsBefore, VotesAsBefore
    <3>. QED
      BY <1>1, <1>2, <1>4, <1>7, <3>1, <3>2 DEF DiskState
  <2>2. c.Term <= disk[c.from].currentTerm
    BY DEF TallyInv, NoFutureTerm
  <2>3. ASSUME NEW d \in rvCalls' PROVE d.Term <= disk'[d.from].currentTerm
    <3>1. CASE d \in rvCalls
      BY <1>1, <2>1, <3>1 DEF TallyInv, NoFutureTerm
    <3>2. CASE d = answer
      BY <1>2, <1>8, <2>1, <2>2, <3>2
    <3>. QED
      BY <1>9, <3>1, <3>2
  <2>4. ASSUME NEW v \in granted' PROVE v[2] <= disk'[v[3]].currentTerm
    <3>1. CASE v \in granted
      BY <1>1, <2>1, <3>1 DEF TallyInv, NoFutureTerm
    <3>2. CASE v = <<s, c.Term, c.from>>
      BY <1>2, <2>1, <2>2, <3>2
    <3>. QED
      BY <1>11, <3>1, <3>2
  <2>. QED
    BY <2>3, <2>4 DEF NoFutureTerm
<1>15. VoteFollowsRequest'
  <2>1. ASSUME NEW d \in rvCalls'
        PROVE  /\ ~d.done => <<d.to, d.Term, d.from>> \notin granted'
               /\ d.done /\ d.reply.VoteGranted => <<d.to, d.Term, d.from>> \in granted'
    <3>1. CASE d = answer
      BY <1>8, <1>11, <3>1
    <3>2. CASE d \in rvCalls \ {c}
      <4>1. <<d.to, d.Term, d.from>> # <<s, c.Term, c.from>>
        BY <1>10, <3>2
      <4>. QED
        BY <1>11, <3>2, <4>1 DEF TallyInv, VoteFollowsRequest
    <3>. QED
      BY <1>9, <3>1, <3>2
  <2>. QED
    BY <2>1 DEF VoteFollowsRequest
<1>16. CountedAreVoters'
  <2>. SUFFICES ASSUME NEW q \in Server, rf'[q].role = "candidate"
                PROVE  rf'[q].voteCnt <= Cardinality(Heard(q)')
    BY DEF CountedAreVoters
  <2>1. /\ rf[q].role = "candidate" /\ rf'[q].currentTerm = rf[q].currentTerm
        /\ rf'[q].voteCnt = rf[q].voteCnt
    BY <1>1, <1>2, <1>3, <1>4, <1>6 DEF StandsAsBefore, VotesAsBefore
  <2>2. rf[q].voteCnt <= Cardinality(Heard(q)) /\ rf[q].voteCnt \in Nat
    BY <1>1, <2>1 DEF TallyInv, CountedAreVoters, RaftState
  <2>3. ASSUME NEW p \in Heard(q) PROVE p \in Heard(q)'
    <3>1. /\ p \in Server /\ <<p, rf[q].currentTerm, q>> \in granted
          /\ ~OnItsWay(q, p, rf[q].currentTerm)
      BY DEF Heard, Voters
    <3>2. ASSUME NEW d \in rvCalls', d.from = q, d.to = p, d.Term = rf[q].currentTerm,
                 d.done, d.reply.VoteGranted
          PROVE  FALSE
      <4>1. CASE d \in rvCalls
        BY <3>1, <3>2, <4>1 DEF OnItsWay, IsCall
      <4>2. CASE d = answer
        BY <1>8, <1>12, <3>1, <3>2, <4>2
      <4>. QED
        BY <1>9, <4>1, <4>2
    <3>. QED
      BY <1>11, <2>1, <3>1, <3>2 DEF Heard, Voters, OnItsWay, IsCall
  <2>4. Heard(q) \in SUBSET (Heard(q)') /\ Heard(q)' \in SUBSET Server
    BY <2>3 DEF Heard, Voters
  <2>. QED
    BY <2>1, <2>2, <2>4, VotersFinite
<1>17. WonByQuorum'
  BY <1>4, <1>11, MajorityStays DEF TallyInv
<1>. QED
  BY <1>13, <1>14, <1>15, <1>16, <1>17 DEF TallyInv

\* A vote that is counted was on its way until now.
LEMMA RequestVoteResponseKeepsTally ==
    ASSUME RaftInv, RaftInv', TallyInv, NEW c \in rvCalls, RequestVoteResponseHandler(c)
    PROVE  TallyInv'
<1>. DEFINE s == c.from
            g == rf[s]
            h == AfterVoteReply(g, c, c.reply)
            t == g.currentTerm
<1>1. /\ rf \in [Server -> RaftState] /\ disk \in [Server -> DiskState]
      /\ \A p \in Server : Durable(disk[p], rf[p])
      /\ \A d \in rvCalls : d.from \in Server /\ d.to \in Server /\ d.Term \in Nat
      /\ c.reply.Term \in Nat
  BY DEF RaftInv, NodeInv, DurableState, CallInv, RequestVoteCall
<1>2. s \in Server /\ g \in RaftState /\ t \in Nat /\ g.voteCnt \in Nat
  BY <1>1 DEF RaftState
<1>3. /\ c.done /\ rf' = [rf EXCEPT ![s] = h] /\ disk' = disk
      /\ rvCalls' = rvCalls \ {c} /\ granted' = granted
      /\ won' = won \cup (IF WinsWith(g, h) THEN {<<s, h.currentTerm>>} ELSE {})
  BY DEF RequestVoteResponseHandler
\* The reply is counted, or the peer stands as before.
<1>4. \/ /\ g.role = "candidate" /\ h = [g EXCEPT !.voteCnt = @ + 1]
         /\ c.Term = t /\ c.reply.VoteGranted
      \/ StandsAsBefore(g, h) /\ h.voteCnt = g.voteCnt
  <2>1. c.Term <= t
    <3>1. disk[s].currentTerm \in Nat
      BY <1>1, <1>2 DEF DiskState
    <3>2. c.Term <= disk[s].currentTerm
      BY DEF TallyInv, NoFutureTerm
    <3>3. disk[s].currentTerm <= t
      BY <1>1, <1>2, <3>1 DEF Durable
    <3>. QED
      BY <1>1, <1>2, <3>1, <3>2, <3>3
  <2>2. CASE h = g
    BY <1>2, <2>2, StandsSame
  <2>3. CASE h = ToFollower(g, c.reply.Term)
    <3>1. ToFollower(g, c.reply.Term).voteCnt = g.voteCnt
      BY <1>2 DEF ToFollower, RaftState
    <3>. QED
      BY <1>1, <1>2, <2>3, <3>1, ToFollowerStands
  <2>4. CASE /\ CountsReply(g, c, c.reply) /\ c.reply.VoteGranted
             /\ h = [g EXCEPT !.voteCnt = @ + 1]
    BY <1>1, <1>2, <2>1, <2>4 DEF CountsReply
  <2>. QED
    BY <2>2, <2>3, <2>4 DEF AfterVoteReply
<1>. HIDE DEF h
<1>5. AskedOnce' /\ NoFutureTerm' /\ VoteFollowsRequest'
  BY <1>3 DEF TallyInv, AskedOnce, NoFutureTerm, VoteFollowsRequest
<1>6. \A q \in Server : Heard(q)' \in SUBSET Server
  BY DEF Heard, Voters
<1>7. ASSUME NEW q \in Server, rf'[q].currentTerm = rf[q].currentTerm
      PROVE  Heard(q) \in SUBSET (Heard(q)')
  BY <1>3, <1>7 DEF Heard, Voters, OnItsWay
<1>8. CountedAreVoters'
  <2>. SUFFICES ASSUME NEW q \in Server, rf'[q].role = "candidate"
                PROVE  rf'[q].voteCnt <= Cardinality(Heard(q)')
    BY DEF CountedAreVoters
  <2>1. CASE q # s \/ StandsAsBefore(g, h)
    <3>1. /\ rf[q].role = "candidate" /\ rf'[q].currentTerm = rf[q].currentTerm
          /\ rf'[q].voteCnt = rf[q].voteCnt
      BY <1>1, <1>2, <1>3, <2>1 DEF StandsAsBefore, VotesAsBefore
    <3>2. rf[q].voteCnt <= Cardinality(Heard(q)) /\ rf[q].voteCnt \in Nat
      BY <1>1, <3>1 DEF TallyInv, CountedAreVoters, RaftState
    <3>. QED
      BY <1>6, <1>7, <3>1, <3>2, VotersFinite
  <2>2. CASE /\ q = s /\ g.role = "candidate" /\ h = [g EXCEPT !.voteCnt = @ + 1]
             /\ c.Term = t /\ c.reply.VoteGranted
    <3>1. rf'[s].voteCnt = g.voteCnt + 1 /\ rf'[s].currentTerm = t
      BY <1>1, <1>2, <1>3, <2>2 DEF RaftState
    <3>2. g.voteCnt <= Cardinality(Heard(s))
      BY <1>2, <2>2 DEF TallyInv, CountedAreVoters
    <3>3. c.to \notin Heard(s)
      BY <1>3, <2>2 DEF Heard, OnItsWay, IsCall
    <3>4. c.to \in Heard(s)'
      <4>1. c.to \in Server /\ <<c.to, t, s>> \in granted
        BY <1>1, <1>3, <2>2 DEF TallyInv, VoteFollowsRequest
      <4>2. \A d \in rvCalls' : ~IsCall(d, s, c.to, t)
        BY <1>3, <2>2 DEF TallyInv, AskedOnce, IsCall
      <4>. QED
        BY <1>3, <3>1, <4>1, <4>2 DEF Heard, Voters, OnItsWay
    <3>5. Heard(s) \cup {c.to} \in SUBSET (Heard(s)') /\ Heard(s) \in SUBSET Server
      BY <1>2, <1>7, <3>1, <3>4 DEF Heard, Voters
    <3>6. IsFiniteSet(Heard(s)) /\ Cardinality(Heard(s)) \in Nat
      BY <3>5, VotersFinite
    <3>7. Cardinality(Heard(s) \cup {c.to}) = Cardinality(Heard(s)) + 1
      BY <3>3, <3>6, FS_AddElement
    <3>8. /\ Cardinality(Heard(s) \cup {c.to}) <= Cardinality(Heard(s)')
          /\ Cardinality(Heard(s)') \in Nat
      BY <1>2, <1>6, <3>5, VotersFinite
    <3>. QED
      BY <1>2, <2>2, <3>1, <3>2, <3>6, <3>7, <3>8
  <2>. QED
    BY <1>4, <2>1, <2>2
<1>9. WonByQuorum'
  <2>. SUFFICES ASSUME NEW w \in won'
                PROVE  IsQuorum(Cardinality({p \in Server : <<p, w[2], w[1]>> \in granted}))
    BY <1>3 DEF WonByQuorum, Voters, IsQuorum
  <2>1. CASE w \in won
    BY <2>1 DEF TallyInv, WonByQuorum, Voters
  <2>2. CASE w = <<s, h.currentTerm>> /\ WinsWith(g, h)
    <3>1. g.role = "candidate" /\ h = [g EXCEPT !.voteCnt = @ + 1]
      BY <1>2, <1>4, <2>2 DEF WinsWith
    <3>2. rf'[s] = h /\ h.role = "candidate" /\ h.voteCnt \in Nat
      <4>1. rf'[s] = h
        BY <1>1, <1>2, <1>3
      <4>2. g.voteCnt + 1 \in Nat
        BY <1>2
      <4>3. h.role = g.role /\ h.voteCnt = g.voteCnt + 1
        BY <1>2, <3>1 DEF RaftState
      <4>. QED
        BY <3>1, <4>1, <4>2, <4>3
    <3>3. h.voteCnt <= Cardinality(Heard(s)')
      BY <1>2, <1>8, <3>2 DEF CountedAreVoters
    <3>. DEFINE V == {p \in Server : <<p, w[2], w[1]>> \in granted}
    <3>4. Heard(s)' \in SUBSET V /\ V \in SUBSET Server
      BY <1>3, <2>2, <3>2 DEF Heard, Voters
    <3>. HIDE DEF V
    <3>5. /\ Cardinality(Heard(s)') <= Cardinality(V)
          /\ Cardinality(Heard(s)') \in Nat /\ Cardinality(V) \in Nat
      BY <3>4, VotersFinite
    <3>6. IsQuorum(h.voteCnt)
      BY <2>2 DEF WinsWith
    <3>7. IsQuorum(Cardinality(V))
      BY <3>2, <3>3, <3>5, <3>6, QuorumGrows
    <3>. QED
      BY <3>7 DEF V
  <2>. QED
    BY <1>3, <2>1, <2>2
<1>. QED
  BY <1>5, <1>8, <1>9 DEF TallyInv

\* A crash turns calls into orphans and the candidate into a follower.
LEMMA RestartKeepsTally ==
    ASSUME RaftInv, RaftInv', TallyInv, NEW s \in Server, Restart(s)
    PROVE  TallyInv'
<1>1. /\ rf \in [Server -> RaftState] /\ disk \in [Server -> DiskState]
      /\ rvCalls \subseteq RequestVoteCall
  BY DEF RaftInv, NodeInv, CallInv
<1>2. /\ rf' = [rf EXCEPT ![s] = Booted(disk[s])] /\ disk' = disk
      /\ rvCalls' = Orphaned(rvCalls, s) /\ granted' = granted /\ won' = won
  BY DEF Restart, history
<1>3. \A q \in Server : rf'[q].role = "candidate" => q # s /\ rf'[q] = rf[q]
  <2>1. Booted(disk[s]).role = "follower"
    BY DEF Booted
  <2>. QED
    BY <1>1, <1>2, <2>1
<1>4. \A q \in Server : disk[q].currentTerm <= disk'[q].currentTerm
  BY <1>1, <1>2 DEF DiskState
<1>. DEFINE Orphan(d) == [d EXCEPT !.live = FALSE]
<1>5. \A d \in rvCalls : /\ Orphan(d).from = d.from /\ Orphan(d).to = d.to
                         /\ Orphan(d).Term = d.Term /\ Orphan(d).done = d.done
                         /\ Orphan(d).reply = d.reply
  BY <1>1 DEF RequestVoteCall
<1>6. \A c \in rvCalls' : \E d \in rvCalls :
         \/ c = d /\ d.from # s
         \/ c = Orphan(d) /\ d.from = s
  BY <1>2 DEF Orphaned
<1>. HIDE DEF Orphan
<1>7. \A c \in rvCalls' : \E d \in rvCalls :
         /\ c.from = d.from /\ c.to = d.to /\ c.Term = d.Term
         /\ c.done = d.done /\ c.reply = d.reply
  BY <1>5, <1>6
<1>8. AskedOnce'
  <2>. SUFFICES ASSUME NEW x \in rvCalls', NEW y \in rvCalls',
                       x.from = y.from, x.to = y.to, x.Term = y.Term
                PROVE  x = y
    BY DEF AskedOnce, IsCall
  <2>1. PICK a \in rvCalls : (x = a /\ a.from # s) \/ (x = Orphan(a) /\ a.from = s)
    BY <1>6
  <2>2. PICK b \in rvCalls : (y = b /\ b.from # s) \/ (y = Orphan(b) /\ b.from = s)
    BY <1>6
  <2>3. a = b
    BY <1>5, <2>1, <2>2 DEF TallyInv, AskedOnce, IsCall
  <2>. QED
    BY <2>1, <2>2, <2>3
<1>. QED
  BY <1>2, <1>3, <1>4, <1>7, <1>8, QuietKeepsTally

(***************************************************************************)
(* All other handlers, on both sides of a call: whatever they do to log    *)
(* and role, a candidate that is still one has its term and its count.     *)
(***************************************************************************)
LEMMA DeliveriesKeepTally ==
    ASSUME RaftInv, RaftInv', TallyInv, Deliveries
    PROVE  TallyInv'
<1>1. /\ rf \in [Server -> RaftState] /\ disk \in [Server -> DiskState]
      /\ service \in [Server -> Seq(Command)]
      /\ aeCalls \subseteq AppendEntriesCall /\ isCalls \subseteq InstallSnapshotCall
  BY DEF RaftInv, NodeInv, CallInv
<1>2. ASSUME NEW c \in aeCalls, AppendEntriesRequestHandler(c) PROVE TallyInv'
  <2>. DEFINE s == c.to
              g == ToFollower(rf[s], c.Term)
              answer == FollowerHandleLog(g.log, g.snapshotIndex, c)
              out == FollowerAfter(g, service[s], answer, c.LeaderCommit)
  <2>1. /\ s \in Server /\ c.Term \in Nat /\ c.LeaderCommit \in LogIndex
        /\ c.PrevLogIndex \in Int /\ c.Entries \in Seq(LogEntry)
        /\ rf[s] \in RaftState /\ service[s] \in Seq(Command)
    BY <1>1 DEF AppendEntriesCall
  <2>2. g \in RaftState /\ StandsAsBefore(rf[s], g)
    BY <2>1, ToFollowerIn, ToFollowerStands
  <2>3. \/ Save(s, rf[s])
        \/ Finish(s, out)
    BY <1>2 DEF AppendEntriesRequestHandler
  <2>4. rvCalls' = rvCalls /\ granted' = granted /\ won' = won
    BY <1>2 DEF AppendEntriesRequestHandler
  <2>. HIDE DEF g
  <2>5. g.log \in Seq(LogEntry) /\ g.snapshotIndex \in LogIndex
    BY <2>2 DEF RaftState
  <2>6. answer.log \in Seq(LogEntry)
    BY <2>1, <2>5, FollowerHandleLogIn
  <2>. HIDE DEF answer
  <2>7. out.g \in RaftState /\ StandsAsBefore(g, out.g)
    BY <2>1, <2>2, <2>6, FollowerAfterIn, FollowerAfterStands DEF OutcomeState
  <2>. HIDE DEF out
  <2>8. StandsAsBefore(rf[s], out.g) /\ StandsAsBefore(rf[s], rf[s])
    BY <2>1, <2>2, <2>7, StandsTrans, StandsSame
  <2>9. CASE Save(s, rf[s])
    BY <2>1, <2>4, <2>8, <2>9, SavedKeepsTally DEF StandsAsBefore, Save
  <2>10. CASE Finish(s, out)
    BY <2>1, <2>4, <2>7, <2>8, <2>10, SavedKeepsTally DEF StandsAsBefore, Finish
  <2>. QED
    BY <2>3, <2>9, <2>10
<1>3. ASSUME NEW c \in aeCalls, NEW r \in Returns(c, NoAnswer), AppendEntriesResponseHandler(c, r)
      PROVE  TallyInv'
  <2>. DEFINE s == c.from
              g == AfterAppendReply(rf[s], c, r)
  <2>1. c \in AppendEntriesCall /\ s \in Server /\ rf[s] \in RaftState
    BY <1>1 DEF AppendEntriesCall
  <2>2. r.Term \in Nat /\ r.XIndex \in Int
    <3>1. c.reply.Term \in Nat /\ c.reply.XIndex \in Int
      BY <2>1 DEF AppendEntriesCall
    <3>2. NoAnswer.Term \in Nat /\ NoAnswer.XIndex \in Int
      BY DEF NoAnswer, Refusal
    <3>. QED
      BY <3>1, <3>2 DEF Returns
  <2>3. g \in RaftState /\ StandsAsBefore(rf[s], g)
    BY <2>1, <2>2, AfterAppendReplyIn, AppendReplyStands
  <2>4. Save(s, g) /\ rvCalls' = rvCalls /\ granted' = granted /\ won' = won
    BY <1>3 DEF AppendEntriesResponseHandler, history
  <2>. HIDE DEF g
  <2>. QED
    BY <2>1, <2>3, <2>4, SavedKeepsTally DEF StandsAsBefore, Save
<1>4. ASSUME NEW c \in isCalls, InstallSnapshotRequestHandler(c) PROVE TallyInv'
  <2>. DEFINE s == c.to
              out == InstallOutcome(rf[s], service[s], c)
  <2>1. /\ c \in InstallSnapshotCall /\ s \in Server
        /\ rf[s] \in RaftState /\ service[s] \in Seq(Command)
        /\ Covered(rf[s]) /\ Len(c.Snapshot) = c.LastIncludedIndex + 1
    BY <1>1 DEF InstallSnapshotCall, RaftInv, NodeInv, CallInv
  <2>2. out.g \in RaftState /\ StandsAsBefore(rf[s], out.g)
    BY <2>1, InstallOutcomeIn, InstallStands DEF OutcomeState
  <2>3. Finish(s, out) /\ rvCalls' = rvCalls /\ granted' = granted /\ won' = won
    BY <1>4 DEF InstallSnapshotRequestHandler, history
  <2>. HIDE DEF out
  <2>. QED
    BY <2>1, <2>2, <2>3, SavedKeepsTally DEF StandsAsBefore, Finish
<1>5. ASSUME NEW c \in isCalls, NEW r \in Returns(c, NoInstall), InstallSnapshotResponseHandler(c, r)
      PROVE  TallyInv'
  <2>. DEFINE s == c.from
              g == AfterInstallReply(rf[s], c, r)
  <2>1. c \in InstallSnapshotCall /\ s \in Server /\ rf[s] \in RaftState
    BY <1>1 DEF InstallSnapshotCall
  <2>2. r \in [Term : Nat]
    BY <2>1 DEF InstallSnapshotCall, NoInstall, Returns
  <2>3. g \in RaftState /\ StandsAsBefore(rf[s], g)
    BY <2>1, <2>2, AfterInstallReplyIn, InstallReplyStands
  <2>4. Save(s, g) /\ rvCalls' = rvCalls /\ granted' = granted /\ won' = won
    BY <1>5 DEF InstallSnapshotResponseHandler, history
  <2>. HIDE DEF g
  <2>. QED
    BY <2>1, <2>3, <2>4, SavedKeepsTally DEF StandsAsBefore, Save
<1>. QED
  BY <1>2, <1>3, <1>4, <1>5, RequestVoteRequestKeepsTally, RequestVoteResponseKeepsTally
     DEF Deliveries

\* The steps a server takes by itself.
LEMMA ServerStepKeepsTally ==
    ASSUME RaftInv, RaftInv', TallyInv, NEW s \in Server, ServerStep(s)
    PROVE  TallyInv'
<1>1. /\ rf[s] \in RaftState /\ service[s] \in Seq(Command)
      /\ rf \in [Server -> RaftState] /\ Covered(rf[s])
  BY DEF RaftInv, NodeInv
<1>2. CASE ToLeader(s)
  <2>1. Leader(rf[s], s) \in RaftState
    BY <1>1, LeaderIn
  <2>. DEFINE g == rf[s]
  <2>2. Leader(g, s).role = "leader" /\ Leader(g, s).currentTerm = g.currentTerm
    BY <1>1 DEF Leader, RaftState
  <2>3. g.currentTerm \in Nat
    BY <1>1 DEF RaftState
  <2>4. VotesAsBefore(g, Leader(g, s))
    <3>. HIDE DEF g
    <3>. QED
      BY <2>2, <2>3 DEF VotesAsBefore
  <2>. QED
    BY <1>2, <2>1, <2>4, SavedKeepsTally DEF ToLeader, Save, calls
<1>3. CASE LeaderTickerCheck(s)
  BY <1>3, ElsewhereKeepsTally DEF LeaderTickerCheck, node, calls, history
<1>4. CASE LeaderUpdateCommitIndex(s)
  <2>1. PICK n \in {rf[s].matchIndex[p] : p \in Server} :
                Finish(s, AfterCommitCheck(rf[s], service[s], n))
    BY <1>4 DEF LeaderUpdateCommitIndex
  <2>2. n \in Int
    BY <1>1 DEF RaftState
  <2>. DEFINE out == AfterCommitCheck(rf[s], service[s], n)
  <2>3. out.g \in RaftState /\ StandsAsBefore(rf[s], out.g)
    BY <1>1, <2>2, AfterCommitCheckIn, CommitCheckStands DEF OutcomeState
  <2>4. rvCalls' = rvCalls /\ granted' = granted /\ won' = won
    BY <1>4 DEF LeaderUpdateCommitIndex, calls
  <2>. HIDE DEF out
  <2>. QED
    BY <2>1, <2>3, <2>4, SavedKeepsTally DEF StandsAsBefore, Finish, out
<1>5. ASSUME LeaderSendAppendEntriesRPC(s), granted' = granted, won' = won PROVE TallyInv'
  BY <1>5, ElsewhereKeepsTally DEF LeaderSendAppendEntriesRPC, node, calls
<1>6. ASSUME NEW command \in Command, Start(s, command) PROVE TallyInv'
  <2>1. WithCommand(rf[s], s, command) \in RaftState
           /\ StandsAsBefore(rf[s], WithCommand(rf[s], s, command))
    BY <1>1, WithCommandIn, LeaderStands
  <2>. QED
    BY <1>6, <2>1, SavedKeepsTally DEF StandsAsBefore, Start, Save, calls, history
<1>7. ASSUME NEW i \in 1..Len(service[s]), Snapshot(s, i - 1) PROVE TallyInv'
  <2>. DEFINE out == AfterSnapshot(rf[s], service[s], i - 1)
  <2>1. i - 1 \in Nat /\ (i - 1) + 1 <= Len(service[s])
    BY <1>1, <1>7
  <2>2. out.g \in RaftState /\ StandsAsBefore(rf[s], out.g)
    BY <1>1, <2>1, AfterSnapshotIn, SnapshotStands DEF OutcomeState
  <2>3. Finish(s, out) /\ rvCalls' = rvCalls /\ granted' = granted /\ won' = won
    BY <1>7 DEF Snapshot, calls, history
  <2>. HIDE DEF out
  <2>. QED
    BY <2>2, <2>3, SavedKeepsTally DEF StandsAsBefore, Finish
<1>8. CASE LeaderTickerSend(s) \/ StartSend(s)
  BY <1>5, <1>8 DEF LeaderTickerSend, StartSend
<1>. QED
  BY <1>2, <1>3, <1>4, <1>6, <1>7, <1>8, ToCandidateKeepsTally, RestartKeepsTally DEF ServerStep

-----------------------------------------------------------------------------
\* Votes are counted right in every behaviour.
THEOREM TallyInvariant == Spec => [](RaftInv /\ TallyInv)
<1>1. Init => RaftInv /\ TallyInv
  <2>1. Init => RaftInv
    BY InitKeeps
  <2>2. ASSUME Init PROVE TallyInv
    <3>1. \A s \in Server : rf[s].role # "candidate"
      BY <2>2 DEF Init, Booted
    <3>2. rvCalls = {} /\ granted = {} /\ won = {}
      BY <2>2 DEF Init
    <3>. QED
      BY <3>1, <3>2 DEF TallyInv, AskedOnce, NoFutureTerm, VoteFollowsRequest,
                        CountedAreVoters, WonByQuorum
  <2>. QED
    BY <2>1, <2>2
<1>2. ASSUME RaftInv, TallyInv, [Next]_vars PROVE RaftInv' /\ TallyInv'
  <2>1. RaftInv'
    BY <1>2, NextKeeps
  <2>2. CASE UNCHANGED vars
    BY <1>2, <2>1, <2>2, ElsewhereKeepsTally DEF vars, node, calls, history
  <2>3. CASE Next
    BY <1>2, <2>1, <2>3, DeliveriesKeepTally, ServerStepKeepsTally DEF Next
  <2>. QED
    BY <1>2, <2>1, <2>2, <2>3
<1>. QED
  BY <1>1, <1>2, PTL DEF Spec

(***************************************************************************)
(* Whoever counts itself the winner of a term has the votes of a majority  *)
(* in that term: no reply of another term, of an earlier instance or of    *)
(* the same voter counts twice, for any number of servers.                 *)
(***************************************************************************)
THEOREM WinnersHaveMajority == Spec => []WonByQuorum
<1>1. RaftInv /\ TallyInv => WonByQuorum
  BY DEF TallyInv
<1>. QED
  BY <1>1, TallyInvariant, PTL

\* Two majorities of the servers have a server in common.
LEMMA MajoritiesMeet ==
    ASSUME NEW A \in SUBSET Server, NEW B \in SUBSET Server,
           IsQuorum(Cardinality(A)), IsQuorum(Cardinality(B))
    PROVE  \E p \in Server : p \in A /\ p \in B
<1>1. /\ IsFiniteSet(Server) /\ Cardinality(Server) \in Nat
      /\ Cardinality(A) \in Nat /\ Cardinality(B) \in Nat
  <2>1. A \in SUBSET A /\ B \in SUBSET B
    OBVIOUS
  <2>. QED
    BY <2>1, ServerAssumption, VotersFinite, FS_CardinalityType
<1>2. Cardinality(A) + Cardinality(B) > Cardinality(Server)
  BY <1>1 DEF IsQuorum
<1>3. A \cap B # {}
  BY <1>1, <1>2, FS_MajoritiesIntersect
<1>. QED
  BY <1>3

(***************************************************************************)
(* In a history without the known races two servers never lead the same    *)
(* term: both would have won it, and a voter they share voted once.        *)
(***************************************************************************)
THEOREM OneLeaderInCleanHistories == Spec => []CleanElectionSafety
<1>1. ASSUME RaftInv, TallyInv PROVE CleanElectionSafety
  <2>. SUFFICES ASSUME CleanHistory, NEW a \in led, NEW b \in led, a[2] = b[2]
                PROVE  a[1] = b[1]
    BY DEF CleanElectionSafety, OneLeaderPerTerm
  <2>1. a \in won /\ b \in won
    BY DEF CleanHistory
  <2>2. /\ Voters(a[1], a[2]) \in SUBSET Server /\ Voters(b[1], b[2]) \in SUBSET Server
        /\ IsQuorum(Cardinality(Voters(a[1], a[2])))
        /\ IsQuorum(Cardinality(Voters(b[1], b[2])))
    BY <1>1, <2>1 DEF TallyInv, WonByQuorum, Voters
  <2>3. PICK p \in Server : p \in Voters(a[1], a[2]) /\ p \in Voters(b[1], b[2])
    BY <2>2, MajoritiesMeet
  <2>4. <<p, a[2], a[1]>> \in granted /\ <<p, a[2], b[1]>> \in granted
    BY <2>3 DEF Voters
  <2>. QED
    BY <2>4 DEF CleanHistory
<1>2. RaftInv /\ TallyInv => CleanElectionSafety
  BY <1>1
<1>. QED
  BY <1>2, TallyInvariant, PTL
=============================================================================
