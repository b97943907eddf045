--------------------------- MODULE RaftProperties ---------------------------
(***************************************************************************)
(* What the Raft peers promise.  Several of the promises of the paper do   *)
(* not hold for this code without a condition on the history; they come in *)
(* two forms, and the conditional form (Clean...) is the one that holds.   *)
(***************************************************************************)
EXTENDS Raft

\* The variables have the types of the Go declarations they stand for.
TypeOK ==
    /\ rf         \in [Server -> RaftState]
    /\ disk       \in [Server -> DiskState]
    /\ service    \in [Server -> Seq(Command)]
    /\ fault      \in [Server -> Fault]
    /\ goroutines \in [Server -> [Point -> Nat]]
    /\ rvCalls \subseteq RequestVoteCall
    /\ aeCalls \subseteq AppendEntriesCall
    /\ isCalls \subseteq InstallSnapshotCall
    /\ used \in [elections : Nat, commands : SUBSET Command, restarts : Nat, snapshots : Nat]
    /\ granted \subseteq Server \X Nat \X Server
    /\ won   \subseteq Server \X Nat
    /\ led   \subseteq Server \X Nat
    /\ strayed \subseteq Server \X Nat
    /\ overlaid \subseteq Server

\* Disk d has what a crash of peer g may not lose.
Durable(d, g) ==
    /\ d.log           = g.log
    /\ d.snapshot      = g.snapshot
    /\ d.snapshotIndex = g.snapshotIndex
    /\ d.snapshotTerm  = g.snapshotTerm
    /\ \/ d.currentTerm = g.currentTerm /\ d.votedFor = g.votedFor
       \/ d.currentTerm < g.currentTerm /\ g.votedFor = NoServer

(***************************************************************************)
(* What a crash may lose.  persist() is missing on one path (a vote reply  *)
(* with a larger term), so the disk may be behind in the term, but never   *)
(* in the log, the snapshot or a vote that was cast.                       *)
(***************************************************************************)
DurableState == \A s \in Server : Durable(disk[s], rf[s])

(***************************************************************************)
(* Across any crashes, the only server that can vote for two candidates in *)
(* a term is one that made itself leader in that term: toLeader clears     *)
(* votedFor and the RequestVote handler grants from any role.              *)
(***************************************************************************)
VoteOnceUnlessLed ==
    \A v, w \in granted :
        v[1] = w[1] /\ v[2] = w[2] /\ v[3] # w[3] => <<v[1], v[2]>> \in led

(***************************************************************************)
(* A vote is on the voter's disk until its term is over or it leads it.    *)
(***************************************************************************)
VoteRemembered ==
    \A v \in granted :
        LET d == disk[v[1]]
        IN  /\ v[2] <= d.currentTerm
            /\ v[2] = d.currentTerm => d.votedFor = v[3] \/ <<v[1], v[2]>> \in led

\* Who voted for s in term t.
Voters(s, t) == {p \in Server : <<p, t, s>> \in granted}

(***************************************************************************)
(* A candidate that counted itself the winner of a term has the votes of a *)
(* majority: no reply of another term, of an earlier instance or of the    *)
(* same voter is counted twice.                                            *)
(***************************************************************************)
WonByQuorum == \A w \in won : IsQuorum(Cardinality(Voters(w[1], w[2])))

(***************************************************************************)
(* What the code does not ensure and the paper's argument needs: nobody    *)
(* voted twice, every leader won the term it leads, only leaders sent      *)
(* entries or committed, and no stale AppendEntries from index 0 met a     *)
(* follower with a snapshot.  Once false it stays false.                   *)
(***************************************************************************)
CleanHistory ==
    /\ \A v, w \in granted : v[1] = w[1] /\ v[2] = w[2] => v[3] = w[3]
    /\ led \subseteq won
    /\ strayed = {}
    /\ overlaid = {}

\* Two servers never lead the same term, as checkOneLeader requires.
OneLeaderPerTerm == \A a, b \in led : a[2] = b[2] => a[1] = b[1]

\* Leaders are unique per term in every history without the known races.
CleanElectionSafety == CleanHistory => OneLeaderPerTerm

(***************************************************************************)
(* The logs of two servers that share an entry (index and term) agree on   *)
(* it and on everything before it that both still hold.                    *)
(***************************************************************************)
AgreeUpTo(a, b, n) ==
    \A x \in DOMAIN a, y \in DOMAIN b :
        a[x].Index = b[y].Index /\ a[x].Index <= n => a[x] = b[y]

LogMatching ==
    \A s, t \in Server :
        \A x \in DOMAIN rf[s].log, y \in DOMAIN rf[t].log :
            /\ rf[s].log[x].Index = rf[t].log[y].Index
            /\ rf[s].log[x].Term  = rf[t].log[y].Term
            => AgreeUpTo(rf[s].log, rf[t].log, rf[s].log[x].Index)

CleanLogMatching == CleanHistory => LogMatching

\* Services never disagree on the command at an index (checkLogs).
StateMachineSafety ==
    \A s, t \in Server :
        \A i \in 1..Smaller(Len(service[s]), Len(service[t])) : service[s][i] = service[t][i]

\* What the service that is furthest has applied.
Furthest ==
    LET of == {service[s] : s \in Server}
    IN  CHOOSE x \in of : \A y \in of : Len(y) <= Len(x)

Agreement == INSTANCE AgreedLog WITH Node <- Server, agreed <- Furthest, applied <- service

(***************************************************************************)
(* While nobody restarts or takes a snapshot, the peers implement one      *)
(* agreed log: no step of any of them takes back what a service applied,   *)
(* skips a command, or gives two services different ones, whichever leader *)
(* of which term committed them.                                           *)
(***************************************************************************)
ImplementsAgreedLog == Agreement!Spec

\* A log with its snapshot has this command as its i-th.
Holds(g, i, command) ==
    \/ i \in DOMAIN g.snapshot /\ g.snapshot[i] = command
    \/ \E x \in DOMAIN g.log : g.log[x].Index = i - 1 /\ g.log[x].Command = command

(***************************************************************************)
(* The newest leader holds everything any service has applied: votes are   *)
(* only given to candidates whose log is up to date, and only entries of   *)
(* the leader's own term are committed by counting.                        *)
(***************************************************************************)
LeaderCompleteness ==
    \A s \in Server :
        IsLeader(s) /\ (\A a \in led : a[2] <= rf[s].currentTerm) =>
            \A t \in Server : \A i \in DOMAIN service[t] : Holds(rf[s], i, service[t][i])

CleanLeaderCompleteness == CleanHistory => LeaderCompleteness

(***************************************************************************)
(* What any service has applied is on the disks of a majority, so that no  *)
(* crash of a minority can undo it.                                        *)
(***************************************************************************)
CommittedDurable ==
    \A s \in Server : \A i \in DOMAIN service[s] :
        IsQuorum(Cardinality({t \in Server : Holds(disk[t], i, service[s][i])}))

CleanCommittedDurable == CleanHistory => CommittedDurable

(***************************************************************************)
(* A snapshot holds exactly the commands up to its index, in memory, on    *)
(* disk and in flight: index and payload never get out of step.            *)
(***************************************************************************)
SnapshotCoversIndex ==
    /\ \A s \in Server : /\ Len(rf[s].snapshot) = rf[s].snapshotIndex + 1
                         /\ Len(disk[s].snapshot) = disk[s].snapshotIndex + 1
    /\ \A c \in isCalls : Len(c.Snapshot) = c.LastIncludedIndex + 1

(***************************************************************************)
(* What is committed is one sequence: up to its commitIndex every peer has *)
(* a command at every index, in its snapshot or its log, and no two peers  *)
(* have different ones there, whatever their services have been handed.    *)
(***************************************************************************)
CommitsAgree ==
    \A s \in Server : \A i \in 1..(rf[s].commitIndex + 1) :
        /\ \E c \in Command : Holds(rf[s], i, c)
        /\ \A t \in Server : i <= rf[t].commitIndex + 1 =>
             \A b, c \in Command : Holds(rf[s], i, b) /\ Holds(rf[t], i, c) => b = c

CleanCommitsAgree == CleanHistory => CommitsAgree

(***************************************************************************)
(* "These snapshots only advance the service's state" (notes.md:91): what  *)
(* a service has applied is taken back by nothing but a crash.             *)
(***************************************************************************)
ServicesOnlyAdvance ==
    [][\A s \in Server :
          used'.restarts = used.restarts => Len(service[s]) <= Len(service'[s])]_vars

(***************************************************************************)
(* No panic() and no index out of range while there is one leader: what    *)
(* the snapshot, batch and match code asserts about its log then holds,    *)
(* however calls and snapshots overtake each other, as long as no stale    *)
(* AppendEntries from index 0 meets a follower with a snapshot.            *)
(***************************************************************************)
OneLeaderNoPanic ==
    Cardinality(led) <= 1 /\ overlaid = {} => \A s \in Server : fault[s] # "panic"

(***************************************************************************)
(* "Make() must return quickly" (raft.go:287), whatever a crash has left   *)
(* on the disk: it must not wait for a buffer that nobody empties yet.     *)
(***************************************************************************)
MakeReturns == \A s \in Server : fault[s] # "blocked"

(***************************************************************************)
(* While a server runs, its commitIndex never moves back and no handler    *)
(* drops or replaces an entry at or below it, except into a snapshot.      *)
(***************************************************************************)
KeepsCommitted(g, h) ==
    /\ h.commitIndex >= g.commitIndex
    /\ \A x \in DOMAIN g.log :
         g.log[x].Index <= g.commitIndex =>
            \/ g.log[x].Index <= h.snapshotIndex
            \/ \E y \in DOMAIN h.log : h.log[y] = g.log[x]

CommittedStays ==
    [][CleanHistory' => \A s \in Server : used'.restarts = used.restarts => KeepsCommitted(rf[s], rf'[s])]_vars

(***************************************************************************)
(* An entry of the current term stays in the log while the term lasts,     *)
(* whatever older requests arrive: a matching request that is older than   *)
(* the log finds the log longer than what it brings, says                  *)
(* followerHandleLog.  The one exception is the case notes.md leaves open, *)
(* a request from index 0 on that meets a log cut by a snapshot.           *)
(***************************************************************************)
OnlyOverlaysDropEntries ==
    [][\A s \in Server : rf'[s].currentTerm = rf[s].currentTerm =>
          \/ s \in overlaid'
          \/ \A x \in DOMAIN rf[s].log : LET e == rf[s].log[x] IN
               e.Term = rf[s].currentTerm => Holds(rf'[s], e.Index + 1, e.Command)]_vars

\* Every log starts with the log of leader s, and every service has applied
\* all of it once its last entry is of the leader's own term.
FollowedByAll(s) ==
    \A t \in Server :
        /\ \A i \in DOMAIN rf[s].log : i \in DOMAIN rf[t].log /\ rf[t].log[i] = rf[s].log[i]
        /\ LastTerm(rf[s]) = rf[s].currentTerm => 
               service[t] = [i \in DOMAIN rf[s].log |-> rf[s].log[i].Command]
=============================================================================
