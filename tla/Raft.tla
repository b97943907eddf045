-------------------------------- MODULE Raft --------------------------------
(***************************************************************************)
(* The Raft peers of raft/: elections, log replication, commitment,        *)
(* persistence, snapshots and restarts, over a network that loses, delays  *)
(* and reorders calls.                                                     *)
(*                                                                         *)
(* Every method holds rf.mu from its first to its last access, so a method *)
(* is one action; where the code releases the lock between a check and the *)
(* step that relies on it, goroutines records the goroutine that is in     *)
(* between, and every other action may come first.                         *)
(***************************************************************************)
EXTENDS RaftLog

CONSTANTS
    Server,         \* the peers
    NoServer,       \* votedFor = -1
    MaxElections,   \* bounds: calls of toCandidate,
    MaxRestarts,    \*   crashes,
    MaxSnapshots,   \*   calls of Snapshot,
    MaxInFlight     \*   AppendEntries and InstallSnapshot calls at a time

ASSUME ServerAssumption == IsFiniteSet(Server) /\ NoServer \notin Server

ASSUME BoundAssumption ==
    /\ MaxElections \in Nat
    /\ MaxRestarts  \in Nat
    /\ MaxSnapshots \in Nat
    /\ MaxInFlight  \in Nat

VARIABLES
    rf,         \* rf[s]: the fields of the Raft struct
    disk,       \* disk[s]: what the Persister of s holds
    service,    \* service[s]: the commands the service of s has applied
    fault,      \* fault[s]: why s takes no more steps, or "none"
    goroutines, \* goroutines[s][p]: how many goroutines of s are at point p
    rvCalls,    \* RequestVote calls that have not returned
    aeCalls,    \* AppendEntries calls that have not returned
    isCalls,    \* InstallSnapshot calls that have not returned
    used        \* how much of each bound is used up

(***************************************************************************)
(* History, read by no action: the votes given, the elections won (voteCnt *)
(* reached a majority), the terms in which a server made itself leader,    *)
(* those in which it sent entries or committed without having done so, and *)
(* the servers that merged entries from index 0 on into a log which starts *)
(* after a snapshot.                                                       *)
(***************************************************************************)
VARIABLES granted, won, led, strayed, overlaid

node    == <<rf, disk, service, fault>>
calls   == <<rvCalls, aeCalls, isCalls>>
history == <<granted, won, led, strayed, overlaid>>
vars    == <<node, calls, goroutines, used, history>>

-----------------------------------------------------------------------------
(* The state of a peer *)

Role == {"follower", "candidate", "leader"}

RaftState ==
    [currentTerm : Nat, votedFor : Server \cup {NoServer}, log : Seq(LogEntry),
     commitIndex : LogIndex, role : Role, voteCnt : Nat,
     nextIndex : [Server -> Int], matchIndex : [Server -> Int],
     snapshot : Seq(Command), snapshotIndex : LogIndex, snapshotTerm : Nat]

DiskState ==
    [currentTerm : Nat, votedFor : Server \cup {NoServer}, log : Seq(LogEntry),
     snapshot : Seq(Command), snapshotIndex : LogIndex, snapshotTerm : Nat]

\* Where a goroutine can be while rf.mu is free: about to call toLeader, at
\* the role check of leaderTicker, at its leaderUpdateCommitIndex, at its
\* leaderSendAppendEntriesRPC, or at the one that ends Start.
Point == {"toLeader", "check", "commit", "send", "startSend"}

\* "panic": a panic or an index out of range; "applyError": the service was
\* given the wrong index; "blocked": Make waits forever for its own buffer.
Fault == {"none", "panic", "applyError", "blocked"}

Up(s) == fault[s] = "none"

\* Mutant of Persistent: the vote is not encoded.
PersistentWithoutVote(g) ==
    [currentTerm |-> g.currentTerm, votedFor |-> NoServer, log |-> g.log,
     snapshot |-> g.snapshot, snapshotIndex |-> g.snapshotIndex,
     snapshotTerm |-> g.snapshotTerm]

\* persist(): the fields that are encoded, saved together with the snapshot.
Persistent(g) ==
    [currentTerm |-> g.currentTerm, votedFor |-> g.votedFor, log |-> g.log,
     snapshot |-> g.snapshot, snapshotIndex |-> g.snapshotIndex,
     snapshotTerm |-> g.snapshotTerm]

\* Mutant of Booted: readPersist leaves the log empty.
BootedWithoutLog(d) ==
    [currentTerm |-> d.currentTerm, votedFor |-> d.votedFor, log |-> <<>>,
     commitIndex |-> d.snapshotIndex, role |-> "follower", voteCnt |-> 0,
     nextIndex |-> [p \in Server |-> 0], matchIndex |-> [p \in Server |-> -1],
     snapshot |-> d.snapshot, snapshotIndex |-> d.snapshotIndex,
     snapshotTerm |-> d.snapshotTerm]

\* Make(): fresh fields, then readPersist and readPersistSnapshot.
Booted(d) ==
    [currentTerm |-> d.currentTerm, votedFor |-> d.votedFor, log |-> d.log,
     commitIndex |-> d.snapshotIndex, role |-> "follower", voteCnt |-> 0,
     nextIndex |-> [p \in Server |-> 0], matchIndex |-> [p \in Server |-> -1],
     snapshot |-> d.snapshot, snapshotIndex |-> d.snapshotIndex,
     snapshotTerm |-> d.snapshotTerm]

NewDisk ==
    [currentTerm |-> 0, votedFor |-> NoServer, log |-> <<>>,
     snapshot |-> <<>>, snapshotIndex |-> -1, snapshotTerm |-> 0]

\* GetState()
IsLeader(s) == rf[s].role = "leader"

LastIndex(g) == LastLogIndex(g.log, g.snapshotIndex)
LastTerm(g)  == LastLogTerm(g.log, g.snapshotTerm)

IsQuorum(n) == n >= Cardinality(Server) \div 2 + 1

ToFollower(g, term) ==
    [g EXCEPT !.role        = "follower",
              !.votedFor    = IF g.currentTerm < term THEN NoServer ELSE @,
              !.currentTerm = IF @ < term THEN term ELSE @]

\* The part of toCandidate, RequestVote and the response handlers that is
\* common: step down if the other side's term is larger.
Observe(g, term) == IF g.currentTerm < term THEN ToFollower(g, term) ELSE g

-----------------------------------------------------------------------------
(* What a handler leaves behind *)

\* The peer, its service and its fault after a handler.
Outcome(g, svc, why) == [g |-> g, service |-> svc, fault |-> why]

\* The service takes the entries in order and insists on the next index.
Deliver(g, svc, batch) ==
    IF \A i \in DOMAIN batch : batch[i].Index = Len(svc) + i - 1
      THEN Outcome(g, svc \o [i \in DOMAIN batch |-> batch[i].Command], "none")
      ELSE Outcome(g, svc, "applyError")

\* Move commitIndex to cur and send what it newly covers to the service.
CommitTo(g, svc, cur) ==
    LET h == [g EXCEPT !.commitIndex = cur]
    IN  IF CanBatch(g.log, g.snapshotIndex, g.commitIndex, cur)
          THEN Deliver(h, svc, CommittedBatch(g.log, g.snapshotIndex, g.commitIndex, cur))
          ELSE Outcome(h, svc, "panic")

\* The handler of s ends and saves: its deferred persist() is part of it.
Finish(s, out) ==
    /\ rf'      = [rf EXCEPT ![s] = out.g]
    /\ disk'    = [disk EXCEPT ![s] = Persistent(out.g)]
    /\ service' = [service EXCEPT ![s] = out.service]
    /\ fault'   = [fault EXCEPT ![s] = out.fault]

Save(s, g) ==
    /\ rf'   = [rf EXCEPT ![s] = g]
    /\ disk' = [disk EXCEPT ![s] = Persistent(g)]
    /\ UNCHANGED <<service, fault>>

Spawn(s, p)   == goroutines' = [goroutines EXCEPT ![s][p] = @ + 1]
Exit(s, p)    == goroutines' = [goroutines EXCEPT ![s][p] = @ - 1]
Move(s, p, q) == goroutines' = [goroutines EXCEPT ![s][p] = @ - 1, ![s][q] = @ + 1]
At(s, p)      == Up(s) /\ goroutines[s][p] > 0

Use(what) == used' = [used EXCEPT ![what] = @ + 1]

-----------------------------------------------------------------------------
(* Calls.  A call is live while the instance that made it runs, done when  *)
(* it carries its reply; a call that fails returns the zero reply.         *)

Refusal(term) == [Term |-> term, Success |-> FALSE, XTerm |-> 0, XIndex |-> 0]

NoVote    == [Term |-> 0, VoteGranted |-> FALSE]
NoAnswer  == Refusal(0)
NoInstall == [Term |-> 0]

RequestVoteCall ==
    [from : Server, to : Server, live : BOOLEAN, done : BOOLEAN, Term : Nat,
     LastLogIndex : LogIndex, LastLogTerm : Nat,
     reply : [Term : Nat, VoteGranted : BOOLEAN]]

AppendEntriesCall ==
    [from : Server, to : Server, live : BOOLEAN, done : BOOLEAN, Term : Nat,
     PrevLogIndex : Int, PrevLogTerm : Nat, Entries : Seq(LogEntry),
     LeaderCommit : LogIndex,
     reply : [Term : Nat, Success : BOOLEAN, XTerm : Int, XIndex : Int]]

InstallSnapshotCall ==
    [from : Server, to : Server, live : BOOLEAN, done : BOOLEAN, Term : Nat,
     LastIncludedIndex : LogIndex, LastIncludedTerm : Nat, Snapshot : Seq(Command),
     reply : [Term : Nat]]

\* The server answers a request; nobody hears the answer to a dead instance.
Answered(cs, c, r) ==
    (cs \ {c}) \cup (IF c.live THEN {[c EXCEPT !.done = TRUE, !.reply = r]} ELSE {})

\* What Call() can hand to the response handler.
Returns(c, zero) == IF ~c.live THEN {} ELSE IF c.done THEN {c.reply, zero} ELSE {zero}

\* The instance of s is replaced: its calls will find nobody waiting.
Orphaned(cs, s) ==
    {c \in cs : c.from # s} \cup
    {[c EXCEPT !.live = FALSE] : c \in {d \in cs : d.from = s /\ ~d.done}}

\* The bound on calls in flight after a send.
FitsInFlight(ae, is) ==
    Cardinality({c \in ae : c.live}) + Cardinality({c \in is : c.live}) <= MaxInFlight

-----------------------------------------------------------------------------
Init ==
    /\ disk       = [s \in Server |-> NewDisk]
    /\ rf         = [s \in Server |-> Booted(NewDisk)]
    /\ service    = [s \in Server |-> <<>>]
    /\ fault      = [s \in Server |-> "none"]
    /\ goroutines = [s \in Server |-> [p \in Point |-> 0]]
    /\ rvCalls = {} /\ aeCalls = {} /\ isCalls = {}
    /\ used = [elections |-> 0, commands |-> {}, restarts |-> 0, snapshots |-> 0]
    /\ granted = {} /\ won = {} /\ led = {} /\ strayed = {} /\ overlaid = {}

-----------------------------------------------------------------------------
(* Elections *)

(***************************************************************************)
(* ticker reads role and the clock, unlocks, and only then calls           *)
(* toCandidate, which checks nothing.  The role is not "leader" right      *)
(* after every toCandidate and right after Make, so the check may always   *)
(* have been made before anything else happened: the step can find the     *)
(* peer in any role.                                                       *)
(***************************************************************************)
TickerFires(s) == Up(s)

Candidate(g, s) ==
    [g EXCEPT !.role = "candidate", !.currentTerm = @ + 1, !.votedFor = s, !.voteCnt = 1]

ToCandidate(s) ==
    LET g == Candidate(rf[s], s)
    IN  /\ TickerFires(s)
        /\ used.elections < MaxElections
        /\ Save(s, g)
        /\ rvCalls' = rvCalls \cup
             {[from |-> s, to |-> p, live |-> TRUE, done |-> FALSE,
               Term |-> g.currentTerm, LastLogIndex |-> LastIndex(g),
               LastLogTerm |-> LastTerm(g), reply |-> NoVote] : p \in Server \ {s}}
        /\ granted' = granted \cup {<<s, g.currentTerm, s>>}
        /\ Use("elections")
        /\ UNCHANGED <<aeCalls, isCalls, goroutines, won, led, strayed, overlaid>>

\* Mutant of LogUpToDate: no election restriction.
AnyLogUpToDate(g, args) == TRUE

\* The election restriction: the voter's log is not ahead of the candidate's.
LogUpToDate(g, args) ==
    \/ LastTerm(g) < args.LastLogTerm
    \/ LastTerm(g) = args.LastLogTerm /\ LastIndex(g) <= args.LastLogIndex

\* Mutant of GrantsVote: votedFor is not looked at.
GrantsVoteAgain(g, args) == g.currentTerm <= args.Term /\ LogUpToDate(g, args)

(***************************************************************************)
(* A leader fills in a refusal and goes on: the role decides nothing.      *)
(***************************************************************************)
GrantsVote(g, args) ==
    /\ g.currentTerm <= args.Term
    /\ g.votedFor = NoServer
    /\ LogUpToDate(g, args)

RequestVoteRequestHandler(c) ==
    LET s == c.to
        g == Observe(rf[s], c.Term)
        grant == GrantsVote(g, c)
    IN  /\ Up(s) /\ ~c.done
        /\ Save(s, [g EXCEPT !.votedFor = IF grant THEN c.from ELSE @])
        /\ rvCalls' = Answered(rvCalls, c, [Term |-> g.currentTerm, VoteGranted |-> grant])
        /\ granted' = granted \cup (IF grant THEN {<<s, g.currentTerm, c.from>>} ELSE {})
        /\ UNCHANGED <<aeCalls, isCalls, goroutines, used, won, led, strayed, overlaid>>

(***************************************************************************)
(* A reply counts for a candidate of the same term; a larger term demotes  *)
(* it, without persist().  The winner unlocks before it calls toLeader.    *)
(* The zero reply of a failed call (Term 0) has no effect on a candidate,  *)
(* whose term is at least 1: a failed call is one that stays in flight.    *)
(***************************************************************************)
\* Mutant of CountsReply: a reply from an earlier election counts.
CountsStaleReply(g, c, reply) == g.role = "candidate"

CountsReply(g, c, reply) ==
    g.role = "candidate" /\ g.currentTerm <= reply.Term /\ g.currentTerm <= c.Term

\* Mutant of AfterVoteReply: refusals count as votes.
AfterAnyReply(g, c, reply) ==
    IF ~CountsReply(g, c, reply)       THEN g
    ELSE IF g.currentTerm < reply.Term THEN ToFollower(g, reply.Term)
    ELSE [g EXCEPT !.voteCnt = @ + 1]

AfterVoteReply(g, c, reply) ==
    IF ~CountsReply(g, c, reply)       THEN g
    ELSE IF g.currentTerm < reply.Term THEN ToFollower(g, reply.Term)
    ELSE IF reply.VoteGranted          THEN [g EXCEPT !.voteCnt = @ + 1]
    ELSE g

WinsWith(g, h) == h.voteCnt > g.voteCnt /\ IsQuorum(h.voteCnt)

RequestVoteResponseHandler(c) ==
    LET s == c.from
        g == rf[s]
        h == AfterVoteReply(g, c, c.reply)
        wins == WinsWith(g, h)
    IN  /\ Up(s) /\ c.done
        /\ rf' = [rf EXCEPT ![s] = h]
        /\ goroutines' = IF wins THEN [goroutines EXCEPT ![s]["toLeader"] = @ + 1]
                                 ELSE goroutines
        /\ won' = won \cup (IF wins THEN {<<s, h.currentTerm>>} ELSE {})
        /\ rvCalls' = rvCalls \ {c}
        /\ UNCHANGED <<disk, service, fault, aeCalls, isCalls, used,
                       granted, led, strayed, overlaid>>

\* Mutant of Leader: the slices have no slot for the leader itself.
LeaderWithoutOwnSlot(g, s) ==
    [g EXCEPT !.role       = "leader",
              !.nextIndex  = [p \in Server \ {s} |-> LastIndex(g) + 1],
              !.matchIndex = [p \in Server \ {s} |-> -1],
              !.votedFor   = NoServer]

\* toLeader takes the lock again and looks at neither role nor term.
Leader(g, s) ==
    [g EXCEPT !.role       = "leader",
              !.nextIndex  = [p \in Server |-> LastIndex(g) + 1],
              !.matchIndex = [p \in Server |-> IF p = s THEN LastIndex(g) ELSE -1],
              !.votedFor   = NoServer]

ToLeader(s) ==
    /\ At(s, "toLeader")
    /\ Save(s, Leader(rf[s], s))
    /\ Move(s, "toLeader", "commit")
    /\ led' = led \cup {<<s, rf[s].currentTerm>>}
    /\ UNCHANGED <<calls, used, granted, won, strayed, overlaid>>

-----------------------------------------------------------------------------
(* The leader's loop and Start *)

(***************************************************************************)
(* leaderTicker looks at the role, unlocks, and does a round.  While s is  *)
(* leader the check of the next round may be made as soon as a round ends  *)
(* (NextRound); a goroutine that ends a round after its server was demoted *)
(* has its check ahead of it, and survives if the server leads again.      *)
(***************************************************************************)
NextRound(s) == IF IsLeader(s) THEN "commit" ELSE "check"

LeaderTickerCheck(s) ==
    /\ At(s, "check")
    /\ IF IsLeader(s) THEN Move(s, "check", "commit") ELSE Exit(s, "check")
    /\ UNCHANGED <<node, calls, used, history>>

\* s acts as a leader now: the term it does so in, if it never led it.
Stray(s) == {<<s, rf[s].currentTerm>>} \ led

(***************************************************************************)
(* leaderUpdateCommitIndex: the index a majority has reached, if it is new *)
(* and of the current term.  An index that is not in the log is fatal.     *)
(***************************************************************************)
MayCommit(g, n) == n # -1 /\ n > g.commitIndex

AfterCommitCheck(g, svc, n) ==
    IF (g.log = <<>> /\ g.snapshotIndex = -1) \/ ~MayCommit(g, n)
      THEN Outcome(g, svc, "none")
    ELSE IF FindIndex(g.log, n) = 0
      THEN Outcome(g, svc, "panic")
    ELSE IF g.log[FindIndex(g.log, n)].Term # g.currentTerm
      THEN Outcome(g, svc, "none")
    ELSE CommitTo(g, svc, n)

LeaderUpdateCommitIndex(s) ==
    /\ At(s, "commit")
    /\ \E n \in {rf[s].matchIndex[p] : p \in Server} :
         /\ IsMajorityIndex(rf[s].matchIndex, n)
         /\ Finish(s, AfterCommitCheck(rf[s], service[s], n))
    /\ strayed' = IF rf'[s].commitIndex = rf[s].commitIndex THEN strayed
                  ELSE strayed \cup Stray(s)
    /\ Move(s, "commit", "send")
    /\ UNCHANGED <<calls, used, granted, won, led, overlaid>>

(***************************************************************************)
(* leaderSendAppendEntriesRPC copies the state under the lock; the calls   *)
(* are built from the copy.  A peer that lags behind the snapshot gets the *)
(* snapshot instead of entries.                                            *)
(***************************************************************************)
Prev(g, p) == g.nextIndex[p] - 1

AppendEntriesTo(g, s, p) ==
    [from |-> s, to |-> p, live |-> TRUE, done |-> FALSE, Term |-> g.currentTerm,
     PrevLogIndex |-> Prev(g, p),
     PrevLogTerm  |-> TermAt(g.log, g.snapshotIndex, g.snapshotTerm, Prev(g, p)),
     Entries      |-> EntriesAfter(g.log, g.snapshotIndex, Prev(g, p)),
     LeaderCommit |-> g.commitIndex, reply |-> NoAnswer]

InstallSnapshotTo(g, s, p) ==
    [from |-> s, to |-> p, live |-> TRUE, done |-> FALSE, Term |-> g.currentTerm,
     LastIncludedIndex |-> g.snapshotIndex, LastIncludedTerm |-> g.snapshotTerm,
     Snapshot |-> g.snapshot, reply |-> NoInstall]

LeaderSendAppendEntriesRPC(s) ==
    LET g      == rf[s]
        others == Server \ {s}
        behind == {p \in others : Prev(g, p) < g.snapshotIndex}
        able   == \A p \in others : CanSend(g.log, g.snapshotIndex, Prev(g, p))
    IN  IF ~able
          THEN /\ fault' = [fault EXCEPT ![s] = "panic"]
               /\ UNCHANGED <<rf, disk, service, calls, strayed>>
          ELSE /\ aeCalls' = aeCalls \cup {AppendEntriesTo(g, s, p) : p \in others \ behind}
               /\ isCalls' = isCalls \cup {InstallSnapshotTo(g, s, p) : p \in behind}
               /\ FitsInFlight(aeCalls', isCalls')
               /\ strayed' = strayed \cup Stray(s)
               /\ UNCHANGED <<node, rvCalls>>

LeaderTickerSend(s) ==
    /\ At(s, "send")
    /\ LeaderSendAppendEntriesRPC(s)
    /\ Move(s, "send", NextRound(s))
    /\ UNCHANGED <<used, granted, won, led, overlaid>>

\* A client hands over each command once.
\* Start appends and saves under the lock, and sends after releasing it.
WithCommand(g, s, command) ==
    LET index == LastIndex(g) + 1
    IN  [g EXCEPT !.log = Append(@, [Term |-> g.currentTerm, Index |-> index,
                                     Command |-> command]),
                  !.matchIndex[s] = index,
                  !.nextIndex[s]  = index + 1]

Start(s, command) ==
    /\ Up(s) /\ IsLeader(s)
    /\ command \notin used.commands
    /\ Save(s, WithCommand(rf[s], s, command))
    /\ Spawn(s, "startSend")
    /\ used' = [used EXCEPT !.commands = @ \cup {command}]
    /\ UNCHANGED <<calls, history>>

StartSend(s) ==
    /\ At(s, "startSend")
    /\ LeaderSendAppendEntriesRPC(s)
    /\ Exit(s, "startSend")
    /\ UNCHANGED <<used, granted, won, led, overlaid>>

-----------------------------------------------------------------------------
(* AppendEntries *)

\* The peer and the reply after a request: refused when its term is old,
\* otherwise followed by the log match and, on success, the commit index.
FollowerAfter(g, svc, answer, leaderCommit) ==
    LET h == [g EXCEPT !.log = answer.log]
        cur == FollowerCommitIndex(h.log, h.snapshotIndex, h.commitIndex, leaderCommit)
    IN  IF answer.Success /\ h.commitIndex < leaderCommit
          THEN CommitTo(h, svc, cur)
          ELSE Outcome(h, svc, "none")

Overlays(g, args) == args.PrevLogIndex = -1 /\ args.Entries # <<>> /\ g.snapshotIndex # -1

AppendEntriesRequestHandler(c) ==
    LET s == c.to
        g == ToFollower(rf[s], c.Term)
        answer == FollowerHandleLog(g.log, g.snapshotIndex, c)
    IN  /\ Up(s) /\ ~c.done
        /\ IF c.Term < rf[s].currentTerm
             THEN /\ Save(s, rf[s])
                  /\ aeCalls' = Answered(aeCalls, c, Refusal(rf[s].currentTerm))
             ELSE /\ Finish(s, FollowerAfter(g, service[s], answer, c.LeaderCommit))
                  /\ aeCalls' = Answered(aeCalls, c,
                       [Term |-> c.Term, Success |-> answer.Success,
                        XTerm |-> answer.XTerm, XIndex |-> answer.XIndex])
        /\ overlaid' = overlaid \cup
             {x \in {s} : c.Term >= rf[s].currentTerm /\ Overlays(rf[s], c)}
        /\ UNCHANGED <<rvCalls, isCalls, goroutines, used, granted, won, led, strayed>>

\* Mutant of LeaderHandleLog: a failed match does not move nextIndex.
LeaderHandleLogNoBackup(g, c, reply) ==
    IF c.PrevLogIndex # Prev(g, c.to) \/ ~reply.Success
      THEN g
      ELSE [g EXCEPT !.nextIndex[c.to]  = c.PrevLogIndex + Len(c.Entries) + 1,
                     !.matchIndex[c.to] = c.PrevLogIndex + Len(c.Entries)]

\* leaderHandleLog: replies to anything but the latest probe are ignored.
LeaderHandleLog(g, c, reply) ==
    LET next == IF reply.Success THEN c.PrevLogIndex + Len(c.Entries) + 1
                                 ELSE BackedUpNextIndex(g.log, reply)
    IN  IF c.PrevLogIndex # Prev(g, c.to)
          THEN g
          ELSE [g EXCEPT !.nextIndex[c.to]  = next,
                         !.matchIndex[c.to] = IF reply.Success THEN next - 1 ELSE @]

AfterAppendReply(g, c, reply) ==
    IF g.currentTerm > reply.Term \/ g.currentTerm > c.Term THEN g
    ELSE IF g.currentTerm < reply.Term THEN ToFollower(g, reply.Term)
    ELSE LeaderHandleLog(g, c, reply)

AppendEntriesResponseHandler(c, reply) ==
    /\ Up(c.from)
    /\ Save(c.from, AfterAppendReply(rf[c.from], c, reply))
    /\ aeCalls' = aeCalls \ {c}
    /\ UNCHANGED <<rvCalls, isCalls, goroutines, used, history>>

-----------------------------------------------------------------------------
(* Snapshots *)

\* Mutant of Compacted: one entry too many is cut.
CompactedOffByOne(g, at, snapshot) ==
    [g EXCEPT !.snapshot = snapshot, !.snapshotIndex = g.log[at].Index,
              !.snapshotTerm = g.log[at].Term, !.log = SubSeq(g.log, at + 2, Len(g.log))]

\* Keep the log after position at, which is where the snapshot ends.
Compacted(g, at, snapshot) ==
    [g EXCEPT !.snapshot = snapshot, !.snapshotIndex = g.log[at].Index,
              !.snapshotTerm = g.log[at].Term, !.log = SubSeq(g.log, at + 1, Len(g.log))]

\* Mutant of AfterInstall: the log after the snapshot is not kept.
AfterInstallDroppingLog(g, svc, args) ==
    Outcome([g EXCEPT !.snapshot = args.Snapshot, !.log = <<>>,
                      !.snapshotIndex = args.LastIncludedIndex,
                      !.snapshotTerm  = args.LastIncludedTerm,
                      !.commitIndex   = args.LastIncludedIndex], args.Snapshot, "none")

(***************************************************************************)
(* InstallSnapshot of a snapshot the peer does not have yet: it replaces   *)
(* the log, or the part of it that it covers, and the service moves to it. *)
(***************************************************************************)
AfterInstall(g, svc, args) ==
    LET at == FindIndex(g.log, args.LastIncludedIndex)
        whole == [g EXCEPT !.snapshot = args.Snapshot, !.log = <<>>,
                           !.snapshotIndex = args.LastIncludedIndex,
                           !.snapshotTerm  = args.LastIncludedTerm,
                           !.commitIndex   = args.LastIncludedIndex]
        part  == [Compacted(g, at, args.Snapshot) EXCEPT
                    !.commitIndex = IF @ < args.LastIncludedIndex
                                      THEN args.LastIncludedIndex ELSE @]
    IN  IF at = 0
          THEN Outcome(whole, args.Snapshot,
                       IF args.LastIncludedIndex < g.commitIndex THEN "panic" ELSE "none")
        ELSE IF g.log[at].Term # args.LastIncludedTerm
          THEN Outcome(g, svc, "panic")
          ELSE Outcome(part, args.Snapshot, "none")

InstallOutcome(g, svc, args) ==
    IF g.snapshotIndex = args.LastIncludedIndex /\ g.snapshotTerm # args.LastIncludedTerm
      THEN Outcome(g, svc, "panic")
    ELSE IF g.currentTerm > args.Term \/ g.snapshotIndex >= args.LastIncludedIndex
      THEN Outcome(g, svc, "none")
      ELSE AfterInstall(Observe(g, args.Term), svc, args)

InstallSnapshotRequestHandler(c) ==
    LET s == c.to
        out == InstallOutcome(rf[s], service[s], c)
    IN  /\ Up(s) /\ ~c.done
        /\ Finish(s, out)
        /\ isCalls' = Answered(isCalls, c, [Term |-> out.g.currentTerm])
        /\ UNCHANGED <<rvCalls, aeCalls, goroutines, used, history>>

AfterInstallReply(g, c, reply) ==
    IF g.currentTerm # c.Term \/ g.currentTerm > reply.Term THEN g
    ELSE IF g.currentTerm < reply.Term THEN ToFollower(g, reply.Term)
    ELSE IF g.matchIndex[c.to] >= c.LastIncludedIndex THEN g
    ELSE [g EXCEPT !.nextIndex[c.to]  = c.LastIncludedIndex + 1,
                   !.matchIndex[c.to] = c.LastIncludedIndex]

InstallSnapshotResponseHandler(c, reply) ==
    /\ Up(c.from)
    /\ Save(c.from, AfterInstallReply(rf[c.from], c, reply))
    /\ isCalls' = isCalls \ {c}
    /\ UNCHANGED <<rvCalls, aeCalls, goroutines, used, history>>

\* Mutant of AfterSnapshot: the client's index is one larger than Raft's.
AfterSnapshotOffByOne(g, svc, index) ==
    LET at == FindIndex(g.log, index)
    IN  IF at = 0 THEN Outcome(g, svc, "none")
        ELSE Outcome(Compacted(g, at, SubSeq(svc, 1, index)), svc, "none")

(***************************************************************************)
(* Snapshot -> installCurRfSnapShot: compact the log and hand the snapshot *)
(* and the committed rest of the log to the service once more.             *)
(***************************************************************************)
AfterSnapshot(g, svc, index) ==
    LET at   == FindIndex(g.log, index)
        h    == Compacted(g, at, SubSeq(svc, 1, index + 1))
        rest == IF h.commitIndex > h.snapshotIndex
                  THEN SubSeq(h.log, 1, FindIndex(h.log, h.commitIndex)) ELSE <<>>
    IN  IF at = 0 THEN Outcome(g, svc, "none") ELSE Deliver(h, h.snapshot, rest)

Snapshot(s, index) ==
    /\ Up(s)
    /\ used.snapshots < MaxSnapshots
    /\ index + 1 <= Len(service[s])
    /\ Finish(s, AfterSnapshot(rf[s], service[s], index))
    /\ Use("snapshots")
    /\ UNCHANGED <<calls, goroutines, history>>

-----------------------------------------------------------------------------
(***************************************************************************)
(* A crash and the restart of s: Kill ends its goroutines, its calls find  *)
(* nobody waiting, Make reads the disk and the service starts from the     *)
(* snapshot.  Make also puts committed entries of the log into a buffer    *)
(* nobody empties yet: a second put never returns.                         *)
(***************************************************************************)
MakeBlocks(g) ==
    LET puts == (IF g.snapshotIndex # -1 THEN 1 ELSE 0)
                 + Cardinality({p \in DOMAIN g.log :
                                  \A q \in 1..p : g.log[q].Index <= g.commitIndex})
    IN  puts > 1

Restart(s) ==
    LET g == Booted(disk[s])
    IN  /\ Up(s)
        /\ used.restarts < MaxRestarts
        /\ rf' = [rf EXCEPT ![s] = g]
        /\ service' = [service EXCEPT ![s] = g.snapshot]
        /\ fault' = [fault EXCEPT ![s] = IF MakeBlocks(g) THEN "blocked" ELSE "none"]
        /\ goroutines' = [goroutines EXCEPT ![s] = [p \in Point |-> 0]]
        /\ rvCalls' = Orphaned(rvCalls, s)
        /\ aeCalls' = Orphaned(aeCalls, s)
        /\ isCalls' = Orphaned(isCalls, s)
        /\ Use("restarts")
        /\ UNCHANGED <<disk, history>>

-----------------------------------------------------------------------------
Deliveries ==
    \/ \E c \in rvCalls : RequestVoteRequestHandler(c)
    \/ \E c \in rvCalls : RequestVoteResponseHandler(c)
    \/ \E c \in aeCalls : AppendEntriesRequestHandler(c)
    \/ \E c \in aeCalls : \E r \in Returns(c, NoAnswer) : AppendEntriesResponseHandler(c, r)
    \/ \E c \in isCalls : InstallSnapshotRequestHandler(c)
    \/ \E c \in isCalls : \E r \in Returns(c, NoInstall) : InstallSnapshotResponseHandler(c, r)

ServerStep(s) ==
    \/ ToCandidate(s)
    \/ ToLeader(s)
    \/ LeaderTickerCheck(s)
    \/ LeaderUpdateCommitIndex(s)
    \/ LeaderTickerSend(s)
    \/ \E command \in Command : Start(s, command)
    \/ StartSend(s)
    \/ \E i \in 1..Len(service[s]) : Snapshot(s, i - 1)
    \/ Restart(s)

Next == Deliveries \/ \E s \in Server : ServerStep(s)

Spec == Init /\ [][Next]_vars

(***************************************************************************)
(* A goroutine that can run runs, and of the calls that are made again and *)
(* again on a link some arrive and some replies come back: the network     *)
(* delays and loses calls but does not cut a link for good.                *)
(***************************************************************************)
AppendArrives(s, p) ==
    \E c \in aeCalls : c.from = s /\ c.to = p /\ AppendEntriesRequestHandler(c)

AppendReturns(s, p) ==
    \E c \in aeCalls : /\ c.from = s /\ c.to = p /\ c.live /\ c.done
                       /\ AppendEntriesResponseHandler(c, c.reply)

AppendFails(s, p) ==
    \E c \in aeCalls : /\ c.from = s /\ c.to = p /\ c.live
                       /\ AppendEntriesResponseHandler(c, NoAnswer)

LeaderRuns(s) ==
    \/ ToLeader(s)
    \/ LeaderTickerCheck(s)
    \/ LeaderUpdateCommitIndex(s)
    \/ LeaderTickerSend(s)

\* The condition under which AppendArrives is enabled.
AppendOnItsWay(s, p) == Up(p) /\ \E c \in aeCalls : c.from = s /\ c.to = p /\ ~c.done

\* Strong fairness of AppendArrives is spelled out, for TLC's sake.
FairLeader(s) ==
    /\ WF_vars(LeaderRuns(s))
    /\ \A p \in Server \ {s} :
         /\ []<>AppendOnItsWay(s, p) => []<><<AppendArrives(s, p)>>_vars
         /\ SF_vars(AppendReturns(s, p))
         /\ WF_vars(AppendFails(s, p))
=============================================================================
