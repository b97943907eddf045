# TLA+ models of the Raft peer, its network, its clients and its tests

The repository is a solution in progress to the labs of MIT 6.5840. At this
commit the Raft peer (`src/src/raft`) is complete; MapReduce, the key/value
servers and the shard controller are skeletons, with complete clerks. The
project models the Raft peer with its persistence, snapshots and the buffer in
front of `applyCh`; the simulated network `labrpc` with the part of the harness
that crashes and restarts servers; the part of the harness that decides whether
the peers agree; the clerks of the three services; and the linearizability
checker `porcupine` with its key/value model. Paths below are relative to
`src/src/`.

## 1. Inventory

| component | state | operations | what makes it correct |
|---|---|---|---|
| elections (`raft/serverStateTrans.go`, `raft/requestVoteRPC.go`) | `role`, `currentTerm`, `votedFor`, `voteCnt` | `ticker`, `toCandidate`, the RequestVote request and response handlers, `toLeader`, `toFollower` | one vote per term, across crashes; a win means the votes of a majority; one leader per term |
| replication (`raft/appendEntriesRPC.go`, `raft/logActivities.go`, `raft/tools.go`) | `log`, `nextIndex`, `matchIndex`, `commitIndex` | `Start`, `leaderTicker`, `leaderUpdateCommitIndex`, `leaderSendAppendEntriesRPC`, the AppendEntries handlers with `followerHandleLog`, `leaderHandleLog`, `followerUpdateCommitIndex` | logs match; what is applied is the same everywhere, stays, and is with every later leader; a follower that lags catches up |
| snapshots (`raft/installSnapshotRPC.go`, `raft/raft.go`) | `snapshot`, `snapshotIndex`, `snapshotTerm` | `Snapshot`, `installCurRfSnapShot`, the InstallSnapshot handlers | index and payload agree; nothing committed is lost; the service never goes back |
| persistence (`raft/raft.go`, `raft/persister.go`) | the Persister's raft state and snapshot | `persist`, `readPersist`, `Make`, `Kill` | a crash between any two steps loses nothing that was promised |
| applyCh buffer (`raft/raft.go`) | `applyChBuffer`, one mutex, one condition variable | `putApplyChBuffer`, `getApplyChBuffer` | each batch reaches the service once; no wake-up is lost |
| network (`labrpc/labrpc.go`) | `enabled`, `servers`, `connections`, `reliable` | `Call`, `processReq`, `Reliable`, `Enable`, `AddServer`, `DeleteServer`, `Cleanup` | a reply is about something that lasts; a call returns |
| harness (`raft/config.go`) | `saved`, `connected`, `logs`, `lastApplied` | `crash1`, `start1`, `connect`, `disconnect`, the appliers, `one`, `wait`, `checkOneLeader` | the old instance cannot touch what the new one reads; what `one` and `wait` return is agreed on; no false alarm |
| clerks (`kvraft`, `shardctrler`, `shardkv`: `client.go`) | `leaderId`, `seq`, the cached configuration | retry loops over the servers | what returned was executed, in `kvraft` once; an operation returns as soon as somebody can serve it |
| checker (`porcupine`, `models`) | call and return lists, cache, bitset | `checkSingle`, `checkParallel` | accepts exactly the linearizable histories; its list survives backtracking; it ends |
| `labgob`, `mr`, `mrapps`, `main` | none that matters, or stubs | encoding, file processing | |

How they interact: a peer calls `Call` on a `labrpc.ClientEnd` from a goroutine
per call, and the response handler runs in that goroutine when the call
returns, so calls and replies overtake each other freely. `leaderTicker` and
`ticker` are goroutines of the peer; `Start` and `Snapshot` are called by the
service. Committed entries go from the handler that moves `commitIndex`,
through one goroutine per batch, into `applyChBuffer`, and from there by one
reader goroutine to the service. `persist` writes to the Persister at the end
of most handlers. The harness takes a server out of the network, copies its
Persister and starts a new instance on the copy; the old instance cannot be
stopped and goes on.

What is hard here: checks that are made under the lock and used after it was
released (`ticker`, `leaderTicker`, `Start`, the winner of an election); stale
requests and replies meeting newer logs and snapshots; paths without `persist`;
crashes between steps; the condition variable shared by readers and writers;
retries of what was already executed; a search that takes its list apart and
relies on putting it together in reverse; counts taken server by server while
the servers go on.
`PROJECT.json` lists each hazard at its line with the properties that watch it.

## 2. Plan

1. Done: `RaftLog`, `Raft`, `RaftProperties`, `MCRaft`; `ApplyQueue`, `ApplyCh`;
   `LabRPC`; `AgreedLog` and the
   refinement of it by the peers; `Harness` on top of `AgreedLog`; `Clerks`;
   `KvModel`, `Porcupine`; proof modules for all of them but the last two.
2. Modules that would come next: a composition of `Raft` with `ApplyCh`, where
   batches reach the service out of order; the three `check...` functions of the
   harness; `porcupine`'s entry by events; `mrsequential` as a pure operator.
3. Proved: what section 6 lists. Next theorems: what is left of a clean history's guarantees when one of
   its conditions fails (for instance log matching after an overlay, up to the overlaid index), and the refinement of an
   `AgreedLog` whose services may restart from a snapshot. The liveness properties stay with TLC.

## 3. Modules

| module | models |
|---|---|
| `RaftLog` | the pure arithmetic on logs: `findIndex`, `getLastLogIndexAndTerm`, `followerHandleLog` and its merges, the backing up of `nextIndex`, the majority index, the batch that a commit hands over |
| `Raft` | the peers: one action per handler, ticker step, `Start`, `Snapshot` and crash |
| `RaftProperties` | what the peers promise |
| `MCRaft` | initial states, symmetry and bounds for TLC |
| `RaftProofs` | theorems about `RaftLog`, and about the types, disks, votes and snapshots of `Raft` |
| `RaftElectionProofs` | on top of it: who wins, and that one leads a term |
| `RaftSafetyProofs` | on top of that: logs have no gaps, and one leader never panics nor makes others panic |
| `RaftCommitProofs` | on top of that: logs match; what is committed and applied stays, is with every later leader, on the disks of a majority and the same everywhere; the peers implement `AgreedLog` |
| `ApplyQueue` | abstract: each batch is handed over and delivered once |
| `ApplyCh` | `putApplyChBuffer`, `getApplyChBuffer`, `sync.Cond` |
| `ApplyChProofs` | the buffer's invariant, that it implements `ApplyQueue`, and that two batches never get stuck |
| `LabRPC` | the network, `crash1`, `start1` |
| `LabRPCProofs` | a reply is about something that lasts |
| `AgreedLog` | abstract: one growing sequence of commands, applied in order by every service |
| `Harness` | `one`, `wait`, `nCommitted` and the applier of `raft/config.go`, over any peers that keep an `AgreedLog` |
| `HarnessProofs` | what `one` and `wait` return is agreed on, and no false alarm |
| `Clerks` | the clerks of `kvraft`, `shardctrler` and `shardkv` |
| `ClerksProofs` | what returned was executed, and in `kvraft` once |
| `KvModel` | `models/kv.go`, and what linearizable means |
| `Porcupine`, `MCPorcupine` | `checkOperations`, `checkParallel`, `checkSingle`, and histories to check |

### Raft

`rf[s]` holds the fields of the struct, `disk[s]` what the Persister of `s` has,
`service[s]` the commands the service has applied, `fault[s]` whether the peer
panicked, its applier failed or `Make` blocked. Role and the indices are those of the code
(`votedFor = -1` is `NoServer`; log indices start at 0). Every method that
changes state holds `rf.mu` throughout and is one action. Where the code
unlocks between a check and what depends on it, `goroutines[s][p]` counts the
goroutines of `s` at that point: `toLeader` (won, and not yet in `toLeader`), `check`,
`commit`, `send` (the three parts of a `leaderTicker` round) and `startSend`
(`Start` has appended and not yet sent). `ticker`'s check cannot be told from
the outside and may have been made at any earlier moment, so `ToCandidate` is
enabled in every role.

A call is a record in `rvCalls`, `aeCalls` or `isCalls` from the moment it is
sent until it returns. A request handler can run while the call is there (or
never: lost); it writes `reply` and sets `done`. The response handler consumes
the record, with the reply or, for the calls whose code handles a failed call
like a zero reply, with the zero value. Since any record can be picked, calls
and replies are delayed and overtake each other. A record is orphaned (`live` is
false) when its sender crashed: its request may still arrive, its reply never.
The network does not execute a call twice; neither does the model. Two equal calls of which neither has
been delivered are one record; sent again after the first was handled, the same request is a second one.

`Restart` is `Kill` and `Make`: memory from the disk, the service from the
snapshot, the goroutines and replies of the old instance gone. `persist` is
part of every action whose code calls it, through `Save` and `Finish`; the one path without it
(a vote reply with a larger term) leaves `disk` alone.

In the code a goroutine per batch hands committed entries and snapshots to the service
(`raft/logActivities.go:282`, `raft/installSnapshotRPC.go:71` and `:96`). In this module they are
delivered in the handler's step, in order; late, reordered and stuck batches are the subject of `ApplyCh`. What a
service has here is thus the most it can have. `service` is read as "handed over by now" by
`StateMachineSafety`, `CleanLeaderCompleteness`, `CleanCommittedDurable` and `ImplementsAgreedLog`, which
are about commands that are with the service: a batch that comes late only makes these say less, and one that comes out
of order stops the applier at the first index it misses. `CleanCommitsAgree`, `CommittedStays` and all about disks, logs, votes and
calls do not look at `service`. Only the word *applied* in `LaggardsCatchUp` depends on the delivery; `apply_stuck`
shows when it does not come. `rewound` uses a snapshot that the buffer could deliver at once. Payloads are abstracted: a
command is a model value, a snapshot is the sequence of commands it covers.
Left out: clocks (a timeout may always have expired), printing, byte encoding.

`granted`, `won`, `led`, `strayed` and `overlaid` are history variables that no action
reads.

### ApplyCh

A step is what a goroutine does from getting the mutex to `Wait` or `Unlock`.
`sync.Cond` (external) wakes waiters in the order in which they called `Wait`; a woken goroutine
competes for the mutex with all others. `MaxPending` bounds the batches handed
over and not yet delivered.

### LabRPC

One server, its successive instances `1, 2, ...`, each with its own Persister
`store[i]`, and calls to it. `call[c].pc` is how far `Call` and `processReq` are;
the handler has a state of its own because it goes on after the call gave up
on it, and then saves to its own instance's Persister. A handler that returned sends its reply on a channel without a buffer, and its
goroutine ends when somebody receives it: `processReq`, or the goroutine that `processReq` leaves behind when it gives up (`drain`). `crash1` and `start1` are
split where calls can come in between: disconnect, `DeleteServer`, copy,
`AddServer`. The two copies of the Persister in `crash1` and the one in `start1` are one step: nobody
writes to what lies between them. Delays, `LongDelays` and `LongReordering` are
interleavings.

### AgreedLog and Harness

`AgreedLog` is what the tests expect of Raft: `agreed` only grows, and
`applied[n]` is always a beginning of it. `RaftProperties` maps it to the peers
(`Agreement == INSTANCE AgreedLog WITH agreed <- Furthest, applied <- service`,
with `Furthest` what the service that is ahead has applied), and
`ImplementsAgreedLog` is the abstract specification as a property. `Harness`
extends the same module: there the peers are nothing but `AgreedLog` (`PeersApply`)
and a `Start` that names some index the server has not applied, so what is
shown of `one` and `wait` holds for every Raft that keeps the promise. The loop
of `nCommitted` is one action per server, since `cfg.mu` is released in between.
Ten seconds, two seconds and thirty rounds are a choice to go on or to stop. `one` returns -1 (`NoIndex`) without an agreement
when the whole test is finished meanwhile. The check of `applyErr` in `nCommitted` is left out: it is set only after
`log.Fatalf` has ended the process, so it is never found set. "A
server has moved on to a later term" is a choice as well.

### Clerks

`clerk[c]` has the fields of the Clerk and the local variables of the running
operation: the service and the server it is calling (`to`, `si`) and what is
known of the reply. Get, Put and Append differ in data only and are one
operation; Join, Leave and Move too: they give the one shard of interest to a group or
to none. All three clerks go through the same actions (`Begin`, `Reply`, `Fail`)
and differ in `Begun`, `Answered` and `Retried`: `kvraft` starts at `leaderId`, counts `seq`
once per operation and goes round; `shardctrler` starts at the first server; `shardkv` asks
the servers of a group once and then the controller, through the nested Query. Sleeping is
not a step.

The services are external, because their handlers are empty. A leader accepts
a request and replicates it; it is executed later, perhaps after the clerk has
given up on it and after the leader has changed, or never. `kvraft`'s service
keeps the largest Seq per client, for which `KVServer.seqMap` is meant. The others
execute every request they replicate: their arguments carry no number, so a
retried `Append` of `shardkv` can be executed twice, and `ExecutedOnce` is
claimed for `kvraft` only.

### KvModel and Porcupine

`KvModel` has the model's `Init`, `Step` and `Partition`, and the definition
the checker is measured against: `Linearizable(history)` asks for an order of *all*
operations, over all keys, that respects real time and that one store can execute. That
checking each key by itself is enough is thus part of what is checked.

`Porcupine` has one record per `checkSingle` goroutine (`search[k]`) and one for
`checkParallel` (`main`). The doubly linked list is kept as the two pointer functions
`next` and `prev`, with the stale pointers of lifted nodes, because `unlift` depends on
them. A turn of the search loop is an action: `kill` is read once in it. The
bitset has words of `WordBits` bits; the cache is a set, as entries with equal bitsets
have equal hashes. Values are sequences of letters. `makeEntries` sorts with an unstable sort, so entries that
compare equal come in any order.

## 4. Runs

Passing:

| run | instance | shows |
|---|---|---|
| `elections` | 3 servers; two elections and a crash, without commands; or a leader of term 1 with one command, one more election and a second command | `TypeOK`, `DurableState`, `VoteOnceUnlessLed`, `WonByQuorum`, `CleanElectionSafety`: with votes and replies lost, late and of earlier instances. `CleanLogMatching`, `ImplementsAgreedLog`, `CleanLeaderCompleteness`, `CleanCommitsAgree`: the entry of term 1 is on any set of servers when the second election happens, and may be overwritten or committed through the second entry |
| `snapshots` | a snapshot; a leader of term 1 with two commands and three calls at a time; or with one command, a crash and a second election | `SnapshotCoversIndex`, `CommittedStays`, `OnlyOverlaysDropEntries`, `OneLeaderNoPanic`, `CleanCommitsAgree`, `CleanLeaderCompleteness`, `CleanCommittedDurable`: InstallSnapshot and AppendEntries calls of one leader overtake each other; what was applied is on the disks of a majority, and with the newest leader, whatever crashes |
| `catch_up` | every pair of logs of length up to 3 that two earlier leaders can have left | `LaggardsCatchUp`: backing up `nextIndex` by terms reaches the point of agreement and the follower ends up with the leader's log |
| `apply_buffer` | 6 batches, at most 2 pending | `BufferInv`, `QueueSpec`, `NobodyStuck`, `EventuallyDelivered` |
| `rpc` | 2 calls, 2 crashes | `RPCInv`, `RepliedIsSaved`, `CallReturns`, `HandlersEnd` |
| `porcupine` | all histories of up to 3 operations on 2 keys | `SearchFits`, `VerdictIsRight`, `LongestIsLongest`, `Returns`: with and without the longest prefixes, the timeout at any moment or never |
| `clerks` | 2 clients with 2 operations each, 1 failed call, 1 change of a leader; both of `kvraft`, or one of `shardctrler` and one of `shardkv` | `ReturnedIsExecuted`, `ExecutedOnce`, `EveryOperationReturns` |
| `agreement` | 3 servers, 3 commands, any servers connected | `OneReturnsAgreed`, `WaitReturnsAgreed`, `NoFalseAlarm` |

Runs whose property is violated by the code (each has a finding in
`PROJECT.json`):

| run | shows |
|---|---|
| `different_commits` | two services apply different commands at one index: a winner of an election calls `toLeader` after its term is over and leads a term it did not win |
| `apply_stuck` | with three batches pending, `Signal` wakes the wrong goroutine and nobody runs any more |
| `make_blocks` | `raft/raft.go:287`, "Make() must return quickly": an AppendEntries from index 0 on that was overtaken by a snapshot puts an entry which the snapshot covers back into the log, the server crashes, and `Make` puts both into a buffer of one batch that nobody empties yet, with `rf.mu` held. That no other course of events blocks it is part of `GaplessInvariant` |
| `rewound` | `raft/notes.md:91`, "这些快照只会推进服务的状态" (snapshots only advance the service): a follower whose `commitIndex` is beyond a late snapshot hands it to the service all the same (`raft/installSnapshotRPC.go:96`), and what lies between is not applied again; the next command fails at `raft/config.go:230`. What the peer itself committed is still there (`CommittedStays`, `CleanCommitsAgree`) |

### Clean histories

Because of these races the promises of the Raft paper do not hold of this code
unconditionally. `CleanHistory` names exactly what has to be excluded: a second vote in a term, a leader that
did not win its term, sending or committing without being leader, an AppendEntries from index 0 merged into a log
behind a snapshot. The properties named `Clean...` say that, as long as this holds, the
rest of the protocol keeps its promise. It is false for good once it is false, so the long runs
use it as a constraint as well (`elections`: as soon as there are commands) and do not explore what follows. Handlers,
persistence and the votes are checked and proved without the condition.

Further disagreements between text and code met while modelling, which no run
of its own shows:

- `raft/installSnapshotRPC.go:80` panics with "log inconsistent!" when the log has an
  entry of another term at the snapshot's index. A follower that kept an
  uncommitted entry of a deposed leader there does (`MaxElections = 1`,
  `MaxSnapshots = 1` reach it). `OneLeaderNoPanic` is what holds. Its condition that nothing was overlaid is
  needed: with one leader, one follower, four commands and two snapshots, a follower with a snapshot of index 0..1 and a log
  up to 3 that is cut to index 1 by a request from index 0 on makes the leader back up and send its
  snapshot of 0..2, which the follower neither has in its log nor may install (`commitIndex` is 3): it panics.
- `raft/logActivities.go:125` argues that an old AppendEntries finds a log longer
  than what it brings. After a snapshot it does not: one with `PrevLogIndex` -1
  replaces the log after the snapshot (`raft/notes.md:166-168` has a TODO).
  `OnlyOverlaysDropEntries` says that this is the only way an entry of the current term gets lost; run
  `make_blocks` shows what comes of it.
- `raft/serverStateTrans.go:25`, "每个server在每个term只能投1次" (a server votes only once
  in a term). `toLeader` clears `votedFor` (`raft/serverStateTrans.go:88`) and the branch for
  leaders of the RequestVote handler does not return
  (`raft/requestVoteRPC.go:33-37`): a leader grants a second vote in its own
  term, and with `MaxElections = 2` its candidate wins that term as well. `VoteOnceUnlessLed` says, and the
  theorem proves, that this is the only way.
- `raft/raft.go:127`, `persist()` must be called whenever term, vote or log change. The
  demotion by a vote reply does not (`raft/requestVoteRPC.go:92`).
  `DurableState` says what can be lost by it: a term in which the
  server has not voted.
- `raft/notes.md:42-48` asks for one goroutine that sends committed entries in order. Here
  a goroutine per batch is started (`raft/logActivities.go:282`), and two batches that are pending together can
  be delivered in either order. `ApplyQueue` therefore promises no order; the applier stops the test at the first index it
  misses (`raft/config.go:170`, `:230`).

### Bounds

- Three servers are the smallest number with a majority that leaves somebody
  out; `different_commits` needs two only.
- `make_blocks` and `rewound` have the smallest bounds in which the course of events fits: one command, a snapshot and a
  crash; two commands and a snapshot.
- Two terms suffice for every conflict between an old leader and a new one; the
  first election is fixed where only the second matters (`InitElected` and `InitStarted` are the states after an
  undisturbed first election). `elections` and `snapshots` each cover two kinds of histories, which
  differ in the elections, crashes and commands that are used up at the start (`SpecTerms`, `SpecSnapshots`), because a run with the bounds of both
  would take too long.
- In `elections`, without commands, there are heartbeats until two elections and a crash have happened; with commands a server has
  one `leaderTicker` at a time (two of them are in `snapshots`). In `snapshots`, the second command comes after the first was sent; with a crash and an election
  there are two calls at a time, and none once the snapshot, the crash and the election have all happened. What was left out
  here is in the theorems, which have no such bounds.
- `MaxInFlight` bounds the AppendEntries and InstallSnapshot calls at a time. With two, a round to both followers
  fits; with three, a round and a straggler of an earlier one, which
  is what overtaking needs: the `snapshots` run uses it.
- `OneEntryPerTerm` (run `elections`): a leader takes one command in its term.
- `catch_up` uses logs of up to three entries of two terms: long enough that a
  term has to be skipped, not entered, and left halfway.
- `apply_buffer` and `apply_stuck` are the two sides of a boundary: up to two
  pending batches no wake-up is lost, with three one can be.
- `rpc`: two crashes give an instance that is neither first nor last.
- `porcupine`: three operations are the fewest with which two orders of the same
  set lead to different states that a third one tells apart (what the cache must distinguish);
  two points in time give every pattern of overlap and precedence of two operations, and
  ties. Words of two bits put the third operation into a second word. The operations of
  the second key are fewer, and the first operation is on the first key.
- `clerks`: one lost reply and one change of the leader give a request that is executed
  after its operation returned, and a remembered leader that is deposed. Two
  configurations make the first one stale. Two servers: the clerks never start at the leader.
- `agreement`: three indices, of which any can hold the command handed in or
  another one.

Deadlock is not checked where the bounds end every behaviour (`Raft`, `ApplyCh`, `Clerks`) or the
program returns (`Porcupine`, `Harness`); it is checked in `rpc`.

Symmetry is over servers (without the elected one where it is fixed) and commands (where none is fixed), and only in runs
without liveness.

## 5. Fairness

- `FairLeader` (`catch_up`): the leader's goroutine runs; of the calls that are made again and
  again from the leader to a follower some arrive and some return (strong
  fairness of arrival and return, as the network loses calls at random and
  does not cut a link for ever in the situation the property is about); a call fails if nothing else happens to
  it (`labrpc` answers every call).
- `ApplyCh!FairSpec`: a goroutine that can have the mutex gets it. Go's mutex
  is starvation-free.
- `Porcupine!FairSpec`: every goroutine runs. The timer gets no fairness, so that
  `Returns` holds without a timeout as well. A history without operations is excepted: it
  has no partition, and `checkParallel` waits for a result nobody sends (`porcupine/checker.go:292-304`).
- `Clerks!FairSpec`: a request that is not lost arrives, a reply that is not lost
  comes back, a leader executes what it replicates. Failures and changes of the leader have no
  fairness and are bounded, that is, they end. `EveryOperationReturns` asks for nothing while the shard has no group.
- `LabRPC!FairSpec`: the goroutines of network and caller run. Handlers get no
  fairness: `CallReturns` allows for one that never returns, and `HandlersEnd` is about those that do.

## 6. Proofs

All proofs are for any number of servers, commands, batches, calls, clients, crashes and
any value of the bounds. The assumptions are those of the modules: `Server` is finite and
`NoServer` is not in it; the bounds are natural numbers; the harness has at least
one server; the names by which `Clerks` tells the services apart (`"kv"`, `"ctrl"` and
`"none"`) are not names of groups. Besides, `NobodyStuckWithTwo` has the hypothesis `MaxPending <= 2`,
`PeersKeepOneLog` the hypotheses that there is a server and that nobody restarts or takes a snapshot; both are explained
below. The theorems about logs and services are for clean histories (section 4), with any number of crashes and
snapshots.

`RaftProofs`: `TypeCorrect`, `DiskIsCurrent` (`DurableState`), `SecondVoteOnlyByLeader`
(`VoteOnceUnlessLed`), `SnapshotsAreLabelledRight` (`SnapshotCoversIndex`). They share the inductive
invariant `RaftInv`, in four parts that actions disturb separately:

- `NodeInv`: types of memory, disk and service, `DurableState`, and that a
  snapshot in memory covers its index. That the disk has the same snapshot follows
  from `DurableState`.
- `VoteInv`: `VoteOnceUnlessLed` and the strengthening it needs, `VoteRemembered`:
  a vote is on the voter's *disk* until its term is over or the voter made itself
  leader in it. Without the disk in it the invariant would not survive a crash;
  without the exception not `toLeader`.
- `CallInv`: types of the calls, and that a snapshot in flight covers its index.
- `RestInv`: types of the counters and of the history.

There is one lemma per action, on top of lemmas that what the handlers compute
(`FollowerAfter`, `AfterInstall`, `AfterSnapshot`, ...) has its type, keeps the vote and
leaves the snapshot covering its index; the module begins with the ones about logs.

`RaftElectionProofs`: `WinnersHaveMajority` (`WonByQuorum`) and
`OneLeaderInCleanHistories` (`CleanElectionSafety`). `WonByQuorum` is not inductive: `voteCnt` is
a number and does not say whose votes it has counted. `TallyInv` says that it is at most
`Cardinality(Heard(s))`, the voters of `s` in its term whose vote is *not on its way* any more, so that
a reply that is counted moves its voter into that set. For this a server must be asked
once per term (`AskedOnce`), the calls and votes for a candidate must be of terms its disk
knows (`NoFutureTerm`: else a restarted candidate could ask for a term a second time), and a
vote must not be there before the request was handled (`VoteFollowsRequest`). None of this needs a
clean history. The second theorem then follows from the intersection of majorities.

`RaftSafetyProofs`, first part: `GaplessInvariant`. `GaplessInv`: logs and
the entries in calls have consecutive indices from the snapshot, or
`PrevLogIndex`, on, and `Make` has not blocked. It needs of the clean history only that nobody merged from index 0 on into a log behind a
snapshot; that merge is the one place that makes a gap or an overlap. So the course of events of run `make_blocks`
is the only one in which `Make` blocks, and this invariant is what the following theorems need of it.

Second part: `NoPanicWithOneLeader` (`OneLeaderNoPanic`), with any number of snapshots. With one leader `s`, of term `t`,
`OneLeaderInv` says that all entries and snapshots are of term `t` and that nothing reaches beyond the leader's last
index (`Sound`: snapshot index, commit index and last index of each peer are in this order; `AppendSound`,
`InstallCallSound`: the same of calls in flight; `Aims`: `nextIndex` and `matchIndex` of the leader), and that only `s` has
goroutines in the leader's loop, because no other server ever led. As all terms are the same, no merge finds a conflict
and no log gets shorter; as no log has a gap (`GaplessInv`), an index between the snapshot and the last index is
found. Before the first leader all logs are empty (`Untouched`). The case split is in `OneLeaderStep`. In between,
`LeadInv` has what all that follows uses: a server leads at most the terms its disk knows, a candidate has not led its term.

`RaftCommitProofs`, first part: `LeadersAreComplete` (`CleanLeaderCompleteness`), `AppliedIsOnMajorityOfDisks`
(`CleanCommittedDurable`), `ServicesAgree` (`StateMachineSafety`), `CommittedIsAgreed` (`CleanCommitsAgree`) and `LogsMatch` (`CleanLogMatching`), in every history without the
known races, for any number of terms, crashes, restarts and snapshots. What was
committed is not to be read off the present state: the servers that made up the majority
may have moved on to other terms and lost what they knew of each other, `matchIndex` is gone after a crash, and
a snapshot has forgotten the terms of the entries it replaced.
`CommitInv` therefore says that there is a *chronicle*: `L`, the pairs of a term and a log its leader had
in it; `A`, the triples of a server, a term and a log (a beginning of one in `L` of that term) which the server
accepted in that term; and `W`, for each server its *whole* log, the one it would have if no snapshot had cut it. The
peer's log is the end of `W`, its snapshot has the commands of the beginning, and the snapshot's term is the one of
the last entry covered (`Whole`). All that follows is about whole logs, from index 0 on.
A beginning `x` of a log, whose last entry is of term `t`, is *chosen* if a majority has
accepted `x` or more in term `t`, and *choosable* if a majority has accepted it or is still in a
term `<= t`, that is, can still do so. The parts of the chronicle:

- `LeaderLogs`, `LeadersHaveTheirs`: the logs of one term are beginnings of one another, their terms never fall,
  and the present leader's log is the longest of its term;
- `LogsRooted`, `AcceptedFits`: every entry of a server's log, or of an accepted one, is the end of a log its leader had;
- `AcceptedStays`: a server that accepted `x` still has it on its disk, as long as `x` is choosable;
- `LaterLeadersHave`: a log in `L` of a later term than a choosable `x` begins with `x`. This is leader completeness,
  stated for what *may* be chosen, because only this is inductive: a server that moves on makes
  less choosable, and never more;
- `VotesCarry`: the election restriction. Who voted for a candidate that has not yet won and had accepted `x` has checked that the
  candidate's log is up to date, so the candidate has `x` if the leaders in between had it;
- `MatchAccepted`, `RepliesAccepted`: a leader's `matchIndex`, and a reply on its way to it, stand for logs accepted in its term;
- `CommitsChosen`, `CallsFit`, `SnapshotsFit`: what a peer has committed, a `LeaderCommit` in flight and a snapshot in flight are
  within something chosen.

Beside it, `NoLeftovers` (a follower in a term it won was restarted, and none of its earlier goroutines is left), `CallsAsk` (a request for a vote
has the last index and term of the log that its candidate still has) and `AppliedIsCommitted` (a service has a
beginning of its peer's committed log). The steps where something has to be argued: `toLeader` (`WinnerHas`: the majority of
voters meets the majority that accepted), a granted vote (`VoteIsSafe`, `UpToDateHas`), the merge of a follower (`MergeKeeps`: a log
that has accepted `x` keeps it, since the request is part of a log in `L` that begins with `x`; `CommittedKept`), and counting
in `leaderUpdateCommitIndex` (`CountedIsChosen`: only an entry of the leader's own term makes what is counted
chosen, which is why the code compares the terms). With snapshots there are three more: the merge behind a snapshot does not
compare the term at `PrevLogIndex` with the snapshot's and is right only because the snapshot is chosen, so that the whole log and the
request's agree up to it (`BehindMerges`); InstallSnapshot panics and changes nothing, finds the snapshot's last entry in
the whole log, or replaces the log (`InstallTakes`: to the whole log this is a merge of the part the snapshot covers); and a snapshot of the peer's own service is of
something the peer committed, so `W` does not change. That a history never gets clean again, which `led \subseteq won` does not give
for nothing, is `CleanNeverReturns`. `LogsMatch` is then short: up to each of its entries a whole log is as that
entry's leader had it (`Rooted`), and the logs of one term are beginnings of one another. `CommittedIsAgreed` does not look at services:
up to `commitIndex` snapshot and log together are the whole log (`HeldIsWhole`), and of two chosen beginnings one begins the other.

Second part, on steps. Every step but a restart is `Onward`: `commitIndex` does not fall, what was committed, and what is of
the current term, is still in the whole log, and one
service at most moves. Three theorems follow:

- `CommittedIsKept` (`CommittedStays`): no step takes back what is committed;
- `OwnTermIsKept` (`OnlyOverlaysDropEntries`): what a log has of the current term and what a request of that term carries are both
  beginnings of logs its leader had, so one begins the other and the merge does not cut (`MergeKeepsTerm`);
- `PeersKeepOneLog` (`ImplementsAgreedLog`): the refinement of `AgreedLog`, under the condition that nobody restarts or takes a snapshot: a
  restarted service begins again from its snapshot and a stale snapshot sets a service back, and `AgreedLog` has no such
  steps. `Furthest` is some service's
  sequence, as there are finitely many servers and at least one; a service that moves extends its own
  sequence by `Onward`, and by `ServicesAgree` after the step it and the furthest before are beginnings of the furthest after.

`ApplyChProofs`: `BufferInvariant` (`BufferInv`: a batch is with its goroutine,
in the buffer or delivered; whoever is in the notify list is in `Wait`, once) and
`ImplementsQueue`: under that invariant a step of `Get` that delivers is
`Deliver`, `Hand` is `Hand`, all others stutter. The invariant is needed for
"not delivered before", which the guard of `Get` does not say. `NobodyStuckWithTwo`
(`NobodyStuck`) has the hypothesis `MaxPending <= 2`: with three it is false, as run `apply_stuck` shows. `TwoInv`
says who may sleep: nobody that waits to put while the buffer is empty, and not the reader
while it is full. With one batch in the buffer at most one other is pending, so `Signal` after a `Get`
meets that goroutine or the reader alone.

`LabRPCProofs`: `RPCInvariant` (`RPCInv`) and `RepliesLast`
(`RepliedIsSaved`). The invariant ties three things together: the instance in the network is the
one whose Persister is current; a handler that returned has saved to its own
instance's; a call that is being answered is in the current one, and a copy keeps
it there. `processReq` looks at the server a second time after the handler returned, and
that is the step where the first two give the third.

`HarnessProofs`: `OneIsRight`, `WaitIsRight` and `NeverFalseAlarm`, of `TestSpec`. A scan looks at each
server at another moment, so its count is not the number of servers that have
the index; `HarnessInv` says that it is at most that number among the servers looked
at so far, and that the command it remembers is the agreed one. Both survive the servers going on,
because what is agreed and applied only grows: this is all that is used of the peers.

`ClerksProofs`: `ClerkTypesRight`, `ReturnedWasExecuted` and `ExecutedAtMostOnce`. `ClerksInv` ties requests
to operations: a request is of an operation its clerk has begun, and in `kvraft` its Seq
is the number of that operation, also if the request was given up long ago; an answer "ok" is for the
operation that is running, which has been executed. So a request that
is executed late, after its operation was executed and the next one was begun, has a Seq that the
service has seen.

Model-checked only, and why:

- the liveness properties (`LaggardsCatchUp`, `EventuallyDelivered`, `CallReturns`, `HandlersEnd`, `Returns`,
  `EveryOperationReturns`): fairness and `ENABLED` are out of the prover's reach;
- `ImplementsAgreedLog` in histories with a restart or a snapshot is not claimed: it is false there, as said above;
- `SearchFits`, `VerdictIsRight`, `LongestIsLongest` of `Porcupine`: what the search has
  excluded, and that this is enough, needs induction over all orders of a history.

## 7. Not modelled

- The servers of `kvraft`, `shardctrler` and `shardkv`, `mr`: their handlers are
  empty at this commit. The `config.go` of the three are copies of the harness of `raft/`.
- `labgob`: encoding, with checks by reflection. `mrapps`, `main`: file
  processing, plug-ins and wrappers around packages that are not there.
- `porcupine/visualization.go`: an HTML page. `checkEvents`, `renumber`,
  `convertEntries`: a second entry to the checker that nothing calls.
- In the harness: `checkOneLeader`, `checkTerms`, `checkNoLeader` and the statistics, which only
  read; the timeouts of a whole test.
- Logging in `raft/tools.go` and `raft/util.go`, clocks, byte counts.
