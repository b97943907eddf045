------------------------------- MODULE MCRaft -------------------------------
(***************************************************************************)
(* Small instances of Raft for TLC.                                        *)
(***************************************************************************)
EXTENDS RaftProperties, TLC

CONSTANTS
    Elected,    \* the first leader in the runs that start with one
    MaxLog      \* the longest log in the run that starts with different logs

\* Servers are interchangeable, and so are commands where none is fixed.
Symmetry        == Permutations(Server)
SymmetryElected == Permutations(Server \ {Elected}) \cup Permutations(Command)

(***************************************************************************)
(* The states after an undisturbed first election in which e got all votes *)
(* and made itself leader of term 1, before its first round: without a     *)
(* command yet, and with one whose first calls were lost.                  *)
(***************************************************************************)
VotedFor(e, s) ==
    IF s = e
      THEN Leader([Candidate(Booted(NewDisk), s) EXCEPT !.voteCnt = 2], s)
      ELSE [ToFollower(Booted(NewDisk), 1) EXCEPT !.votedFor = e]

InitWith(e, peers, budget) ==
    /\ rf         = peers
    /\ disk       = [s \in Server |-> Persistent(peers[s])]
    /\ service    = [s \in Server |-> <<>>]
    /\ fault      = [s \in Server |-> "none"]
    /\ goroutines = [s \in Server |-> [p \in Point |->
                        IF s = e /\ p = "commit" THEN 1 ELSE 0]]
    /\ rvCalls = {} /\ aeCalls = {} /\ isCalls = {}
    /\ used = budget
    /\ strayed = {} /\ overlaid = {}

InitVotes(e) ==
    /\ granted = {<<s, 1, e>> : s \in Server}
    /\ won = {<<e, 1>>} /\ led = {<<e, 1>>}

\* Nothing used yet but these commands.
Fresh(commands) == [elections |-> 0, commands |-> commands, restarts |-> 0, snapshots |-> 0]

InitElected(budget) ==
    InitVotes(Elected) /\ InitWith(Elected, [s \in Server |-> VotedFor(Elected, s)], budget)

FirstCommand == CHOOSE x \in Command : TRUE

InitStarted(e, command, budget) ==
    /\ InitVotes(e)
    /\ InitWith(e, [s \in Server |-> IF s = e
                 THEN WithCommand(VotedFor(e, s), s, command)
                 ELSE VotedFor(e, s)], budget)

SpecElected == InitElected(Fresh({})) /\ [][Next]_vars

(***************************************************************************)
(* Two elections.  Either nobody takes a command, and a server may crash;  *)
(* or the second election comes after the leader of the first term took a  *)
(* command, and nobody crashes any more.                                   *)
(***************************************************************************)
InitIdle(budget) ==
    /\ InitWith(NoServer, [s \in Server |-> Booted(NewDisk)], budget)
    /\ granted = {} /\ won = {} /\ led = {}

SpecTerms ==
    /\ \/ InitIdle(Fresh(Command))
       \/ \E e \in Server :
            InitStarted(e, FirstCommand, [Fresh({FirstCommand}) EXCEPT !.elections = MaxElections - 1,
                                                                      !.restarts  = MaxRestarts])
    /\ [][Next]_vars

(***************************************************************************)
(* Bounds: without commands, no heartbeats when all elections and crashes  *)
(* have happened; with commands, histories without the known races, a      *)
(* leader takes one command in its term, and nobody has two tickers.       *)
(***************************************************************************)
Tickers(s) ==
    goroutines[s]["toLeader"] + goroutines[s]["check"] + goroutines[s]["commit"] + goroutines[s]["send"]

OneEntryPerTerm(log) == \A x, y \in DOMAIN log : x # y => log[x].Term # log[y].Term

FewElections ==
    IF \A s \in Server : rf[s].log = <<>>
      THEN used.elections < MaxElections \/ used.restarts < MaxRestarts \/ aeCalls = {}
      ELSE CleanHistory /\ \A s \in Server : OneEntryPerTerm(rf[s].log) /\ Tickers(s) <= 1

(***************************************************************************)
(* Snapshots.  Either one leader takes commands, and nobody crashes or     *)
(* stands for election any more; or it took one command, nobody takes      *)
(* another, and there are a crash and another election.                    *)
(***************************************************************************)
SpecSnapshots ==
    /\ \/ InitElected([Fresh({}) EXCEPT !.elections = MaxElections, !.restarts = MaxRestarts])
       \/ \E command \in Command : InitStarted(Elected, command, Fresh(Command))
    /\ [][Next]_vars

(***************************************************************************)
(* Bounds: with more than one command, each is handed in when the calls of *)
(* the one before were made.  With one command, two calls at a time, and   *)
(* none when the snapshot, the crash and the election have all happened.   *)
(***************************************************************************)
OneCommand == used.commands = Command /\ \A s \in Server : LastIndex(rf[s]) <= 0

FewCalls ==
    /\ \A s \in Server : goroutines[s]["startSend"] <= 1
    /\ OneCommand =>
         \/ aeCalls = {} /\ isCalls = {}
         \/ /\ Cardinality(aeCalls) + Cardinality(isCalls) <= 2
            /\ used.elections + used.restarts + used.snapshots <= 2

(***************************************************************************)
(* Elected has just become leader of term 3 with the vote of one follower, *)
(* whose log is its own; the log of the other one was left behind by the   *)
(* leaders of terms 1 and 2 at some earlier point.  Entries of one term    *)
(* come from one leader's log, so up to such an entry the logs agree.      *)
(***************************************************************************)
OldLog ==
    {terms \in UNION {[1..n -> 1..2] : n \in 0..MaxLog} :
        \A i, j \in DOMAIN terms : i <= j => terms[i] <= terms[j]}

OneHistory(a, b) ==
    \A x \in DOMAIN a, y \in DOMAIN b :
        a[x] = b[y] => \A i \in 1..Smaller(x, y) : a[i] = b[i]

\* The entry at a position is determined by its term.
Entries(terms, command) ==
    [i \in DOMAIN terms |-> [Term |-> terms[i], Index |-> i - 1, Command |-> command]]

Follower(votedFor, term, log) ==
    [Booted(NewDisk) EXCEPT !.currentTerm = term, !.votedFor = votedFor, !.log = log]

InitDiverged ==
    LET voter == CHOOSE s \in Server \ {Elected} : TRUE
    IN  \E own, left \in OldLog :
        /\ OneHistory(own, left)
        /\ InitWith(Elected, [s \in Server |->
             LET old == Follower(NoServer, 2, Entries(own, FirstCommand))
             IN  CASE s = Elected -> Leader([Candidate(old, s) EXCEPT !.voteCnt = 2], s)
                   [] s = voter   -> Follower(Elected, 3, Entries(own, FirstCommand))
                   [] OTHER       -> Follower(NoServer, 2, Entries(left, FirstCommand))],
             Fresh({FirstCommand}))
        /\ granted = {<<Elected, 3, Elected>>, <<voter, 3, Elected>>}
        /\ won = {<<Elected, 3>>} /\ led = {<<Elected, 3>>}

FairDiverged == InitDiverged /\ [][Next]_vars /\ FairLeader(Elected)

(***************************************************************************)
(* With nobody else standing for election, backing up nextIndex reaches    *)
(* the point where the logs agree, whatever was left behind, and every     *)
(* server ends up with the leader's log, applied.                          *)
(***************************************************************************)
LaggardsCatchUp == <>[]FollowedByAll(Elected)
=============================================================================
