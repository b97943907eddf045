------------------------------ MODULE Harness ------------------------------
(***************************************************************************)
(* How the tests of raft/ find out that the servers agree: one hands in a  *)
(* command and waits until enough services have applied it, wait looks at  *)
(* an index, and both count with nCommitted, server by server, while the   *)
(* services go on.  All that is assumed of the peers is that they keep an  *)
(* AgreedLog, which is what RaftProperties checks of them, and that Start  *)
(* names an index its server has not applied yet: another command may be   *)
(* agreed on there.                                                        *)
(***************************************************************************)
EXTENDS AgreedLog, FiniteSets

CONSTANTS
    NServers,   \* cfg.n
    Command,
    Cmd,        \* the command handed to one
    MaxLog      \* bound: the commands agreed on

ASSUME HarnessAssumption ==
    /\ NServers \in Nat \ {0} /\ MaxLog \in Nat
    /\ Cmd \in Command
    /\ Node = 0..(NServers - 1)

VARIABLES
    connected,  \* cfg.connected, which a test does not change meanwhile
    call        \* the running call of the test, with its local variables

vars == <<agreed, applied, connected, call>>

NoIndex == 0    \* indices start at 1; the code has -1 for none

-----------------------------------------------------------------------------
(* The peers *)

\* A service applies a command, which may be the one that is new.
PeersApply(n) ==
    /\ \/ agreed' = agreed
       \/ Len(agreed) < MaxLog /\ \E c \in Command : agreed' = Append(agreed, c)
    /\ Len(applied[n]) < Len(agreed')
    /\ applied' = [applied EXCEPT ![n] = SubSeq(agreed', 1, Len(@) + 1)]
    /\ UNCHANGED <<connected, call>>

-----------------------------------------------------------------------------
(* nCommitted *)

\* The loop over the servers starts.
Counting(k) == [k EXCEPT !.pc = "count", !.i = 0, !.count = 0, !.cmd = "nil"]

\* Mutant of Mismatch: the first server found is compared too.
MismatchFirst(k, cmd1) == k.cmd # cmd1

Mismatch(k, cmd1) == k.count > 0 /\ k.cmd # cmd1

\* The loop looks at cfg.logs of the next server.  (applyErr is never set when
\* it is looked at: both of its assignments come after log.Fatalf.)
NCommitted ==
    LET k == call
        there == k.index <= Len(applied[k.i])
        cmd1  == applied[k.i][k.index]
    IN  /\ k.pc = "count" /\ k.i < NServers
        /\ call' = IF ~there THEN [k EXCEPT !.i = @ + 1]
                   ELSE IF Mismatch(k, cmd1) THEN [k EXCEPT !.pc = "mismatch"]
                   ELSE [k EXCEPT !.i = @ + 1, !.count = @ + 1, !.cmd = cmd1]
        /\ UNCHANGED <<agreed, applied, connected>>

Counted(what) == call.pc = "count" /\ call.i = NServers /\ call.what = what

-----------------------------------------------------------------------------
(* one *)

One(expected, retry) ==
    /\ call.pc = "idle"
    /\ call' = [call EXCEPT !.what = "one", !.pc = "scan", !.expected = expected,
                            !.retry = retry]
    /\ UNCHANGED <<agreed, applied, connected>>

\* The next server is asked to Start the command.
TryStart ==
    LET s == (call.starts + 1) % NServers
        k == [call EXCEPT !.starts = s, !.si = @ + 1]
    IN  /\ call.pc = "scan" /\ call.si < NServers
        /\ \/ call' = k
           \/ /\ connected[s]
              /\ \E index \in (Len(applied[s]) + 1)..MaxLog :
                   call' = Counting([k EXCEPT !.index = index])
        /\ UNCHANGED <<agreed, applied, connected>>

Scan(k)     == [k EXCEPT !.pc = "scan", !.si = 0]
Fatal(k)    == [k EXCEPT !.pc = "gaveUp"]
MinusOne(k) == [k EXCEPT !.pc = "returned", !.index = NoIndex]

\* No server is leader: another scan.
NobodyStarted ==
    /\ call.pc = "scan" /\ call.si = NServers
    /\ call' = Scan(call)
    /\ UNCHANGED <<agreed, applied, connected>>

\* Before a scan: the ten seconds are over, or the whole test is finished.
OneEnds ==
    /\ call.pc = "scan" /\ call.si = 0
    /\ call' \in {Fatal(call), MinusOne(call)}
    /\ UNCHANGED <<agreed, applied, connected>>

\* Mutant of Agreed: what the servers have at the index is not looked at.
AgreedOnAny(k) == k.count > 0 /\ k.count >= k.expected

\* Enough servers have applied the command that was handed in.
Agreed(k) == k.count > 0 /\ k.count >= k.expected /\ k.cmd = Cmd

\* one returns, counts again, or stops waiting for this index.
OneCounted ==
    /\ Counted("one")
    /\ IF Agreed(call)
         THEN call' = [call EXCEPT !.pc = "returned"]
         ELSE call' \in {Counting(call), IF call.retry THEN Scan(call) ELSE Fatal(call)}
    /\ UNCHANGED <<agreed, applied, connected>>

-----------------------------------------------------------------------------
(* wait *)

Wait(index, n) ==
    /\ call.pc = "idle"
    /\ call' = Counting([call EXCEPT !.what = "wait", !.expected = n, !.index = index])
    /\ UNCHANGED <<agreed, applied, connected>>

\* Mutant of Decided: one server is missing.
DecidedOffByOne(k) == k.count + 1 >= k.expected

Decided(k) == k.count >= k.expected

(***************************************************************************)
(* The loop of wait goes on while too few have decided, until somebody has *)
(* moved on to a later term (-1), or for 30 rounds.  Then all are counted  *)
(* once more, and that count is the answer.                                *)
(***************************************************************************)
WaitCounted ==
    LET again == {Counting(call), Counting([call EXCEPT !.last = TRUE])}
    IN  /\ Counted("wait")
        /\ \/ /\ ~call.last
              /\ call' \in IF Decided(call) THEN {Counting([call EXCEPT !.last = TRUE])}
                                            ELSE again \cup {MinusOne(call)}
           \/ /\ call.last
              /\ call' = IF Decided(call) THEN [call EXCEPT !.pc = "returned"] ELSE Fatal(call)
        /\ UNCHANGED <<agreed, applied, connected>>

-----------------------------------------------------------------------------
Idle ==
    [pc |-> "idle", what |-> "none", expected |-> 0, retry |-> FALSE, starts |-> 0,
     si |-> 0, index |-> NoIndex, i |-> 0, count |-> 0, cmd |-> "nil", last |-> FALSE]

TestInit == Init /\ connected \in [Node -> BOOLEAN] /\ call = Idle

TestNext ==
    \/ \E n \in Node : PeersApply(n)
    \/ \E n \in 1..NServers, retry \in BOOLEAN : One(n, retry)
    \/ \E n \in 1..NServers, index \in 1..MaxLog : Wait(index, n)
    \/ NCommitted \/ TryStart \/ NobodyStarted \/ OneEnds \/ OneCounted \/ WaitCounted

TestSpec == TestInit /\ [][TestNext]_vars

\* How many services have applied the command at an index.
Have(index) == Cardinality({n \in Node : index <= Len(applied[n])})

(***************************************************************************)
(* When one returns an index, its command is agreed on there and as many   *)
(* services as asked for have applied it, although every server was looked *)
(* at another moment, the leader that named the index may be deposed and   *)
(* another command be there, and an earlier attempt may still succeed.     *)
(* (It returns -1 only when the test is finished anyway.)                  *)
(***************************************************************************)
OneReturnsAgreed ==
    call.pc = "returned" /\ call.what = "one" /\ call.index # NoIndex =>
        /\ call.index <= Len(agreed) /\ agreed[call.index] = Cmd
        /\ Have(call.index) >= call.expected

(***************************************************************************)
(* What wait returns is agreed on at its index and applied by as many      *)
(* services as asked for, unless it returns -1.                            *)
(***************************************************************************)
WaitReturnsAgreed ==
    call.pc = "returned" /\ call.what = "wait" /\ call.index # NoIndex =>
        /\ call.index <= Len(agreed) /\ agreed[call.index] = call.cmd
        /\ Have(call.index) >= call.expected

(***************************************************************************)
(* No false alarm: peers that keep their promise are never reported with   *)
(* "committed values do not match".                                        *)
(***************************************************************************)
NoFalseAlarm == call.pc # "mismatch"
=============================================================================
