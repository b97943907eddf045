------------------------------- MODULE Clerks -------------------------------
(***************************************************************************)
(* The clients of the replicated services: the clerks of kvraft,           *)
(* shardctrler and shardkv, which call one server after the other until    *)
(* one answers as the leader.  A clerk of shardkv contains one of          *)
(* shardctrler to learn which group has the shard of its key.              *)
(*                                                                         *)
(* The handlers of the services are empty in the repository.  What is      *)
(* behind the calls is therefore external: a service with a leader that    *)
(* replicates a request before it executes it, whose leader changes, and   *)
(* which, in kvraft, executes a client's requests in the order of their    *)
(* Seq and each at most once (KVServer.seqMap).                            *)
(***************************************************************************)
EXTENDS Integers, Sequences, FiniteSets

CONSTANTS
    Client,
    Admin,        \* the client that changes the configuration
    Group,        \* replica groups of shardkv
    NServers,     \* servers of a service
    MaxOps,       \* bounds: operations of a client,
    MaxFailures,  \*   calls that fail,
    MaxChanges    \*   changes of a leader

ASSUME ClerksAssumption ==
    /\ NServers \in Nat \ {0} /\ MaxOps \in Nat /\ MaxFailures \in Nat /\ MaxChanges \in Nat
    /\ Admin \in Client
    /\ {"kv", "ctrl", "none"} \cap Group = {}

VARIABLES
    kind,      \* kind[c]: the package of the clerk of client c
    clerk,     \* clerk[c]: its fields and the variables of its running operation
    leader,    \* leader[v]: the server that leads service v
    pending,   \* requests a leader replicates
    executed,  \* requests the services executed, in order
    configs,   \* configs[n]: the group of the shard in configuration n
    failures, changes

vars == <<kind, clerk, leader, pending, executed, configs, failures, changes>>
service == <<leader, pending, executed, configs, failures, changes>>

NoGroup == "none"
Service == {"kv", "ctrl"} \cup Group
Servers == 0..(NServers - 1)

\* The group of the shard in configuration n; the clerk starts with an empty
\* one, numbered 0.
Owner(n) == IF n = 0 THEN NoGroup ELSE configs[n]

-----------------------------------------------------------------------------
(* What a clerk does next.  k is its record clerk[c]. *)

\* MakeClerk
NewClerk ==
    [ops |-> 0, seq |-> 0, leaderId |-> 0, config |-> 0, cmd |-> NoGroup,
     to |-> NoGroup, si |-> 0, try |-> 0, reply |-> "none", got |-> 0]

\* The operation returned, or there is none yet.
Idle(k) == k.to = NoGroup

\* The request goes to server si of service v.
Send(k, v, si) == [k EXCEPT !.to = v, !.si = si, !.reply = "sent"]

\* Mutant of NextServer: past the last server.
NextServerUnbounded(si) == si + 1

NextServer(si) == (si + 1) % NServers

\* The nested clerk of shardctrler asks for the latest configuration.
Query(k) == Send(k, "ctrl", 0)

\* shardkv: to the group that has the shard in the known configuration; if it
\* has none, the clerk sleeps and asks for the latest configuration.
ToGroup(k) == IF Owner(k.config) \in Group THEN Send(k, Owner(k.config), 0)
                                           ELSE Query(k)

\* Mutant of Begun: the request has the number of the last one.
BegunSameSeq(k, pkg) ==
    CASE pkg = "kvraft"      -> Send(k, "kv", k.leaderId)
      [] pkg = "shardctrler" -> Send(k, "ctrl", 0)
      [] pkg = "shardkv"     -> ToGroup(k)

\* An operation is called.
Begun(k, pkg) ==
    CASE pkg = "kvraft"      -> Send([k EXCEPT !.seq = @ + 1], "kv", k.leaderId)
      [] pkg = "shardctrler" -> Send(k, "ctrl", 0)
      [] pkg = "shardkv"     -> ToGroup(k)

\* The call succeeded.
Answered(k, pkg) ==
    LET returned == [k EXCEPT !.to = NoGroup, !.si = 0, !.try = 0, !.reply = "none",
                              !.cmd = NoGroup]
    IN  CASE pkg = "kvraft"      -> [returned EXCEPT !.leaderId = k.si]
          [] pkg = "shardctrler" -> returned
          [] pkg = "shardkv"     -> IF k.to = "ctrl" THEN ToGroup([k EXCEPT !.config = k.got])
                                                     ELSE returned

\* Mutant of Retried: every attempt has a number of its own.
RetriedNewSeq(k, wrongGroup) ==
    Send([k EXCEPT !.seq = @ + 1], k.to, NextServer(k.si))

\* Mutant of Retried: the configuration is not asked for again.
RetriedSameConfig(k, wrongGroup) == Send(k, k.to, NextServer(k.si))

(***************************************************************************)
(* The call failed, or the server answered that it is not the leader or    *)
(* that its group does not have the shard.  The next server is asked; a    *)
(* clerk of shardkv that has asked all, or the wrong group, sleeps and     *)
(* asks for the latest configuration.                                      *)
(***************************************************************************)
Retried(k, wrongGroup) ==
    IF k.to \in Group /\ (wrongGroup \/ k.si + 1 = NServers)
      THEN Query(k)
      ELSE Send(k, k.to, NextServer(k.si))

-----------------------------------------------------------------------------
(* The clerks *)

\* Get, Put or Append; Join, Leave or Move, which give the shard to g.
Begin(c, g) ==
    /\ Idle(clerk[c]) /\ clerk[c].ops < MaxOps
    /\ kind[c] # "shardctrler" => g = NoGroup
    /\ clerk' = [clerk EXCEPT ![c] =
                    [Begun(clerk[c], kind[c]) EXCEPT !.ops = @ + 1, !.cmd = g]]
    /\ UNCHANGED <<kind, service>>

\* A reply arrives.
Reply(c) ==
    LET k == clerk[c]
    IN  /\ k.reply \in {"ok", "wrongLeader", "wrongGroup"}
        /\ clerk' = [clerk EXCEPT ![c] =
                        IF k.reply = "ok" THEN Answered(k, kind[c])
                                          ELSE Retried(k, k.reply = "wrongGroup")]
        /\ UNCHANGED <<kind, service>>

\* Call returns false: the request or the reply is lost, or the server died.
Fail(c) ==
    /\ ~Idle(clerk[c]) /\ failures < MaxFailures
    /\ failures' = failures + 1
    /\ clerk' = [clerk EXCEPT ![c] = Retried(clerk[c], FALSE)]
    /\ UNCHANGED <<kind, leader, pending, executed, configs, changes>>

-----------------------------------------------------------------------------
(* The services *)

\* A request arrives at a server; a leader starts to replicate it, and
\* answers a Query with the latest configuration.
Arrive(c) ==
    LET k     == clerk[c]
        query == k.to = "ctrl" /\ kind[c] = "shardkv"
        Is(r) == clerk' = [clerk EXCEPT ![c].reply = r] /\ UNCHANGED pending
    IN  /\ k.reply = "sent"
        /\ \/ k.si # leader[k.to] /\ Is("wrongLeader")
           \/ /\ k.si = leader[k.to] /\ k.to \in Group /\ Owner(Len(configs)) # k.to
              /\ Is("wrongGroup")
           \/ /\ k.si = leader[k.to] /\ query
              /\ clerk' = [clerk EXCEPT ![c].reply = "ok", ![c].got = Len(configs)]
              /\ UNCHANGED pending
           \/ /\ k.si = leader[k.to] /\ ~query
              /\ k.to \in Group => Owner(Len(configs)) = k.to
              /\ pending' = pending \cup
                    {[client |-> c, op |-> k.ops, seq |-> k.seq, cmd |-> k.cmd,
                      to |-> k.to, try |-> k.try + 1]}
              /\ clerk' = [clerk EXCEPT ![c].reply = "waiting", ![c].try = k.try + 1]
        /\ UNCHANGED <<kind, leader, executed, configs, failures, changes>>

\* kvraft: the request of the client, or a later one, was executed already.
Seen(r) ==
    /\ r.to = "kv"
    /\ \E i \in DOMAIN executed : executed[i].client = r.client /\ executed[i].seq >= r.seq

\* A request has been replicated.  A group that has lost the shard rejects it.
Execute(r) ==
    LET k == clerk[r.client]
        lost == r.to \in Group /\ Owner(Len(configs)) # r.to
        waits == k.reply = "waiting" /\ k.ops = r.op /\ k.try = r.try
    IN  /\ r \in pending
        /\ pending' = pending \ {r}
        /\ executed' = IF Seen(r) \/ lost THEN executed ELSE Append(executed, r)
        /\ configs' = IF r.to = "ctrl" THEN Append(configs, r.cmd) ELSE configs
        /\ clerk' = IF ~waits THEN clerk
                    ELSE [clerk EXCEPT ![r.client].reply = IF lost THEN "wrongGroup" ELSE "ok"]
        /\ UNCHANGED <<kind, leader, failures, changes>>

\* Another server leads the service.  Some of what the old one replicated is
\* lost, some may be executed later; the old one tells who is waiting.
ChangeLeader(v, s) ==
    /\ changes < MaxChanges /\ s # leader[v]
    /\ v = "kv" <=> kind[Admin] = "kvraft"
    /\ changes' = changes + 1
    /\ leader' = [leader EXCEPT ![v] = s]
    /\ \E gone \in SUBSET {r \in pending : r.to = v} : pending' = pending \ gone
    /\ clerk' = [c \in Client |->
                    IF clerk[c].to = v /\ clerk[c].reply = "waiting"
                      THEN [clerk[c] EXCEPT !.reply = "wrongLeader"] ELSE clerk[c]]
    /\ UNCHANGED <<kind, executed, configs, failures>>

-----------------------------------------------------------------------------
\* All clients use kvraft; or Admin administers and the others use shardkv.
Kinds ==
    {[c \in Client |-> "kvraft"],
     [c \in Client |-> IF c = Admin THEN "shardctrler" ELSE "shardkv"]}

Init ==
    /\ kind \in Kinds
    /\ clerk = [c \in Client |-> NewClerk]
    /\ leader = [v \in Service |-> NServers - 1]
    /\ pending = {} /\ executed = <<>> /\ configs = <<>>
    /\ failures = 0 /\ changes = 0

Next ==
    \/ \E c \in Client :
         \/ \E g \in Group \cup {NoGroup} : Begin(c, g)
         \/ Reply(c) \/ Fail(c) \/ Arrive(c)
    \/ \E r \in pending : Execute(r)
    \/ \E v \in Service, s \in Servers : ChangeLeader(v, s)

Spec == Init /\ [][Next]_vars

\* Calls return, and a service with a leader replicates.
FairSpec ==
    /\ Spec
    /\ \A c \in Client : WF_vars(Arrive(c)) /\ WF_vars(Reply(c))
    /\ WF_vars(\E r \in pending : Execute(r))

-----------------------------------------------------------------------------
\* How often the n-th operation of a client was executed.
Times(c, n) ==
    Cardinality({i \in DOMAIN executed : executed[i].client = c /\ executed[i].op = n})

\* The operations of the client that have returned.
Returned(c) == 1..(clerk[c].ops - (IF Idle(clerk[c]) THEN 0 ELSE 1))

\* The fields of the clerks and of the services have their types.
TypeOK ==
    /\ DOMAIN clerk = Client
    /\ \A c \in Client : /\ clerk[c].to \in Service \cup {NoGroup} /\ clerk[c].si \in Servers
                         /\ clerk[c].config \in 0..Len(configs)
    /\ leader \in [Service -> Servers]

(***************************************************************************)
(* What has returned was executed.  A call can be answered for an earlier  *)
(* attempt of the same operation, but never for an earlier operation.      *)
(***************************************************************************)
ReturnedIsExecuted ==
    \A c \in Client : \A n \in Returned(c) : Times(c, n) >= 1

(***************************************************************************)
(* kvraft: nothing is executed twice, although an operation whose reply    *)
(* was lost is requested again, and a request given up for lost may be     *)
(* executed while later operations run: all attempts share one Seq.        *)
(***************************************************************************)
ExecutedOnce ==
    \A c \in Client : kind[c] = "kvraft" => \A n \in 1..clerk[c].ops : Times(c, n) <= 1

\* The service the client uses can serve it: in shardkv, a group has the shard.
Served(c) == kind[c] = "shardkv" => Owner(Len(configs)) # NoGroup

(***************************************************************************)
(* An operation returns, however the leaders and the configuration have    *)
(* changed meanwhile, unless its shard has lost its group.  A clerk of     *)
(* shardkv starts with an empty configuration, and the one it has is       *)
(* stale after every change.                                               *)
(***************************************************************************)
EveryOperationReturns ==
    \A c \in Client :
      (~Idle(clerk[c]) /\ Served(c)) ~> (Idle(clerk[c]) \/ ~Served(c))
=============================================================================
