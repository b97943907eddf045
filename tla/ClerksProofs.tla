---------------------------- MODULE ClerksProofs ----------------------------
(***************************************************************************)
(* Proofs about the clerks of the replicated services, for any number of   *)
(* clients, servers, operations, failed calls and changes of leaders:      *)
(* what has returned was executed, and in kvraft once.                     *)
(***************************************************************************)
EXTENDS Clerks, SequenceTheorems, FiniteSetTheorems, TLAPS

Package == {"kvraft", "shardctrler", "shardkv"}

\* The fields of a clerk and the variables of its operation.
ClerkState ==
    [ops : Nat, seq : Nat, leaderId : Servers, config : Nat, cmd : Group \cup {NoGroup},
     to : Service \cup {NoGroup}, si : Servers, try : Nat,
     reply : {"none", "sent", "waiting", "ok", "wrongLeader", "wrongGroup"}, got : Nat]

Request ==
    [client : Client, op : Nat, seq : Nat, cmd : Group \cup {NoGroup}, to : Service, try : Nat]

\* The n-th operation of client c has been executed.
Done(c, n) == \E i \in DOMAIN executed : executed[i].client = c /\ executed[i].op = n

\* The clerk asks for the latest configuration.
Queries(k, pkg) == k.to = "ctrl" /\ pkg = "shardkv"

\* The clerk after the first request of an operation.
Started(k, pkg, g) == [Begun(k, pkg) EXCEPT !.ops = @ + 1, !.cmd = g]

-----------------------------------------------------------------------------
(***************************************************************************)
(* The inductive invariant.  A clerk of kvraft has one Seq per operation,  *)
(* and so have its requests, which are of operations it has begun; an      *)
(* operation that is answered "ok" has been executed, and so have all      *)
(* before it.                                                              *)
(***************************************************************************)
ClerkFits(k, pkg) ==
    /\ k \in ClerkState
    /\ k.to = NoGroup <=> k.reply = "none"
    /\ k.to # NoGroup => k.ops >= 1
    /\ pkg = "kvraft" => k.to \in {"kv", NoGroup} /\ k.seq = k.ops
    /\ pkg # "kvraft" => k.to # "kv"
    /\ k.config <= Len(configs) /\ k.got <= Len(configs)

RequestFits(r) ==
    /\ r \in Request
    /\ 1 <= r.op /\ r.op <= clerk[r.client].ops
    /\ r.to = "kv" <=> kind[r.client] = "kvraft"
    /\ kind[r.client] = "kvraft" => r.seq = r.op

Types ==
    /\ kind \in [Client -> Package]
    /\ clerk \in [Client -> ClerkState]
    /\ leader \in [Service -> Servers]
    /\ configs \in Seq(Group \cup {NoGroup})
    /\ executed \in Seq(Request)

RequestsFit ==
    /\ \A r \in pending : RequestFits(r)
    /\ \A i \in DOMAIN executed : RequestFits(executed[i])

AnsweredIsDone ==
    \A c \in Client :
        /\ clerk[c].reply = "ok" /\ ~Queries(clerk[c], kind[c]) => Done(c, clerk[c].ops)
        /\ \A n \in Returned(c) : Done(c, n)

NoSecondTime ==
    \A i, j \in DOMAIN executed :
        executed[i].client = executed[j].client /\ executed[i].op = executed[j].op
          /\ kind[executed[i].client] = "kvraft" => i = j

ClerksInv ==
    /\ Types
    /\ \A c \in Client : ClerkFits(clerk[c], kind[c])
    /\ RequestsFit
    /\ AnsweredIsDone
    /\ NoSecondTime

-----------------------------------------------------------------------------
(* What a clerk does next *)

\* The services have names, and no group is called like one of them.
LEMMA Names ==
    /\ "kv" \in Service /\ "ctrl" \in Service /\ Group \subseteq Service
    /\ NoGroup \notin Service /\ "kv" \notin Group /\ "ctrl" \notin Group
    /\ 0 \in Servers /\ NServers - 1 \in Servers /\ \A i \in Servers : NextServer(i) \in Servers
<1>1. /\ "kv" \in Service /\ "ctrl" \in Service /\ Group \subseteq Service
      /\ NoGroup \notin Service /\ "kv" \notin Group /\ "ctrl" \notin Group
  BY ClerksAssumption DEF Service, NoGroup
<1>2. 0 \in Servers /\ NServers - 1 \in Servers
  BY ClerksAssumption DEF Servers
<1>3. \A i \in Servers : NextServer(i) \in Servers
  BY ClerksAssumption DEF Servers, NextServer
<1>. QED
  BY <1>1, <1>2, <1>3

\* A request is sent: the variables of the operation change.
LEMMA SendIn ==
    ASSUME NEW k \in ClerkState, NEW v \in Service, NEW si \in Servers
    PROVE  /\ Send(k, v, si) \in ClerkState
           /\ Send(k, v, si).to = v /\ Send(k, v, si).reply = "sent"
           /\ Send(k, v, si).ops = k.ops /\ Send(k, v, si).seq = k.seq
           /\ Send(k, v, si).config = k.config /\ Send(k, v, si).got = k.got
BY DEF Send, ClerkState

\* A clerk of shardkv goes to the group of the shard, or asks for it.
LEMMA ToGroupIn ==
    ASSUME NEW k \in ClerkState
    PROVE  /\ ToGroup(k) \in ClerkState
           /\ ToGroup(k).to \in Group \cup {"ctrl"} /\ ToGroup(k).reply = "sent"
           /\ ToGroup(k).ops = k.ops /\ ToGroup(k).seq = k.seq
           /\ ToGroup(k).config = k.config /\ ToGroup(k).got = k.got
<1>1. 0 \in Servers /\ \A v \in Group \cup {"ctrl"} : v \in Service
  BY Names
<1>2. \E v \in Group \cup {"ctrl"} : ToGroup(k) = Send(k, v, 0)
  BY DEF ToGroup, Query
<1>3. PICK v \in Group \cup {"ctrl"} : ToGroup(k) = Send(k, v, 0)
  BY <1>2
<1>4. v \in Service
  BY <1>1
<1>. QED
  BY <1>1, <1>3, <1>4, SendIn

\* A call that has failed is made again.
LEMMA RetriedFits ==
    ASSUME NEW k, NEW pkg, ClerkFits(k, pkg), k.to # NoGroup, NEW wrongGroup
    PROVE  /\ ClerkFits(Retried(k, wrongGroup), pkg) /\ Retried(k, wrongGroup).ops = k.ops
           /\ Retried(k, wrongGroup).reply = "sent" /\ Retried(k, wrongGroup).to # NoGroup
<1>1. /\ k \in ClerkState /\ k.to \in Service /\ k.si \in Servers
  BY DEF ClerkFits, ClerkState
<1>. DEFINE si == NextServer(k.si)
            v  == k.to
            h  == Retried(k, wrongGroup)
<1>2. si \in Servers /\ v \in Service /\ 0 \in Servers /\ "ctrl" \in Service
  BY <1>1, Names
<1>3. h = Send(k, v, si) \/ (h = Send(k, "ctrl", 0) /\ v \in Group)
  BY DEF Retried, Query
<1>. HIDE DEF si, h
<1>4. /\ h \in ClerkState /\ h.reply = "sent" /\ h.ops = k.ops /\ h.seq = k.seq
      /\ h.config = k.config /\ h.got = k.got
      /\ h.to = k.to \/ (h.to = "ctrl" /\ k.to \in Group)
  <2>1. /\ Send(k, v, si) \in ClerkState /\ Send(k, v, si).reply = "sent"
        /\ Send(k, v, si).ops = k.ops /\ Send(k, v, si).seq = k.seq
        /\ Send(k, v, si).config = k.config /\ Send(k, v, si).got = k.got
        /\ Send(k, v, si).to = v
    <3>. HIDE DEF v
    <3>. QED
      BY <1>1, <1>2, SendIn
  <2>2. /\ Send(k, "ctrl", 0) \in ClerkState /\ Send(k, "ctrl", 0).reply = "sent"
        /\ Send(k, "ctrl", 0).ops = k.ops /\ Send(k, "ctrl", 0).seq = k.seq
        /\ Send(k, "ctrl", 0).config = k.config /\ Send(k, "ctrl", 0).got = k.got
        /\ Send(k, "ctrl", 0).to = "ctrl"
    BY <1>1, <1>2, SendIn
  <2>. QED
    BY <1>3, <2>1, <2>2
<1>5. "ctrl" # NoGroup /\ (k.to \in Group => k.to # "kv") /\ "ctrl" # "kv"
  BY Names DEF NoGroup
<1>6. ClerkFits(h, pkg)
  BY <1>4, <1>5 DEF ClerkFits
<1>. QED
  BY <1>4, <1>5, <1>6 DEF h

\* An operation begins with its first request.
LEMMA BegunFits ==
    ASSUME NEW k, NEW pkg \in Package, ClerkFits(k, pkg), NEW g \in Group \cup {NoGroup}
    PROVE  /\ ClerkFits(Started(k, pkg, g), pkg) /\ Started(k, pkg, g).ops = k.ops + 1
           /\ Started(k, pkg, g).reply = "sent" /\ Started(k, pkg, g).to # NoGroup
<1>1. k \in ClerkState /\ k.leaderId \in Servers /\ k.ops \in Nat /\ k.seq \in Nat
  BY DEF ClerkFits, ClerkState
<1>. DEFINE x == Begun(k, pkg)
            h == [x EXCEPT !.ops = x.ops + 1, !.cmd = g]
<1>2. /\ x \in ClerkState /\ x.reply = "sent" /\ x.ops = k.ops
      /\ x.config = k.config /\ x.got = k.got
      /\ x.seq = IF pkg = "kvraft" THEN k.seq + 1 ELSE k.seq
      /\ x.to \in IF pkg = "kvraft" THEN {"kv"} ELSE Group \cup {"ctrl"}
  <2>1. CASE pkg = "kvraft"
    <3>. DEFINE n == k.seq + 1
                y == [k EXCEPT !.seq = n]
    <3>1. n \in Nat
      BY <1>1
    <3>2. x = Send(y, "kv", k.leaderId)
      BY <2>1 DEF Begun
    <3>. HIDE DEF n
    <3>3. /\ y \in ClerkState /\ y.ops = k.ops /\ y.seq = n
          /\ y.config = k.config /\ y.got = k.got
      BY <1>1, <3>1 DEF ClerkState
    <3>. HIDE DEF x, y
    <3>4. "kv" \in Service
      BY Names
    <3>. QED
      BY <1>1, <2>1, <3>2, <3>3, <3>4, SendIn DEF n
  <2>2. CASE pkg = "shardctrler"
    <3>1. x = Send(k, "ctrl", 0) /\ "ctrl" \in Service /\ 0 \in Servers
      BY <2>2, Names DEF Begun
    <3>. HIDE DEF x
    <3>. QED
      BY <1>1, <2>2, <3>1, SendIn
  <2>3. CASE pkg = "shardkv"
    <3>1. x = ToGroup(k)
      BY <2>3 DEF Begun
    <3>. HIDE DEF x
    <3>. QED
      BY <1>1, <2>3, <3>1, ToGroupIn
  <2>. QED
    BY <2>1, <2>2, <2>3 DEF Package
<1>. HIDE DEF x
<1>3. /\ h \in ClerkState /\ h.ops = k.ops + 1 /\ h.reply = "sent" /\ h.to = x.to
      /\ h.seq = x.seq /\ h.config = x.config /\ h.got = x.got
  <2>. DEFINE n == x.ops + 1
  <2>1. n \in Nat
    BY <1>1, <1>2
  <2>2. h = [x EXCEPT !.ops = n, !.cmd = g]
    OBVIOUS
  <2>. HIDE DEF n, h
  <2>3. /\ h \in ClerkState /\ h.ops = n /\ h.reply = x.reply /\ h.to = x.to
        /\ h.seq = x.seq /\ h.config = x.config /\ h.got = x.got
    BY <1>2, <2>1, <2>2 DEF ClerkState
  <2>. QED
    BY <1>2, <2>3 DEF n
<1>. HIDE DEF h
<1>4. x.to # NoGroup /\ (pkg # "kvraft" => x.to # "kv")
  BY <1>2, Names DEF NoGroup
<1>5. /\ k.config <= Len(configs) /\ k.got <= Len(configs)
      /\ pkg = "kvraft" => k.seq = k.ops
  BY DEF ClerkFits
<1>6. ClerkFits(h, pkg)
  BY <1>1, <1>2, <1>3, <1>4, <1>5 DEF ClerkFits
<1>7. ClerkFits(h, pkg) /\ h.ops = k.ops + 1 /\ h.reply = "sent" /\ h.to # NoGroup
  BY <1>3, <1>4, <1>6
<1>. QED
  BY <1>7 DEF h, x, Started

\* A call succeeded: the operation returns, or goes on to the group.
LEMMA AnsweredFits ==
    ASSUME NEW k, NEW pkg \in Package, ClerkFits(k, pkg), k.to # NoGroup
    PROVE  /\ ClerkFits(Answered(k, pkg), pkg) /\ Answered(k, pkg).ops = k.ops
           /\ IF Queries(k, pkg) THEN Answered(k, pkg).to # NoGroup /\ Answered(k, pkg).reply = "sent"
                                 ELSE Answered(k, pkg).to = NoGroup /\ Answered(k, pkg).reply = "none"
<1>. DEFINE returned == [k EXCEPT !.to = NoGroup, !.si = 0, !.try = 0, !.reply = "none",
                                  !.cmd = NoGroup]
            y == [k EXCEPT !.config = k.got]
            h == Answered(k, pkg)
<1>1. k \in ClerkState /\ k.si \in Servers /\ 0 \in Servers /\ k.got \in Nat
  BY Names DEF ClerkFits, ClerkState
<1>2. /\ returned \in ClerkState /\ returned.to = NoGroup /\ returned.reply = "none"
      /\ returned.ops = k.ops /\ returned.seq = k.seq
      /\ returned.config = k.config /\ returned.got = k.got
  BY <1>1 DEF ClerkState
<1>3. CASE Queries(k, pkg)
  <2>1. pkg = "shardkv" /\ h = ToGroup(y)
    BY <1>3 DEF Queries, Answered
  <2>2. /\ y \in ClerkState /\ y.ops = k.ops /\ y.config = k.got /\ y.got = k.got
    BY <1>1 DEF ClerkState
  <2>. HIDE DEF y, h
  <2>3. /\ h \in ClerkState /\ h.to \in Group \cup {"ctrl"} /\ h.reply = "sent" /\ h.ops = k.ops
        /\ h.config = k.got /\ h.got = k.got
    BY <2>1, <2>2, ToGroupIn
  <2>4. h.to # NoGroup /\ h.to # "kv"
    BY <2>3, Names DEF NoGroup
  <2>5. ClerkFits(h, pkg)
    BY <2>1, <2>3, <2>4 DEF ClerkFits
  <2>. QED
    BY <1>3, <2>3, <2>4, <2>5 DEF h
<1>4. CASE ~Queries(k, pkg)
  <2>1. /\ h \in ClerkState /\ h.to = NoGroup /\ h.reply = "none"
        /\ h.ops = k.ops /\ h.seq = k.seq /\ h.config = k.config /\ h.got = k.got
    <3>1. CASE pkg = "kvraft"
      <4>1. h = [returned EXCEPT !.leaderId = k.si]
        BY <3>1 DEF Answered
      <4>. HIDE DEF returned, h
      <4>. QED
        BY <1>1, <1>2, <4>1 DEF ClerkState
    <3>2. CASE pkg # "kvraft"
      <4>1. h = returned
        BY <1>4, <3>2 DEF Answered, Queries, Package
      <4>. HIDE DEF returned, h
      <4>. QED
        BY <1>2, <4>1
    <3>. QED
      BY <3>1, <3>2
  <2>. HIDE DEF h
  <2>2. NoGroup # "kv"
    BY DEF NoGroup
  <2>3. ClerkFits(h, pkg)
    BY <2>1, <2>2 DEF ClerkFits
  <2>. QED
    BY <1>4, <2>1, <2>3 DEF h
<1>. QED
  BY <1>3, <1>4

-----------------------------------------------------------------------------
(* One lemma per action *)

\* One clerk changes, and the services do not.
LEMMA ClerkKeeps ==
    ASSUME ClerksInv, NEW c \in Client, NEW h, ClerkFits(h, kind[c]),
           clerk' = [clerk EXCEPT ![c] = h], UNCHANGED <<kind, leader, executed, configs>>,
           h.ops >= clerk[c].ops,
           h.reply = "ok" /\ ~Queries(h, kind[c]) => Done(c, h.ops),
           \A n \in 1..(h.ops - (IF Idle(h) THEN 0 ELSE 1)) : Done(c, n),
           \A r \in pending' : r \in pending \/ RequestFits(r)'
    PROVE  ClerksInv'
<1>1. Types /\ RequestsFit /\ AnsweredIsDone /\ NoSecondTime
      /\ \A d \in Client : ClerkFits(clerk[d], kind[d])
  BY DEF ClerksInv
<1>2. clerk \in [Client -> ClerkState] /\ h \in ClerkState
  BY <1>1 DEF Types, ClerkFits
<1>3. /\ clerk' \in [Client -> ClerkState] /\ clerk'[c] = h
      /\ \A d \in Client : d # c => clerk'[d] = clerk[d]
  BY <1>2
<1>4. Types'
  BY <1>1, <1>3 DEF Types
<1>5. \A d \in Client : ClerkFits(clerk'[d], kind[d])
  BY <1>1, <1>3
<1>6. (\A d \in Client : ClerkFits(clerk[d], kind[d]))'
  BY <1>5 DEF ClerkFits
<1>7. ASSUME NEW r, RequestFits(r) PROVE RequestFits(r)'
  <2>1. r \in Request /\ r.client \in Client /\ r.op \in Nat
    BY <1>7 DEF RequestFits, Request
  <2>2. clerk[r.client].ops \in Nat /\ clerk'[r.client].ops \in Nat
    BY <1>2, <1>3, <2>1 DEF ClerkState
  <2>3. clerk[r.client].ops <= clerk'[r.client].ops
    BY <1>3, <2>1, <2>2
  <2>. QED
    BY <1>7, <2>1, <2>2, <2>3 DEF RequestFits
<1>8. RequestsFit'
  <2>1. \A r \in pending' : RequestFits(r)'
    BY <1>1, <1>7 DEF RequestsFit
  <2>2. \A i \in DOMAIN executed : RequestFits(executed[i])'
    BY <1>1, <1>7 DEF RequestsFit
  <2>. QED
    BY <2>1, <2>2 DEF RequestsFit
<1>9. AnsweredIsDone'
  <2>1. \A d, n : Done(d, n)' <=> Done(d, n)
    BY DEF Done
  <2>2. \A n \in (1..(h.ops - (IF Idle(h) THEN 0 ELSE 1))) : Done(c, n)'
    BY <2>1
  <2>3. ASSUME NEW d \in Client
        PROVE  /\ clerk'[d].reply = "ok" /\ ~Queries(clerk'[d], kind[d]) => Done(d, clerk'[d].ops)
               /\ \A n \in 1..(clerk'[d].ops - (IF Idle(clerk'[d]) THEN 0 ELSE 1)) : Done(d, n)
    <3>1. CASE d = c
      BY <1>3, <3>1
    <3>2. CASE d # c
      BY <1>1, <1>3, <3>2 DEF AnsweredIsDone, Returned
    <3>. QED
      BY <3>1, <3>2
  <2>. QED
    BY <2>3 DEF AnsweredIsDone, Returned, Done, Queries, Idle
<1>10. NoSecondTime'
  BY <1>1 DEF NoSecondTime
<1>. QED
  BY <1>4, <1>6, <1>8, <1>9, <1>10 DEF ClerksInv

\* The clerk of a client, and what it has got back so far.
LEMMA OneClerk ==
    ASSUME ClerksInv, NEW c \in Client
    PROVE  /\ kind[c] \in Package /\ ClerkFits(clerk[c], kind[c])
           /\ clerk[c] \in ClerkState /\ clerk[c].ops \in Nat
           /\ clerk[c].reply = "ok" /\ ~Queries(clerk[c], kind[c]) => Done(c, clerk[c].ops)
           /\ \A n \in 1..(clerk[c].ops - (IF Idle(clerk[c]) THEN 0 ELSE 1)) : Done(c, n)
<1>1. kind[c] \in Package /\ ClerkFits(clerk[c], kind[c]) /\ clerk[c] \in ClerkState
  BY DEF ClerksInv, Types
<1>2. clerk[c].ops \in Nat
  BY <1>1 DEF ClerkState
<1>. QED
  BY <1>1, <1>2 DEF ClerksInv, AnsweredIsDone, Returned

\* An operation begins: all earlier ones have returned.
LEMMA BeginKeeps ==
    ASSUME ClerksInv, NEW c \in Client, NEW g \in Group \cup {NoGroup}, Begin(c, g)
    PROVE  ClerksInv'
<1>. DEFINE k == clerk[c]
            h == Started(k, kind[c], g)
<1>1. /\ Idle(k) /\ clerk' = [clerk EXCEPT ![c] = h]
      /\ UNCHANGED <<kind, leader, executed, configs>> /\ pending' = pending
  BY DEF Begin, service, Started
<1>2. ClerkFits(h, kind[c]) /\ h.ops = k.ops + 1 /\ h.reply = "sent" /\ h.to # NoGroup
  <2>1. kind[c] \in Package /\ ClerkFits(k, kind[c])
    BY OneClerk
  <2>. HIDE DEF k
  <2>. QED
    BY <2>1, BegunFits
<1>3. k.ops \in Nat /\ \A n \in 1..(k.ops - 0) : Done(c, n)
  BY <1>1, OneClerk
<1>. HIDE DEF h, k
<1>4. ~Idle(h) /\ h.ops - 1 = k.ops - 0 /\ h.ops >= k.ops
  BY <1>2, <1>3 DEF Idle
<1>5. \A n \in 1..(h.ops - (IF Idle(h) THEN 0 ELSE 1)) : Done(c, n)
  BY <1>3, <1>4
<1>. QED
  BY <1>1, <1>2, <1>4, <1>5, ClerkKeeps DEF k

\* A reply arrives, and the operation returns or is requested again.
LEMMA ReplyKeeps ==
    ASSUME ClerksInv, NEW c \in Client, Reply(c)
    PROVE  ClerksInv'
<1>. DEFINE k == clerk[c]
            h == IF k.reply = "ok" THEN Answered(k, kind[c])
                                   ELSE Retried(k, k.reply = "wrongGroup")
<1>1. /\ k.reply \in {"ok", "wrongLeader", "wrongGroup"} /\ clerk' = [clerk EXCEPT ![c] = h]
      /\ UNCHANGED <<kind, leader, executed, configs>> /\ pending' = pending
  BY DEF Reply, service
<1>2. /\ kind[c] \in Package /\ ClerkFits(k, kind[c]) /\ k.ops \in Nat
      /\ k.reply = "ok" /\ ~Queries(k, kind[c]) => Done(c, k.ops)
      /\ \A n \in 1..(k.ops - (IF Idle(k) THEN 0 ELSE 1)) : Done(c, n)
  BY OneClerk
<1>. HIDE DEF k
<1>3. k.to # NoGroup /\ ~Idle(k)
  BY <1>1, <1>2 DEF ClerkFits, Idle
<1>4. CASE k.reply = "ok"
  <2>1. h = Answered(k, kind[c])
    BY <1>4
  <2>. HIDE DEF h
  <2>2. /\ ClerkFits(h, kind[c]) /\ h.ops = k.ops
        /\ IF Queries(k, kind[c]) THEN h.to # NoGroup /\ h.reply = "sent"
                                  ELSE h.to = NoGroup /\ h.reply = "none"
    BY <1>2, <1>3, <2>1, AnsweredFits
  <2>3. h.reply # "ok" /\ h.ops >= k.ops
    BY <1>2, <2>2
  <2>4. \A n \in 1..(h.ops - (IF Idle(h) THEN 0 ELSE 1)) : Done(c, n)
    <3>1. CASE Queries(k, kind[c])
      BY <1>2, <1>3, <2>2, <3>1 DEF Idle
    <3>2. CASE ~Queries(k, kind[c])
      <4>1. Done(c, k.ops)
        BY <1>2, <1>4, <3>2
      <4>2. \A n \in 1..(k.ops - 1) : Done(c, n)
        BY <1>2, <1>3
      <4>3. \A n \in 1..(k.ops - 0) : n \in 1..(k.ops - 1) \/ n = k.ops
        BY <1>2
      <4>. QED
        BY <2>2, <3>2, <4>1, <4>2, <4>3 DEF Idle
    <3>. QED
      BY <3>1, <3>2
  <2>. QED
    BY <1>1, <2>2, <2>3, <2>4, ClerkKeeps DEF k
<1>5. CASE k.reply # "ok"
  <2>1. h = Retried(k, k.reply = "wrongGroup")
    BY <1>5
  <2>. HIDE DEF h
  <2>2. ClerkFits(h, kind[c]) /\ h.ops = k.ops /\ h.reply = "sent" /\ h.to # NoGroup
    BY <1>2, <1>3, <2>1, RetriedFits
  <2>3. \A n \in 1..(h.ops - (IF Idle(h) THEN 0 ELSE 1)) : Done(c, n)
    BY <1>2, <1>3, <2>2 DEF Idle
  <2>4. h.ops >= k.ops
    BY <1>2, <2>2
  <2>. QED
    BY <1>1, <2>2, <2>3, <2>4, ClerkKeeps DEF k
<1>. QED
  BY <1>4, <1>5

\* A call fails: the same operation is requested again.
LEMMA FailKeeps ==
    ASSUME ClerksInv, NEW c \in Client, Fail(c)
    PROVE  ClerksInv'
<1>. DEFINE k == clerk[c]
            h == Retried(k, FALSE)
<1>1. /\ ~Idle(k) /\ clerk' = [clerk EXCEPT ![c] = h]
      /\ UNCHANGED <<kind, leader, executed, configs>> /\ pending' = pending
  BY DEF Fail
<1>2. /\ ClerkFits(k, kind[c]) /\ k.ops \in Nat
      /\ \A n \in 1..(k.ops - 1) : Done(c, n)
  BY <1>1, OneClerk
<1>. HIDE DEF k
<1>3. ClerkFits(h, kind[c]) /\ h.ops = k.ops /\ h.reply = "sent" /\ h.to # NoGroup
  BY <1>1, <1>2, RetriedFits DEF Idle
<1>. HIDE DEF h
<1>4. /\ \A n \in 1..(h.ops - (IF Idle(h) THEN 0 ELSE 1)) : Done(c, n)
      /\ h.ops >= k.ops
  BY <1>2, <1>3 DEF Idle
<1>. QED
  BY <1>1, <1>3, <1>4, ClerkKeeps DEF k

\* A request reaches a server, which refuses it or starts to replicate it.
LEMMA ArriveKeeps ==
    ASSUME ClerksInv, NEW c \in Client, Arrive(c)
    PROVE  ClerksInv'
<1>. DEFINE k == clerk[c]
            query == k.to = "ctrl" /\ kind[c] = "shardkv"
            r == [client |-> c, op |-> k.ops, seq |-> k.seq, cmd |-> k.cmd,
                  to |-> k.to, try |-> k.try + 1]
<1>1. k.reply = "sent" /\ UNCHANGED <<kind, leader, executed, configs>>
  BY DEF Arrive
<1>2. /\ kind[c] \in Package /\ ClerkFits(k, kind[c]) /\ k \in ClerkState /\ k.ops \in Nat
      /\ \A n \in 1..(k.ops - (IF Idle(k) THEN 0 ELSE 1)) : Done(c, n)
  BY OneClerk
<1>3. k.to # NoGroup /\ k.to \in Service /\ ~Idle(k) /\ k.ops >= 1
  BY <1>1, <1>2 DEF ClerkFits, ClerkState, Idle
<1>4. ASSUME NEW h \in ClerkState, clerk' = [clerk EXCEPT ![c] = h],
             h.ops = k.ops, h.seq = k.seq, h.to = k.to, h.config = k.config,
             h.got <= Len(configs), h.reply # "none",
             h.reply = "ok" => Queries(h, kind[c]),
             \A q \in pending' : q \in pending \/ RequestFits(q)'
      PROVE  ClerksInv'
  <2>. HIDE DEF k
  <2>1. ClerkFits(h, kind[c])
    BY <1>2, <1>3, <1>4 DEF ClerkFits
  <2>2. /\ \A n \in 1..(h.ops - (IF Idle(h) THEN 0 ELSE 1)) : Done(c, n)
        /\ h.ops >= k.ops
    BY <1>2, <1>3, <1>4 DEF Idle
  <2>. QED
    BY <1>1, <1>4, <2>1, <2>2, ClerkKeeps DEF k
<1>5. ASSUME NEW a \in {"wrongLeader", "wrongGroup"},
             clerk' = [clerk EXCEPT ![c].reply = a], pending' = pending
      PROVE  ClerksInv'
  <2>. DEFINE h == [k EXCEPT !.reply = a]
  <2>1. clerk' = [clerk EXCEPT ![c] = h]
    BY <1>5
  <2>. HIDE DEF k
  <2>2. /\ h \in ClerkState /\ h.ops = k.ops /\ h.seq = k.seq /\ h.to = k.to /\ h.config = k.config
        /\ h.got = k.got /\ h.reply = a
    BY <1>2 DEF ClerkState
  <2>. HIDE DEF h
  <2>3. h.got <= Len(configs)
    BY <1>2, <2>2 DEF ClerkFits
  <2>. QED
    BY <1>4, <1>5, <2>1, <2>2, <2>3
<1>6. ASSUME query, clerk' = [clerk EXCEPT ![c].reply = "ok", ![c].got = Len(configs)],
             pending' = pending
      PROVE  ClerksInv'
  <2>. DEFINE h == [k EXCEPT !.reply = "ok", !.got = Len(configs)]
  <2>1. clerk \in [Client -> ClerkState] /\ Len(configs) \in Nat
    BY DEF ClerksInv, Types
  <2>2. clerk' = [clerk EXCEPT ![c] = h]
    BY <1>6, <2>1
  <2>. HIDE DEF k
  <2>3. /\ h \in ClerkState /\ h.ops = k.ops /\ h.seq = k.seq /\ h.to = k.to /\ h.config = k.config
        /\ h.got = Len(configs) /\ h.reply = "ok"
    BY <1>2, <2>1 DEF ClerkState
  <2>. HIDE DEF h
  <2>4. Queries(h, kind[c]) /\ h.got <= Len(configs)
    BY <1>6, <2>1, <2>3 DEF Queries
  <2>. QED
    BY <1>4, <1>6, <2>2, <2>3, <2>4
<1>7. ASSUME pending' = pending \cup {r},
             clerk' = [clerk EXCEPT ![c].reply = "waiting", ![c].try = k.try + 1]
      PROVE  ClerksInv'
  <2>. DEFINE t == k.try + 1
              h == [k EXCEPT !.reply = "waiting", !.try = t]
  <2>1. clerk \in [Client -> ClerkState] /\ t \in Nat
    BY <1>2 DEF ClerksInv, Types, ClerkState
  <2>2. clerk' = [clerk EXCEPT ![c] = h]
    BY <1>7, <2>1
  <2>3. /\ r \in Request /\ r.client = c /\ r.op = k.ops /\ r.seq = k.seq /\ r.to = k.to
    BY <1>2, <1>3, <2>1 DEF ClerkState, Request
  <2>. HIDE DEF k, t, r
  <2>4. /\ h \in ClerkState /\ h.ops = k.ops /\ h.seq = k.seq /\ h.to = k.to /\ h.config = k.config
        /\ h.got = k.got /\ h.reply = "waiting"
    BY <1>2, <2>1 DEF ClerkState
  <2>. HIDE DEF h
  <2>5. h.got <= Len(configs)
    BY <1>2, <2>4 DEF ClerkFits
  <2>6. ASSUME NEW q, q = r PROVE RequestFits(q)'
    <3>1. clerk'[c] = h
      BY <2>1, <2>2
    <3>2. k.to = "kv" <=> kind[c] = "kvraft"
      BY <1>2, <1>3 DEF ClerkFits
    <3>3. kind[c] = "kvraft" => k.seq = k.ops
      BY <1>2 DEF ClerkFits
    <3>. QED
      BY <1>1, <1>2, <1>3, <2>3, <2>4, <2>6, <3>1, <3>2, <3>3 DEF RequestFits
  <2>. QED
    BY <1>4, <1>7, <2>2, <2>4, <2>5, <2>6
<1>. QED
  BY <1>5, <1>6, <1>7 DEF Arrive

\* What has been executed stays so.
LEMMA AppendedKeeps ==
    ASSUME executed \in Seq(Request), NEW r \in Request, executed' = Append(executed, r)
    PROVE  /\ executed' \in Seq(Request) /\ Len(executed) \in Nat
           /\ Len(executed') = Len(executed) + 1
           /\ DOMAIN executed = 1..Len(executed) /\ DOMAIN executed' = 1..(Len(executed) + 1)
           /\ \A i \in DOMAIN executed : executed'[i] = executed[i] /\ i \in DOMAIN executed'
           /\ \A i \in DOMAIN executed' : i \notin DOMAIN executed => i = Len(executed) + 1
           /\ executed'[Len(executed) + 1] = r
OBVIOUS

(***************************************************************************)
(* A request is executed, unless it has been already or the group has lost *)
(* the shard; who waits for it is told.                                    *)
(***************************************************************************)
LEMMA ExecuteKeeps ==
    ASSUME ClerksInv, NEW r \in pending, Execute(r)
    PROVE  ClerksInv'
<1>. DEFINE c == r.client
            k == clerk[c]
            lost == r.to \in Group /\ Owner(Len(configs)) # r.to
            waits == k.reply = "waiting" /\ k.ops = r.op /\ k.try = r.try
            n == Len(executed) + 1
<1>1. /\ Types /\ RequestsFit /\ AnsweredIsDone /\ NoSecondTime
      /\ \A d \in Client : ClerkFits(clerk[d], kind[d])
  BY DEF ClerksInv
<1>2. /\ RequestFits(r) /\ r \in Request /\ c \in Client /\ r.op \in Nat
      /\ r.cmd \in Group \cup {NoGroup}
  BY <1>1 DEF RequestsFit, RequestFits, Request
<1>3. /\ pending' = pending \ {r} /\ UNCHANGED <<kind, leader>>
      /\ executed' = IF Seen(r) \/ lost THEN executed ELSE Append(executed, r)
      /\ configs' = IF r.to = "ctrl" THEN Append(configs, r.cmd) ELSE configs
      /\ clerk' = IF ~waits THEN clerk
                  ELSE [clerk EXCEPT ![c].reply = IF lost THEN "wrongGroup" ELSE "ok"]
  BY DEF Execute
<1>4. clerk \in [Client -> ClerkState] /\ executed \in Seq(Request)
  BY <1>1 DEF Types
<1>5. /\ configs' \in Seq(Group \cup {NoGroup}) /\ Len(configs) \in Nat
      /\ Len(configs') \in Nat /\ Len(configs) <= Len(configs')
  BY <1>1, <1>2, <1>3 DEF Types
<1>6. /\ executed' \in Seq(Request)
      /\ \A i \in DOMAIN executed : i \in DOMAIN executed' /\ executed'[i] = executed[i]
      /\ \A i \in DOMAIN executed' : i \notin DOMAIN executed =>
            i = n /\ executed'[i] = r /\ ~Seen(r)
  BY <1>2, <1>3, <1>4, AppendedKeeps
<1>7. /\ clerk' \in [Client -> ClerkState]
      /\ \A d \in Client :
            /\ clerk'[d].ops = clerk[d].ops /\ clerk'[d].seq = clerk[d].seq
            /\ clerk'[d].to = clerk[d].to /\ clerk'[d].config = clerk[d].config
            /\ clerk'[d].got = clerk[d].got
            /\ clerk'[d].reply = clerk[d].reply
                 \/ (d = c /\ waits /\ clerk'[d].reply = IF lost THEN "wrongGroup" ELSE "ok")
  <2>1. CASE ~waits
    BY <1>3, <1>4, <2>1
  <2>2. CASE waits
    <3>. DEFINE a == IF lost THEN "wrongGroup" ELSE "ok"
                h == [k EXCEPT !.reply = a]
    <3>1. clerk' = [clerk EXCEPT ![c] = h]
      BY <1>3, <2>2
    <3>2. k \in ClerkState /\ a \in {"wrongGroup", "ok"}
      BY <1>2, <1>4
    <3>. HIDE DEF k, a, lost, waits
    <3>3. /\ h \in ClerkState /\ h.ops = k.ops /\ h.seq = k.seq /\ h.to = k.to
          /\ h.config = k.config /\ h.got = k.got /\ h.reply = a
      BY <3>2 DEF ClerkState
    <3>. HIDE DEF h
    <3>4. clerk' \in [Client -> ClerkState] /\ \A d \in Client : clerk'[d] = IF d = c THEN h ELSE clerk[d]
      BY <1>2, <1>4, <3>1, <3>3
    <3>. QED
      BY <2>2, <3>3, <3>4 DEF k, a
  <2>. QED
    BY <2>1, <2>2
<1>. HIDE DEF c, k, lost, waits, n
<1>8. Types'
  BY <1>1, <1>3, <1>5, <1>6, <1>7 DEF Types
<1>9. (\A d \in Client : ClerkFits(clerk[d], kind[d]))'
  <2>. SUFFICES ASSUME NEW d \in Client PROVE ClerkFits(clerk[d], kind[d])'
    OBVIOUS
  <2>1. ClerkFits(clerk[d], kind[d]) /\ clerk[d].config \in Nat /\ clerk[d].got \in Nat
    BY <1>1, <1>4 DEF ClerkState
  <2>2. clerk'[d].reply = "none" <=> clerk[d].reply = "none"
    BY <1>7 DEF waits, k
  <2>. QED
    BY <1>3, <1>5, <1>7, <2>1, <2>2 DEF ClerkFits
<1>10. RequestsFit'
  <2>1. ASSUME NEW q, RequestFits(q) PROVE RequestFits(q)'
    <3>1. q.client \in Client
      BY <2>1 DEF RequestFits, Request
    <3>. QED
      BY <1>3, <1>7, <2>1, <3>1 DEF RequestFits
  <2>2. \A q \in pending' : RequestFits(q)'
    BY <1>1, <1>3, <2>1 DEF RequestsFit
  <2>3. ASSUME NEW i \in DOMAIN executed' PROVE RequestFits(executed[i])'
    <3>1. PICK q : q = executed'[i]
      OBVIOUS
    <3>2. RequestFits(q)
      BY <1>1, <1>2, <1>6, <3>1 DEF RequestsFit
    <3>3. RequestFits(q)'
      BY <2>1, <3>2
    <3>. QED
      BY <3>1, <3>3 DEF RequestFits
  <2>. QED
    BY <2>2, <2>3 DEF RequestsFit
<1>11. ASSUME NEW d, NEW m, Done(d, m) PROVE Done(d, m)'
  BY <1>6, <1>11 DEF Done
<1>12. ~lost => Done(c, r.op)'
  <2>1. CASE Seen(r)
    <3>1. PICK i \in DOMAIN executed : executed[i].client = r.client /\ executed[i].seq >= r.seq
      BY <2>1 DEF Seen
    <3>2. kind[c] = "kvraft" /\ r.seq = r.op
      BY <1>2, <2>1 DEF Seen, RequestFits, c
    <3>3. /\ executed[i] \in Request /\ executed[i].op <= clerk[c].ops
          /\ executed[i].seq = executed[i].op /\ executed[i].op \in Nat
      BY <1>1, <3>1, <3>2 DEF RequestsFit, RequestFits, Request, c
    <3>4. 1 <= r.op /\ r.op <= executed[i].op /\ clerk[c].ops \in Nat
      BY <1>2, <1>4, <3>1, <3>2, <3>3 DEF RequestFits, ClerkState
    <3>5. CASE r.op = executed[i].op
      <4>1. Done(c, r.op)
        BY <3>1, <3>5 DEF Done, c
      <4>. QED
        BY <1>11, <4>1
    <3>6. CASE r.op # executed[i].op
      <4>1. r.op \in 1..(clerk[c].ops - (IF Idle(clerk[c]) THEN 0 ELSE 1))
        BY <1>2, <3>3, <3>4, <3>6
      <4>2. Done(c, r.op)
        BY <1>1, <1>2, <4>1 DEF AnsweredIsDone, Returned
      <4>. QED
        BY <1>11, <4>2
    <3>. QED
      BY <3>5, <3>6
  <2>2. CASE ~Seen(r)
    <3>. SUFFICES ASSUME ~lost PROVE Done(c, r.op)'
      OBVIOUS
    <3>1. executed' = Append(executed, r)
      BY <1>3, <2>2
    <3>2. n \in DOMAIN executed' /\ executed'[n] = r
      BY <1>2, <1>4, <3>1, AppendedKeeps DEF n
    <3>. QED
      BY <3>2 DEF Done, c
  <2>. QED
    BY <2>1, <2>2
<1>13. AnsweredIsDone'
  <2>1. ASSUME NEW d \in Client, NEW m \in Returned(d) PROVE Done(d, m)'
    BY <1>1, <1>11, <2>1 DEF AnsweredIsDone
  <2>2. ASSUME NEW d \in Client, NEW m, m = clerk[d].ops,
               clerk'[d].reply = "ok", ~Queries(clerk'[d], kind[d])
        PROVE  Done(d, m)'
    <3>1. CASE clerk'[d].reply = clerk[d].reply
      <4>1. Done(d, m)
        BY <1>1, <1>7, <2>2, <3>1 DEF AnsweredIsDone, Queries
      <4>. QED
        BY <1>11, <4>1
    <3>2. CASE clerk'[d].reply # clerk[d].reply
      <4>1. d = c /\ waits /\ ~lost
        BY <1>7, <2>2, <3>2
      <4>2. m = r.op
        BY <2>2, <4>1 DEF waits, k
      <4>. QED
        BY <1>12, <4>1, <4>2
    <3>. QED
      BY <3>1, <3>2
  <2>3. \A d \in Client : Returned(d)' = Returned(d) /\ clerk'[d].ops = clerk[d].ops
    BY <1>7 DEF Returned, Idle
  <2>. QED
    BY <1>3, <2>1, <2>2, <2>3 DEF AnsweredIsDone, Queries, Done
<1>14. NoSecondTime'
  <2>1. ASSUME NEW i \in DOMAIN executed, executed[i].client = r.client, executed[i].op = r.op,
               kind[r.client] = "kvraft", ~Seen(r)
        PROVE  FALSE
    <3>1. RequestFits(executed[i]) /\ r.to = "kv" /\ r.seq = r.op
      BY <1>1, <1>2, <2>1 DEF RequestsFit, RequestFits
    <3>2. executed[i].seq = r.seq /\ r.seq \in Nat
      BY <1>2, <2>1, <3>1 DEF RequestFits
    <3>. QED
      BY <2>1, <3>1, <3>2 DEF Seen
  <2>2. ASSUME NEW i \in DOMAIN executed', NEW j \in DOMAIN executed',
               executed'[i].client = executed'[j].client, executed'[i].op = executed'[j].op,
               kind[executed'[i].client] = "kvraft"
        PROVE  i = j
    <3>1. CASE i \in DOMAIN executed /\ j \in DOMAIN executed
      BY <1>1, <1>6, <2>2, <3>1 DEF NoSecondTime
    <3>2. CASE i \notin DOMAIN executed /\ j \in DOMAIN executed
      BY <1>6, <2>1, <2>2, <3>2
    <3>3. CASE i \in DOMAIN executed /\ j \notin DOMAIN executed
      BY <1>6, <2>1, <2>2, <3>3
    <3>4. CASE i \notin DOMAIN executed /\ j \notin DOMAIN executed
      BY <1>6, <3>4
    <3>. QED
      BY <3>1, <3>2, <3>3, <3>4
  <2>. QED
    BY <1>3, <2>2 DEF NoSecondTime
<1>. QED
  BY <1>8, <1>9, <1>10, <1>13, <1>14 DEF ClerksInv

\* Another server leads: what it replicated may be lost, and who waits is told.
LEMMA ChangeLeaderKeeps ==
    ASSUME ClerksInv, NEW v \in Service, NEW s \in Servers, ChangeLeader(v, s)
    PROVE  ClerksInv'
<1>1. /\ Types /\ RequestsFit /\ AnsweredIsDone /\ NoSecondTime
      /\ \A d \in Client : ClerkFits(clerk[d], kind[d])
  BY DEF ClerksInv
<1>2. /\ leader' = [leader EXCEPT ![v] = s] /\ pending' \subseteq pending
      /\ clerk' = [c \in Client |->
                     IF clerk[c].to = v /\ clerk[c].reply = "waiting"
                       THEN [clerk[c] EXCEPT !.reply = "wrongLeader"] ELSE clerk[c]]
      /\ UNCHANGED <<kind, executed, configs>>
  BY DEF ChangeLeader
<1>3. clerk \in [Client -> ClerkState]
  BY <1>1 DEF Types
<1>4. /\ clerk' \in [Client -> ClerkState]
      /\ \A d \in Client :
            /\ clerk'[d].ops = clerk[d].ops /\ clerk'[d].seq = clerk[d].seq
            /\ clerk'[d].to = clerk[d].to /\ clerk'[d].config = clerk[d].config
            /\ clerk'[d].got = clerk[d].got
            /\ clerk'[d].reply = clerk[d].reply
                 \/ (clerk[d].reply = "waiting" /\ clerk'[d].reply = "wrongLeader")
  BY <1>2, <1>3 DEF ClerkState
<1>5. Types'
  BY <1>1, <1>2, <1>4 DEF Types
<1>6. (\A d \in Client : ClerkFits(clerk[d], kind[d]))'
  <2>. SUFFICES ASSUME NEW d \in Client PROVE ClerkFits(clerk[d], kind[d])'
    OBVIOUS
  <2>1. clerk'[d].reply = "none" <=> clerk[d].reply = "none"
    BY <1>4
  <2>. QED
    BY <1>1, <1>2, <1>4, <2>1 DEF ClerkFits
<1>7. RequestsFit'
  <2>1. ASSUME NEW q, RequestFits(q) PROVE RequestFits(q)'
    <3>1. q.client \in Client
      BY <2>1 DEF RequestFits, Request
    <3>. QED
      BY <1>2, <1>4, <2>1, <3>1 DEF RequestFits
  <2>2. \A q \in pending' : RequestFits(q)'
    BY <1>1, <1>2, <2>1 DEF RequestsFit
  <2>3. \A i \in DOMAIN executed : RequestFits(executed[i])'
    BY <1>1, <1>2, <2>1 DEF RequestsFit
  <2>. QED
    BY <1>2, <2>2, <2>3 DEF RequestsFit
<1>8. AnsweredIsDone'
  BY <1>1, <1>2, <1>4 DEF AnsweredIsDone, Returned, Idle, Queries, Done
<1>9. NoSecondTime'
  BY <1>1, <1>2 DEF NoSecondTime
<1>. QED
  BY <1>5, <1>6, <1>7, <1>8, <1>9 DEF ClerksInv

-----------------------------------------------------------------------------
(* Theorems *)

\* No clerk has called anything yet.
LEMMA InitHolds == Init => ClerksInv
<1>. SUFFICES ASSUME Init PROVE ClerksInv
  OBVIOUS
<1>1. kind \in [Client -> Package]
  BY DEF Init, Kinds, Package
<1>2. NewClerk \in ClerkState /\ NewClerk.to = NoGroup /\ NewClerk.reply = "none"
      /\ NewClerk.ops = 0 /\ NewClerk.seq = 0 /\ NewClerk.config = 0 /\ NewClerk.got = 0
  BY Names DEF NewClerk, ClerkState
<1>3. clerk = [c \in Client |-> NewClerk] /\ pending = {} /\ executed = <<>> /\ configs = <<>>
  BY DEF Init
<1>4. leader \in [Service -> Servers]
  BY Names DEF Init
<1>5. Types
  BY <1>1, <1>2, <1>3, <1>4 DEF Types
<1>6. \A c \in Client : ClerkFits(clerk[c], kind[c])
  <2>. SUFFICES ASSUME NEW c \in Client PROVE ClerkFits(clerk[c], kind[c])
    OBVIOUS
  <2>1. clerk[c] = NewClerk /\ Len(configs) = 0 /\ NoGroup # "kv"
    BY <1>3 DEF NoGroup
  <2>. QED
    BY <1>2, <2>1 DEF ClerkFits
<1>7. RequestsFit /\ NoSecondTime
  BY <1>3 DEF RequestsFit, NoSecondTime
<1>8. AnsweredIsDone
  <2>. SUFFICES ASSUME NEW c \in Client
                PROVE  clerk[c].reply # "ok" /\ Returned(c) = {}
    BY DEF AnsweredIsDone
  <2>1. clerk[c] = NewClerk
    BY <1>3
  <2>. QED
    BY <1>2, <2>1 DEF Returned, Idle
<1>. QED
  BY <1>5, <1>6, <1>7, <1>8 DEF ClerksInv

\* A step of a clerk or of a service keeps the invariant.
LEMMA NextKeeps ==
    ASSUME ClerksInv, [Next]_vars
    PROVE  ClerksInv'
<1>1. CASE UNCHANGED vars
  BY <1>1 DEF vars, ClerksInv, Types, ClerkFits, RequestsFit, RequestFits, AnsweredIsDone,
              NoSecondTime, Done, Queries, Returned, Idle
<1>2. CASE Next
  BY <1>2, BeginKeeps, ReplyKeeps, FailKeeps, ArriveKeeps, ExecuteKeeps, ChangeLeaderKeeps
     DEF Next
<1>. QED
  BY <1>1, <1>2

(***************************************************************************)
(* The fields of clerks and requests fit together, whatever is lost,       *)
(* retried, executed late or executed for an attempt that was given up.    *)
(***************************************************************************)
THEOREM ClerksInvariant == Spec => []ClerksInv
<1>1. Init => ClerksInv
  BY InitHolds
<1>2. ClerksInv /\ [Next]_vars => ClerksInv'
  BY NextKeeps
<1>. QED
  BY <1>1, <1>2, PTL DEF Spec

\* A clerk calls only services and servers that exist, and the configuration
\* it knows is one that the shardctrler has had (Clerk of the three packages).
THEOREM ClerkTypesRight == Spec => []TypeOK
<1>1. ClerksInv => TypeOK
  <2>. SUFFICES ASSUME ClerksInv PROVE TypeOK
    OBVIOUS
  <2>1. Types /\ \A c \in Client : ClerkFits(clerk[c], kind[c])
    BY DEF ClerksInv
  <2>2. Len(configs) \in Nat
    BY <2>1 DEF Types
  <2>3. ASSUME NEW c \in Client
        PROVE  /\ clerk[c].to \in Service \cup {NoGroup} /\ clerk[c].si \in Servers
               /\ clerk[c].config \in 0..Len(configs)
    BY <2>1, <2>2 DEF Types, ClerkFits, ClerkState
  <2>. QED
    BY <2>1, <2>3 DEF Types, TypeOK
<1>. QED
  BY <1>1, ClerksInvariant, PTL

\* The executed requests of an operation are finitely many.
LEMMA TimesFinite ==
    ASSUME ClerksInv, NEW c, NEW n
    PROVE  IsFiniteSet({i \in DOMAIN executed : executed[i].client = c /\ executed[i].op = n})
<1>1. executed \in Seq(Request)
  BY DEF ClerksInv, Types
<1>2. IsFiniteSet(1..Len(executed)) /\ DOMAIN executed = 1..Len(executed)
  BY <1>1, FS_Interval
<1>. QED
  BY <1>2, FS_Subset

(***************************************************************************)
(* What Get, Put, Append, Join, Leave or Move has returned was executed:   *)
(* an answer can be to an earlier attempt, never to an earlier operation.  *)
(***************************************************************************)
THEOREM ReturnedWasExecuted == Spec => []ReturnedIsExecuted
<1>1. ClerksInv => ReturnedIsExecuted
  <2>. SUFFICES ASSUME ClerksInv, NEW c \in Client, NEW n \in Returned(c)
                PROVE  Times(c, n) >= 1
    BY DEF ReturnedIsExecuted
  <2>. DEFINE S == {i \in DOMAIN executed : executed[i].client = c /\ executed[i].op = n}
  <2>1. IsFiniteSet(S)
    BY TimesFinite
  <2>2. S # {}
    BY DEF ClerksInv, AnsweredIsDone, Done
  <2>3. Cardinality(S) \in Nat /\ Cardinality(S) # 0
    BY <2>1, <2>2, FS_CardinalityType, FS_EmptySet
  <2>. QED
    BY <2>3 DEF Times
<1>. QED
  BY <1>1, ClerksInvariant, PTL

(***************************************************************************)
(* kvraft executes no operation twice, although its clerk requests it      *)
(* again after a lost reply and requests given up may be executed late:    *)
(* all attempts of Get and PutAppend share one Seq.                        *)
(***************************************************************************)
THEOREM ExecutedAtMostOnce == Spec => []ExecutedOnce
<1>1. ClerksInv => ExecutedOnce
  <2>. SUFFICES ASSUME ClerksInv, NEW c \in Client, kind[c] = "kvraft", NEW n
                PROVE  Times(c, n) <= 1
    BY DEF ExecutedOnce
  <2>. DEFINE S == {i \in DOMAIN executed : executed[i].client = c /\ executed[i].op = n}
  <2>1. ASSUME NEW i \in S, NEW j \in S PROVE i = j
    BY DEF ClerksInv, NoSecondTime
  <2>2. CASE S = {}
    <3>1. Cardinality(S) = 0
      BY <2>2, FS_EmptySet
    <3>. QED
      BY <3>1 DEF Times
  <2>3. CASE S # {}
    <3>1. PICK i \in S : TRUE
      BY <2>3
    <3>2. S = {i}
      BY <2>1, <3>1
    <3>3. Cardinality(S) = 1
      BY <3>2, FS_Singleton
    <3>. QED
      BY <3>3 DEF Times
  <2>. QED
    BY <2>2, <2>3
<1>. QED
  BY <1>1, ClerksInvariant, PTL
=============================================================================
