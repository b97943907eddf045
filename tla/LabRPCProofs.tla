---------------------------- MODULE LabRPCProofs ----------------------------
(***************************************************************************)
(* What a caller was told lasts: for any number of calls and crashes, a    *)
(* call that got a reply has its effect in the Persister that the next     *)
(* instance reads.                                                         *)
(***************************************************************************)
EXTENDS LabRPC, TLAPS

\* The network starts with one instance, its Persister empty, and no call.
LEMMA InitRPC == Init => RPCInv
BY CrashAssumption DEF Init, RPCInv, TypeOK, CurrentInstance, Saved, Instance, Nil,
   Location, Handler

(***************************************************************************)
(* The steps of processReq.  A positive answer needs a second look at the  *)
(* server: an instance that is still in the network is the one whose       *)
(* Persister is current (CurrentInstance), and the handler has saved there.*)
(***************************************************************************)
LEMMA NetworkKeeps ==
    ASSUME RPCInv, NEW c \in Call, NetworkStep(c) \/ Execute(c)
    PROVE  RPCInv'
<1> USE DEF RPCInv, TypeOK
<1>1. CASE Send(c) \/ Abandon(c) \/ Fail(c) \/ GiveUp(c) \/ Return(c)
  BY <1>1 DEF Send, Abandon, Fail, GiveUp, Return, Go, CurrentInstance, Saved, Location
<1>2. CASE ReadEndnameInfo(c)
  <2>1. CASE enabled /\ server # Nil
    <3>1. call' = [call EXCEPT ![c].pc = "arrived", ![c].inst = server, ![c].lossy = ~reliable]
      BY <1>2, <2>1 DEF ReadEndnameInfo
    <3>2. server = saved
      BY <2>1 DEF CurrentInstance
    <3>3. TypeOK' /\ CurrentInstance'
      BY <1>2, <3>1 DEF ReadEndnameInfo, CurrentInstance, Location
    <3>4. Saved'
      BY <1>2, <3>1, <3>2, CrashAssumption DEF ReadEndnameInfo, Saved, Instance
    <3>5. QED
      BY <3>3, <3>4
  <2>2. CASE ~(enabled /\ server # Nil)
    <3>1. Go(c, "lost")
      BY <1>2, <2>2 DEF ReadEndnameInfo, Go
    <3>2. call[c].pc = "sent" /\ UNCHANGED <<enabled, server, reliable, saved, store, crash, network>>
      BY <1>2 DEF ReadEndnameInfo
    <3>3. TypeOK' /\ CurrentInstance' /\ Saved'
      BY <3>1, <3>2 DEF Go, CurrentInstance, Saved, Location
    <3>4. QED
      BY <3>3
  <2>3. QED
    BY <2>1, <2>2
<1>3. CASE Dispatch(c)
  BY <1>3 DEF Dispatch, CurrentInstance, Saved, Location, Handler
<1>4. CASE Answer(c)
  <2>1. server \in Instance => server = saved
    BY CrashAssumption DEF CurrentInstance, Instance, Nil
  <2>2. call[c].inst \in Instance /\ c \in store[call[c].inst]
    BY <1>4, CrashAssumption DEF Answer, Saved, Instance
  <2>3. ~IsServerDead(c) => c \in store[saved]
    BY <2>1, <2>2 DEF IsServerDead
  <2>4. QED
    BY <1>4, <2>3 DEF Answer, Receive, CurrentInstance, Saved, Location, Handler
<1>5. CASE Execute(c)
  <2>1. call[c].inst \in 1..saved /\ 1..saved \subseteq Instance
    BY <1>5, CrashAssumption DEF Execute, Saved, Instance
  <2>2. \A i \in Instance : store[i] \subseteq store'[i]
    BY <1>5 DEF Execute
  <2>3. c \in store'[call[c].inst]
    BY <1>5, <2>1 DEF Execute
  <2>4. TypeOK' /\ CurrentInstance'
    BY <1>5, <2>1 DEF Execute, CurrentInstance, Handler
  <2>5. Saved'
    BY <1>5, <2>1, <2>2, <2>3 DEF Execute, Saved
  <2>6. QED
    BY <2>4, <2>5
<1>6. CASE Drain(c)
  BY <1>6 DEF Drain, CurrentInstance, Saved, Handler
<1>7. QED
  BY <1>1, <1>2, <1>3, <1>4, <1>5, <1>6 DEF NetworkStep

\* The steps of the harness: the copy is made of a Persister with all that was
\* answered, and becomes current only after the old instance is out.
LEMMA HarnessKeeps ==
    ASSUME RPCInv,
           \/ \E yes \in BOOLEAN : Reliable(yes) \/ Enable(yes)
           \/ Crash \/ DeleteServer \/ CopyPersister \/ AddServer \/ Cleanup \/ Stop
    PROVE  RPCInv'
<1> USE DEF RPCInv, TypeOK
<1>1. ASSUME NEW yes \in BOOLEAN, Reliable(yes) \/ Enable(yes)
      PROVE  RPCInv'
  BY <1>1 DEF Reliable, Enable, CurrentInstance, Saved
<1>2. CASE Crash
  BY <1>2 DEF Crash, CurrentInstance, Saved
<1>3. CASE DeleteServer
  BY <1>3 DEF DeleteServer, CurrentInstance, Saved
<1>4. CASE CopyPersister
  BY <1>4, CrashAssumption DEF CopyPersister, CurrentInstance, Saved, Instance
<1>5. CASE AddServer
  BY <1>5 DEF AddServer, CurrentInstance, Saved
<1>6. CASE Cleanup \/ Stop
  BY <1>6 DEF Cleanup, Stop, CurrentInstance, Saved
<1>7. QED
  BY <1>1, <1>2, <1>3, <1>4, <1>5, <1>6

\* Types, one current instance, and what handlers have saved: the inductive
\* invariant of the network and the harness.
THEOREM RPCInvariant == Spec => []RPCInv
<1>1. RPCInv /\ UNCHANGED vars => RPCInv'
  BY DEF RPCInv, TypeOK, CurrentInstance, Saved, vars
<1>2. RPCInv /\ [Next]_vars => RPCInv'
  BY <1>1, NetworkKeeps, HarnessKeeps DEF Next
<1>3. QED
  BY InitRPC, <1>2, PTL DEF Spec

\* processReq never lets a caller hear of an update in an old Persister.
THEOREM RepliesLast == Spec => []RepliedIsSaved
<1>1. RPCInv => RepliedIsSaved
  BY DEF RPCInv, Saved, RepliedIsSaved
<1>2. QED
  BY RPCInvariant, <1>1, PTL
=============================================================================
