------------------------------- MODULE LabRPC -------------------------------
(***************************************************************************)
(* The simulated network of labrpc/ between callers and one server that    *)
(* the test harness disconnects, crashes and restarts.  A crash does not   *)
(* stop the old instance: what its handlers still save goes to a Persister *)
(* nobody will read, so the network must not let a caller hear of it.      *)
(***************************************************************************)
EXTENDS Integers, FiniteSets

CONSTANTS
    Call,           \* the calls made, each a Call() of its own
    MaxCrashes      \* bound: how often the server is crashed

ASSUME CrashAssumption == MaxCrashes \in Nat

\* The instances of the server, and of the Persister, in the order they are
\* made.  0 is the nil that DeleteServer leaves.
Instance == 1..(MaxCrashes + 1)
Nil      == 0

VARIABLES
    call,       \* call[c]: how far the call is, which instance it was sent
                \*   to, whether the network was unreliable for it, its handler,
                \*   which outlives a call that stops waiting for it, and
                \*   whether a goroutine is there to drain its channel
    enabled,    \* Network.enabled of the callers' ends
    server,     \* Network.servers: the instance in the network, or Nil
    reliable,   \* Network.reliable
    saved,      \* config.saved: the Persister the next instance will read
    store,      \* store[i]: the calls whose effect Persister i has
    crash,      \* how far crash1 and start1 are
    network     \* "running", "destroyed" by Cleanup, "stopped"

vars == <<call, enabled, server, reliable, saved, store, crash, network>>

(***************************************************************************)
(* "sent": on its way to processReq; "lost": will fail after a while;      *)
(* "arrived": past readEndnameInfo; "waiting": the handler was started;    *)
(* "answering": its reply is on the way back.                              *)
(***************************************************************************)
Location == {"idle", "sent", "lost", "arrived", "waiting", "answering", "true", "false"}

\* "returned": its goroutine sends on ech, which has no buffer; "ended": the
\* reply was received and the goroutine is gone.
Handler == {"none", "running", "returned", "ended"}

Returned(c) == call[c].pc \in {"true", "false"}

Go(c, l) == call' = [call EXCEPT ![c].pc = l]

\* ... having received the handler's reply from ech.
Receive(c, l) == call' = [call EXCEPT ![c].pc = l, ![c].handler = "ended"]

Init ==
    /\ call = [c \in Call |-> [pc |-> "idle", inst |-> Nil, lossy |-> FALSE,
                         handler |-> "none", drain |-> FALSE]]
    /\ enabled = TRUE
    /\ server = 1
    /\ reliable = TRUE
    /\ saved = 1
    /\ store = [i \in Instance |-> {}]
    /\ crash = "no"
    /\ network = "running"

-----------------------------------------------------------------------------
(* A call *)

\* Call() hands the request to the network's goroutine, while that runs.
Send(c) ==
    /\ call[c].pc = "idle" /\ network # "stopped"
    /\ Go(c, "sent")
    /\ UNCHANGED <<enabled, server, reliable, saved, store, crash, network>>

\* ... or finds the whole network destroyed.
Abandon(c) ==
    /\ call[c].pc = "idle" /\ network # "running"
    /\ Go(c, "false")
    /\ UNCHANGED <<enabled, server, reliable, saved, store, crash, network>>

\* processReq looks once at the end, the server and the reliability.
ReadEndnameInfo(c) ==
    /\ call[c].pc = "sent"
    /\ call' = [call EXCEPT ![c] =
         IF enabled /\ server # Nil
           THEN [@ EXCEPT !.pc = "arrived", !.inst = server, !.lossy = ~reliable]
           ELSE [@ EXCEPT !.pc = "lost"]]
    /\ UNCHANGED <<enabled, server, reliable, saved, store, crash, network>>

\* No server to talk to, or a request or reply the network drops.
Fail(c) ==
    /\ \/ call[c].pc = "lost"
       \/ call[c].pc = "arrived" /\ call[c].lossy
    /\ Go(c, "false")
    /\ UNCHANGED <<enabled, server, reliable, saved, store, crash, network>>

\* The handler is started, on the instance that was found above.
Dispatch(c) ==
    /\ call[c].pc = "arrived"
    /\ call' = [call EXCEPT ![c].pc = "waiting", ![c].handler = "running"]
    /\ UNCHANGED <<enabled, server, reliable, saved, store, crash, network>>

\* The handler saves to its own instance's Persister and returns, whether or
\* not the call still waits for it.
Execute(c) ==
    /\ call[c].handler = "running"
    /\ call' = [call EXCEPT ![c].handler = "returned"]
    /\ store' = [store EXCEPT ![call[c].inst] = @ \cup {c}]
    /\ UNCHANGED <<enabled, server, reliable, saved, crash, network>>

\* Mutant of IsServerDead: any instance will do.
IsNoServer(c) == ~enabled \/ server = Nil

IsServerDead(c) == ~enabled \/ server # call[c].inst

\* Mutant of StopsWaiting: only the handler ends the wait.
NeverStopsWaiting(c) == FALSE

\* Every 100ms the wait for the handler looks whether the server is gone.
StopsWaiting(c) == IsServerDead(c)

\* Mutant of GiveUp: nobody is left to receive from ech.
GiveUpOnly(c) ==
    /\ call[c].pc = "waiting"
    /\ StopsWaiting(c)
    /\ Go(c, "false")
    /\ UNCHANGED <<enabled, server, reliable, saved, store, crash, network>>

GiveUp(c) ==
    /\ call[c].pc = "waiting"
    /\ StopsWaiting(c)
    /\ call' = [call EXCEPT ![c].pc = "false", ![c].drain = TRUE]
    /\ UNCHANGED <<enabled, server, reliable, saved, store, crash, network>>

\* The goroutine that drains the channel of a call that was given up.
Drain(c) ==
    /\ call[c].drain /\ call[c].handler = "returned"
    /\ call' = [call EXCEPT ![c].handler = "ended", ![c].drain = FALSE]
    /\ UNCHANGED <<enabled, server, reliable, saved, store, crash, network>>

\* The handler has returned; the server is looked at once more.
Answer(c) ==
    /\ call[c].pc = "waiting" /\ call[c].handler = "returned"
    /\ \/ IsServerDead(c) /\ Receive(c, "false")
       \/ ~IsServerDead(c) /\ call[c].lossy /\ Receive(c, "false")
       \/ ~IsServerDead(c) /\ Receive(c, "answering")
    /\ UNCHANGED <<enabled, server, reliable, saved, store, crash, network>>

\* The reply may be held back for long, and reaches the caller.
Return(c) ==
    /\ call[c].pc = "answering"
    /\ Go(c, "true")
    /\ UNCHANGED <<enabled, server, reliable, saved, store, crash, network>>

-----------------------------------------------------------------------------
(* The harness *)

Reliable(yes) ==
    /\ reliable # yes
    /\ reliable' = yes
    /\ UNCHANGED <<call, enabled, server, saved, store, crash, network>>

\* connect and disconnect: Enable(endname, yes) for the callers' ends.
Enable(yes) ==
    /\ crash = "no" /\ enabled # yes
    /\ enabled' = yes
    /\ UNCHANGED <<call, server, reliable, saved, store, crash, network>>

\* crash1 disconnects the server, takes it out of the network, and only then
\* replaces its Persister by a copy.
Crash ==
    /\ crash = "no" /\ saved <= MaxCrashes
    /\ crash' = "disconnected"
    /\ enabled' = FALSE
    /\ UNCHANGED <<call, server, reliable, saved, store, network>>

DeleteServer ==
    /\ crash = "disconnected"
    /\ crash' = "deleted"
    /\ server' = Nil
    /\ UNCHANGED <<call, enabled, reliable, saved, store, network>>

\* Mutant of CopyPersister: a fresh Persister without the old one's content.
FreshPersister ==
    /\ crash = "deleted"
    /\ crash' = "copied"
    /\ saved' = saved + 1
    /\ UNCHANGED <<call, enabled, server, reliable, store, network>>

CopyPersister ==
    /\ crash = "deleted"
    /\ crash' = "copied"
    /\ saved' = saved + 1
    /\ store' = [store EXCEPT ![saved + 1] = store[saved]]
    /\ UNCHANGED <<call, enabled, server, reliable, network>>

\* start1 adds an instance that has read the copy; connect comes later.
AddServer ==
    /\ crash = "copied"
    /\ crash' = "no"
    /\ server' = saved
    /\ UNCHANGED <<call, enabled, reliable, saved, store, network>>

Cleanup ==
    /\ network = "running"
    /\ network' = "destroyed"
    /\ UNCHANGED <<call, enabled, server, reliable, saved, store, crash>>

\* The network's goroutine notices; it may take more requests before.
Stop ==
    /\ network = "destroyed"
    /\ network' = "stopped"
    /\ UNCHANGED <<call, enabled, server, reliable, saved, store, crash>>

-----------------------------------------------------------------------------
NetworkStep(c) ==
    \/ Send(c) \/ Abandon(c) \/ ReadEndnameInfo(c) \/ Fail(c) \/ Dispatch(c)
    \/ GiveUp(c) \/ Drain(c) \/ Answer(c) \/ Return(c)

Next ==
    \/ \E c \in Call : NetworkStep(c) \/ Execute(c)
    \/ \E yes \in BOOLEAN : Reliable(yes) \/ Enable(yes)
    \/ Crash \/ DeleteServer \/ CopyPersister \/ AddServer
    \/ Cleanup \/ Stop

Spec == Init /\ [][Next]_vars

\* The goroutines of the network and of the caller run; a handler may hang.
FairSpec == Spec /\ \A c \in Call : WF_vars(NetworkStep(c))

-----------------------------------------------------------------------------
\* The variables have the types of the Go declarations they stand for.
TypeOK ==
    /\ call \in [Call -> [pc : Location, inst : Instance \cup {Nil},
                      lossy : BOOLEAN, handler : Handler, drain : BOOLEAN]]
    /\ enabled \in BOOLEAN
    /\ server \in Instance \cup {Nil}
    /\ reliable \in BOOLEAN
    /\ saved \in Instance
    /\ store \in [Instance -> SUBSET Call]
    /\ crash \in {"no", "disconnected", "deleted", "copied"}
    /\ network \in {"running", "destroyed", "stopped"}

(***************************************************************************)
(* A caller that got a reply was served by something that lasts: the       *)
(* effect is in the Persister the next instance will read.  ("this is      *)
(* needed to avoid situation in which a client gets a positive reply to an *)
(* Append, but the server persisted the update into the old Persister.")   *)
(***************************************************************************)
RepliedIsSaved == \A c \in Call : call[c].pc = "true" => c \in store[saved]

(***************************************************************************)
(* Why: the instance in the network is the one whose Persister is current, *)
(* handlers have saved what they report, and a copy loses nothing.         *)
(***************************************************************************)
CurrentInstance ==
    /\ crash \in {"no", "disconnected"} => server = saved
    /\ crash \in {"deleted", "copied"} => server = Nil
    /\ crash \in {"disconnected", "deleted"} => saved <= MaxCrashes

Saved ==
    \A c \in Call :
        /\ call[c].pc \in {"idle", "sent", "lost", "arrived"} => call[c].handler = "none"
        /\ call[c].pc = "arrived" \/ call[c].handler # "none" => call[c].inst \in 1..saved
        /\ call[c].handler \in {"returned", "ended"} => c \in store[call[c].inst]
        /\ call[c].pc \in {"answering", "true"} => c \in store[saved]

RPCInv == TypeOK /\ CurrentInstance /\ Saved

(***************************************************************************)
(* A call returns, except if its handler hangs on a server that is in the  *)
(* network and connected at least now and then, whenever it is looked at.  *)
(* ("Call() is guaranteed to return ... except if the handler function on  *)
(* the server side does not return.")                                      *)
(***************************************************************************)
CallReturns ==
    \A c \in Call :
        <>Returned(c) \/ (<>[](call[c].pc = "waiting" /\ call[c].handler = "running") /\ []<>~IsServerDead(c))

(***************************************************************************)
(* No handler's goroutine is left behind: one whose handler returns ends,  *)
(* also when the call stopped waiting for it, on a server that was killed. *)
(***************************************************************************)
HandlersEnd ==
    \A c \in Call : [](call[c].handler = "returned" => <>(call[c].handler = "ended"))
=============================================================================
