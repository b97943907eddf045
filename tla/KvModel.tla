------------------------------ MODULE KvModel ------------------------------
(***************************************************************************)
(* Histories of a key/value service and what it means that one is          *)
(* linearizable.  A history is what clients observed: one operation with   *)
(* its arguments, its result and the times of its call and its return.     *)
(* KvInit, Step and Partition are the model that models/kv.go hands to     *)
(* the checker; values are strings, that is, sequences of letters.         *)
(***************************************************************************)
EXTENDS Integers, Sequences, Functions

CONSTANT Key

KvInit == <<>>

\* Whether the service can take this step in this state, and where it leads.
Step(state, o) ==
    [ok    |-> o.op = "get" => o.out = state,
     state |-> CASE o.op = "get"    -> state
                 [] o.op = "put"    -> o.value
                 [] o.op = "append" -> state \o o.value]

\* The operations of one key, in the order of the history.
Partition(history) ==
    [k \in {history[i].key : i \in DOMAIN history} |->
        SelectSeq(history, LAMBDA o : o.key = k)]

-----------------------------------------------------------------------------
(* The definition the checker is measured against *)

\* The stores that executing ops one after the other leads through.
Stores(ops) ==
    LET store[i \in 0..Len(ops)] ==
          IF i = 0 THEN [k \in Key |-> KvInit]
                   ELSE [store[i - 1] EXCEPT ![ops[i].key] = Step(@, ops[i]).state]
    IN  store

Legal(ops) ==
    LET store == Stores(ops)
    IN  \A i \in DOMAIN ops : Step(store[i - 1][ops[i].key], ops[i]).ok

Precedes(o, p) == o.return < p.call

InRealTime(ops) ==
    \A i, j \in DOMAIN ops : i < j => ~Precedes(ops[j], ops[i])

\* The operations of the history at these positions.
At(history, order) == [i \in DOMAIN order |-> history[order[i]]]

(***************************************************************************)
(* An order of some of the operations that a linearization can start with: *)
(* it has every operation that returned before one of them was called.     *)
(***************************************************************************)
IsBeginning(history, order) ==
    /\ IsInjective(order)
    /\ \A i \in DOMAIN order, p \in DOMAIN history :
         Precedes(history[p], history[order[i]]) => p \in Range(order)
    /\ InRealTime(At(history, order))
    /\ Legal(At(history, order))

Beginnings(history) ==
    {order \in UNION {[1..n -> DOMAIN history] : n \in 0..Len(history)} :
        IsBeginning(history, order)}

Linearizable(history) ==
    \E order \in Beginnings(history) : Len(order) = Len(history)
=============================================================================
