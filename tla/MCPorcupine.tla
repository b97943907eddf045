---------------------------- MODULE MCPorcupine ----------------------------
(***************************************************************************)
(* Porcupine on histories of up to three operations on two keys.           *)
(***************************************************************************)
EXTENDS Porcupine

Put(k, v) == [op |-> "put", key |-> k, value |-> v, out |-> <<>>]
App(k, v) == [op |-> "append", key |-> k, value |-> v, out |-> <<>>]
Get(k, v) == [op |-> "get", key |-> k, value |-> <<>>, out |-> v]

MCOp ==
    {Put("k1", <<"a">>), App("k1", <<"b">>), Get("k1", <<>>), Get("k1", <<"a", "b">>),
     Put("k2", <<"a">>), Get("k2", <<"a">>)}
=============================================================================
