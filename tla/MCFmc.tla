------------------------------- MODULE MCFmc -------------------------------
(***************************************************************************)
(* Fmc for TLC: two pages whose protection bits are in different bytes.    *)
(***************************************************************************)
EXTENDS Fmc

TwoPages == {0, 1}
Bytes == [p \in TwoPages |-> p]
=============================================================================
