---------------------------- MODULE MCUsartEcho ----------------------------
(* UsartEcho for TLC. *)
EXTENDS UsartEcho

Either == {TRUE, FALSE}
NeverIdle == {FALSE}
=============================================================================
