---------------------------- MODULE EchoService ----------------------------
(***************************************************************************)
(* What the board promises a host that waits for its answers, as the       *)
(* repository's description puts it: "if it receives a message [...] the   *)
(* MCU will return the same data".  A message is what the host sends       *)
(* between two pauses; its bytes are numbered in the order they are sent.  *)
(* Nothing of a message is answered before the pause that ends it, and     *)
(* then every byte is answered, once and in order.                         *)
(***************************************************************************)
EXTENDS Integers, Sequences

CONSTANT MaxHeard   \* bound: how many bytes the host sends in a behaviour

VARIABLES
    heard,    \* bytes the host has sent
    closed,   \* bytes of the messages that have ended
    answer    \* the bytes sent back

serviceVars == <<heard, closed, answer>>

Init == heard = 0 /\ closed = 0 /\ answer = << >>

Hear ==
    /\ heard < MaxHeard
    /\ heard' = heard + 1
    /\ UNCHANGED <<closed, answer>>

Pause ==
    /\ closed < heard
    /\ closed' = heard
    /\ UNCHANGED <<heard, answer>>

Answer ==
    /\ Len(answer) < closed
    /\ answer' = Append(answer, Len(answer) + 1)
    /\ UNCHANGED <<heard, closed>>

Next == Hear \/ Pause \/ Answer

Safe == Init /\ [][Next]_serviceVars

Service == Safe /\ WF_serviceVars(Pause) /\ WF_serviceVars(Answer)
=============================================================================
