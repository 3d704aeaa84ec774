----------------------------- MODULE FrameQueue -----------------------------
(***************************************************************************)
(* What a descriptor ring promises: a queue of at most Capacity frames     *)
(* between the software and the wire.  A frame is taken out once, whole,   *)
(* and in the order in which the frames were put in.                       *)
(***************************************************************************)
EXTENDS Integers, Sequences

CONSTANTS
    Capacity,   \* descriptors of the ring
    Frame       \* the frames there can be

VARIABLES
    pending,    \* frames put in and not yet taken out
    taken       \* frames taken out, in order

Init == pending = << >> /\ taken = << >>

Put ==
    /\ Len(pending) < Capacity
    /\ \E f \in Frame : pending' = Append(pending, f)
    /\ UNCHANGED taken

Take ==
    /\ pending # << >>
    /\ taken' = Append(taken, Head(pending))
    /\ pending' = Tail(pending)

Next == Put \/ Take

Queue == Init /\ [][Next]_<<pending, taken>>
=============================================================================
