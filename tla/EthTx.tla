------------------------------- MODULE EthTx -------------------------------
(***************************************************************************)
(* Transmission through the chained DMA descriptors of the Ethernet MAC:   *)
(* ETH_ConfigDMATxDescChain and ETH_Transmit_Descriptors                   *)
(* (apm32f10x_eth.c), the software that calls them, and the DMA engine     *)
(* that walks the same ring.                                               *)
(*                                                                         *)
(* A descriptor's Status is the three bits the code uses.  A buffer holds  *)
(* <<f, n>>: part n of frame f.  The driver writes a descriptor in several *)
(* statements, OWN last; the engine looks at nothing but OWN before it is  *)
(* set, so filling one descriptor is one step.                             *)
(***************************************************************************)
EXTENDS Integers, Sequences

CONSTANTS
    ETH_TXBUFNB,   \* descriptors of the ring
    MaxBufs,       \* bound: buffers a frame needs
    MaxFrames,     \* bound: frames the software hands over
    CallerChecks   \* the caller looks at OWN before it fills the buffers

ASSUME EthTxAssumption ==
    /\ ETH_TXBUFNB \in Nat \ {0} /\ MaxFrames \in Nat
    /\ MaxBufs \in 1..ETH_TXBUFNB
    /\ CallerChecks \in BOOLEAN

VARIABLES
    desc,             \* the descriptors, with what their buffers hold
    DMATxDescToSet,   \* the descriptor the driver fills next
    cpu,              \* the call in progress: next statement, descriptor, i, count
    TXBU,             \* DMASTS: transmit buffer unavailable
    mac,              \* the DMA engine: state, descriptor, parts of the frame so far
    queued,           \* history: buffers of each frame handed over
    sent              \* history: the frames on the wire, each the sequence of its parts

vars == <<desc, DMATxDescToSet, cpu, TXBU, mac, queued, sent>>

Ring == 0..ETH_TXBUFNB - 1
Part == (1..MaxFrames) \X (1..MaxBufs)
NoPart == <<0, 0>>
Idle == [at |-> "idle", d |-> 0, i |-> 0, count |-> 0]

(* A faulty variant: the last descriptor is not linked to the first. *)
NextDescOpen(d) == d + 1

(* Buffer2NextDescAddr, as ETH_ConfigDMATxDescChain links the descriptors. *)
NextDesc(d) == IF d < ETH_TXBUFNB - 1 THEN d + 1 ELSE 0

(* How far a descriptor is from the one the driver fills next. *)
Ahead(d) == (d + ETH_TXBUFNB - DMATxDescToSet) % ETH_TXBUFNB

WholeFrame(f, n) == [p \in 1..n |-> <<f, p>>]

-----------------------------------------------------------------------------
(* ETH_ConfigDMATxDescChain *)
Init ==
    /\ desc = [d \in Ring |-> [OWN |-> FALSE, FS |-> FALSE, LS |-> FALSE, buf |-> NoPart]]
    /\ DMATxDescToSet = 0
    /\ cpu = Idle
    /\ TXBU = FALSE
    /\ mac = [at |-> "run", d |-> 0, parts |-> << >>]
    /\ queued = << >>
    /\ sent = << >>

(* The caller writes a frame into the buffers that come next.  If it       *)
(* checks, it does so when they are free.  No call is made within the few  *)
(* bus cycles the engine takes to act on a descriptor it has fetched.      *)
FillBuffers(n) ==
    /\ cpu.at = "idle" /\ mac.at # "fetched" /\ Len(queued) < MaxFrames
    /\ CallerChecks => \A d \in Ring : Ahead(d) < n => ~desc[d].OWN
    /\ queued' = Append(queued, n)
    /\ desc' = [d \in Ring |-> IF Ahead(d) < n
                               THEN [desc[d] EXCEPT !.buf = <<Len(queued'), Ahead(d) + 1>>]
                               ELSE desc[d]]
    /\ cpu' = [Idle EXCEPT !.at = "enter", !.count = n]
    /\ UNCHANGED <<DMATxDescToSet, TXBU, mac, sent>>

(* (Status & ETH_DMATXDESC_OWN) == SET, on words as sets of bit numbers:   *)
(* OWN is bit 31 and SET is 1, bit 0.                                      *)
OwnTest(d) == (IF desc[d].OWN THEN {31} ELSE {}) = {0}

(* The test at the top of ETH_Transmit_Descriptors, and the choice of the  *)
(* number of buffers from the length.                                      *)
Transmit_Enter ==
    /\ cpu.at = "enter"
    /\ cpu' = IF OwnTest(DMATxDescToSet) THEN Idle
              ELSE [cpu EXCEPT !.at = "fill", !.d = DMATxDescToSet]
    /\ UNCHANGED <<desc, DMATxDescToSet, TXBU, mac, queued, sent>>

(* A faulty variant: the last segment is not marked. *)
StatusNoLS(d) == [d EXCEPT !.FS = cpu.i = 0, !.LS = FALSE, !.OWN = TRUE]

(* The bits of one descriptor.  With one buffer FS and LS are both set;    *)
(* with several both are cleared and the first and the last one set again. *)
FilledStatus(d) ==
    [d EXCEPT !.FS = cpu.i = 0, !.LS = cpu.i = cpu.count - 1, !.OWN = TRUE]

(* One turn of the loop over the buffers of the frame. *)
Transmit_Fill ==
    /\ cpu.at = "fill"
    /\ desc' = [desc EXCEPT ![cpu.d] = FilledStatus(@)]
    /\ cpu' = [cpu EXCEPT !.i = @ + 1, !.d = NextDesc(@),
                          !.at = IF cpu.i = cpu.count - 1 THEN "resume" ELSE "fill"]
    /\ DMATxDescToSet' = IF cpu.i = cpu.count - 1 THEN NextDesc(cpu.d) ELSE DMATxDescToSet
    /\ UNCHANGED <<TXBU, mac, queued, sent>>

(* A faulty variant: the flag is cleared and no poll demand is written. *)
Transmit_NoResume ==
    /\ cpu.at = "resume"
    /\ TXBU' = FALSE
    /\ cpu' = Idle
    /\ UNCHANGED <<desc, DMATxDescToSet, mac, queued, sent>>

(* If the engine ran out of descriptors: clear the flag and write the poll *)
(* demand register, which wakes the engine.                                *)
Transmit_Resume ==
    /\ cpu.at = "resume"
    /\ TXBU' = FALSE
    /\ mac' = IF TXBU THEN [mac EXCEPT !.at = "run"] ELSE mac
    /\ cpu' = Idle
    /\ UNCHANGED <<desc, DMATxDescToSet, queued, sent>>

-----------------------------------------------------------------------------
(* The engine takes a descriptor it owns: the frame so far grows, a last   *)
(* segment completes it, and the descriptor is handed back.                *)
Mac_Send ==
    /\ mac.at = "run" /\ desc[mac.d].OWN
    /\ LET frame == Append(IF desc[mac.d].FS THEN << >> ELSE mac.parts, desc[mac.d].buf)
       IN  /\ sent' = IF desc[mac.d].LS THEN Append(sent, frame) ELSE sent
           /\ mac' = [mac EXCEPT !.d = NextDesc(@),
                                 !.parts = IF desc[mac.d].LS THEN << >> ELSE frame]
    /\ desc' = [desc EXCEPT ![mac.d].OWN = FALSE]
    /\ UNCHANGED <<DMATxDescToSet, cpu, TXBU, queued>>

(* It fetches a descriptor it does not own, and some cycles later suspends *)
(* itself and raises TXBU; the driver may set OWN in between.              *)
Mac_Fetch ==
    /\ mac.at = "run" /\ ~desc[mac.d].OWN
    /\ mac' = [mac EXCEPT !.at = "fetched"]
    /\ UNCHANGED <<desc, DMATxDescToSet, cpu, TXBU, queued, sent>>

Mac_Suspend ==
    /\ mac.at = "fetched"
    /\ mac' = [mac EXCEPT !.at = "suspended"]
    /\ TXBU' = TRUE
    /\ UNCHANGED <<desc, DMATxDescToSet, cpu, queued, sent>>

Cpu == Transmit_Enter \/ Transmit_Fill \/ Transmit_Resume
Mac == Mac_Send \/ Mac_Fetch \/ Mac_Suspend

Next == (\E n \in 1..MaxBufs : FillBuffers(n)) \/ Cpu \/ Mac

Spec == Init /\ [][Next]_vars /\ WF_vars(Cpu) /\ WF_vars(Mac)

-----------------------------------------------------------------------------
Bits == [OWN : BOOLEAN, FS : BOOLEAN, LS : BOOLEAN, buf : Part \cup {NoPart}]

(* The type of the state. *)
TypeOK ==
    /\ desc \in [Ring -> Bits]
    /\ DMATxDescToSet \in Ring
    /\ cpu \in [at : {"idle", "enter", "fill", "resume"}, d : Ring,
                i : 0..MaxBufs, count : 0..MaxBufs]
    /\ TXBU \in BOOLEAN
    /\ mac.at \in {"run", "fetched", "suspended"} /\ mac.d \in Ring
    /\ mac.parts \in Seq(Part)
    /\ queued \in Seq(1..MaxBufs)
    /\ sent \in Seq(Seq(Part))

(* The ring is a queue of frames: those handed over come out whole, once,  *)
(* in order, and never more than there are descriptors are under way.      *)
(* The refinement mapping: a frame is put in when its first descriptor is  *)
(* filled (before that nothing of it can be sent), and is pending until    *)
(* its last part is on the wire.                                           *)
Handed == IF cpu.at = "enter" \/ (cpu.at = "fill" /\ cpu.i = 0)
          THEN Len(queued) - 1 ELSE Len(queued)
Pending == [k \in 1..(Handed - Len(sent)) |->
               WholeFrame(Len(sent) + k, queued[Len(sent) + k])]
Frames == {WholeFrame(f, n) : f \in 1..MaxFrames, n \in 1..MaxBufs}
Ring_ == INSTANCE FrameQueue WITH
             Capacity <- ETH_TXBUFNB, Frame <- Frames, pending <- Pending, taken <- sent
ImplementsQueue == Ring_!Queue

(* A suspended engine is never left behind for good: once a further call   *)
(* has returned, every frame handed over before that call is sent.  (The   *)
(* last frame itself can stay behind: OWN may be set, and TXBU tested,     *)
(* between the engine's fetch and its suspension.)                         *)
EarlierFramesLeave ==
    \A k \in 2..MaxFrames :
        (Len(queued) = k /\ cpu.at = "idle") ~> (Len(sent) >= k - 1)

(* "OWN bit: descriptor is owned by DMA engine" (apm32f10x_eth.h): the     *)
(* driver does not write a descriptor while the engine owns it.            *)
OwnedUntouched ==
    [][cpu.at = "fill" /\ cpu' # cpu => ~desc[cpu.d].OWN]_vars
=============================================================================
