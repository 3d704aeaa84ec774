------------------------------- MODULE EthRx -------------------------------
(***************************************************************************)
(* Reception through the chained DMA descriptors of the Ethernet MAC:      *)
(* ETH_ConfigDMARxDescChain, ETH_CheckReceivedFrame with                   *)
(* ETH_ReadReceivedFrame, and ETH_ReadReceivedFrameInterrupt               *)
(* (apm32f10x_eth.c), the software that calls them and gives descriptors   *)
(* back, and the DMA engine that fills the same ring.                      *)
(*                                                                         *)
(* The engine changes a descriptor only while it owns it, and OWN is what  *)
(* the driver reads first, so one evaluation of the driver's conditions is *)
(* one step.  Lengths are left out: what a frame is, is the sequence of    *)
(* the parts <<f, n>> found in its buffers.                                *)
(***************************************************************************)
EXTENDS Integers, Sequences

CONSTANTS
    ETH_RXBUFNB,   \* descriptors of the ring
    MaxSegs,       \* bound: buffers a frame fills
    MaxRxFrames    \* bound: frames that arrive

EthRxAssumption ==
    /\ ETH_RXBUFNB \in Nat \ {0} /\ MaxRxFrames \in Nat
    /\ MaxSegs \in Nat \ {0}

VARIABLES
    rxDesc,           \* the descriptors, with what their buffers hold
    DMARxDescToGet,   \* the descriptor the driver looks at next
    info,             \* *DMARxFraminfos: FS_RxDesc and segCount
    rxCpu,            \* what the software does: next statement, and a counter
    rxMac,            \* the DMA engine: descriptor, frame, parts written and to come
    stored,           \* history: the frames in the ring and before, as the engine closed them
    read              \* history: the frames the caller got

rxVars == <<rxDesc, DMARxDescToGet, info, rxCpu, rxMac, stored, read>>

RxRing == 0..ETH_RXBUFNB - 1
RxPart == (1..MaxRxFrames) \X (1..MaxSegs)
NoRxPart == <<0, 0>>
RxIdle == [at |-> "idle", n |-> 0]

(* Buffer2NextDescAddr, as ETH_ConfigDMARxDescChain links the descriptors. *)
NextRxDesc(d) == IF d < ETH_RXBUFNB - 1 THEN d + 1 ELSE 0

(* The buffers of n descriptors from d on. *)
Walk(d, n) == [k \in 1..n |-> rxDesc[(d + k - 1) % ETH_RXBUFNB].buf]

-----------------------------------------------------------------------------
(* ETH_ConfigDMARxDescChain: every descriptor is the engine's.  FS_RxDesc  *)
(* and segCount start as zero, as static variables do.                     *)
RxInit ==
    /\ rxDesc = [d \in RxRing |-> [OWN |-> TRUE, FDES |-> FALSE, LDES |-> FALSE, buf |-> NoRxPart]]
    /\ DMARxDescToGet = 0
    /\ info = [FS |-> 0, segCount |-> 0]
    /\ rxCpu = RxIdle
    /\ rxMac = [d |-> 0, frame |-> 0, done |-> 0, left |-> 0]
    /\ stored = << >>
    /\ read = << >>

Get == rxDesc[DMARxDescToGet]

(* A faulty variant: a segment that is not the last is not stepped over. *)
AdvanceLastOnly ==
    DMARxDescToGet' = IF Get.LDES THEN NextRxDesc(DMARxDescToGet) ELSE DMARxDescToGet
Advance == DMARxDescToGet' = NextRxDesc(DMARxDescToGet)

(* The caller polls, or takes the receive interrupt: the two ways share    *)
(* all of their state.                                                     *)
Call ==
    /\ rxCpu.at = "idle"
    /\ \E at \in {"scan", "check"} : rxCpu' = [at |-> at, n |-> 0]
    /\ UNCHANGED <<rxDesc, DMARxDescToGet, info, rxMac, stored, read>>

FirstSegment == [FS |-> DMARxDescToGet, segCount |-> 1]
MiddleSegment == [info EXCEPT !.segCount = @ + 1]

(* A faulty variant: FS_RxDesc is left as it was. *)
LastSegmentNoFS == [info EXCEPT !.segCount = @ + 1]
LastSegment ==
    [FS |-> IF info.segCount = 0 THEN DMARxDescToGet ELSE info.FS,
     segCount |-> info.segCount + 1]

(* ETH_CheckReceivedFrame: 1 when the last segment is there, else 0, after *)
(* stepping over one segment that is not the last.                         *)
CheckReceivedFrame ==
    /\ rxCpu.at = "check"
    /\ \/ /\ ~Get.OWN /\ Get.LDES
          /\ info' = LastSegment
          /\ rxCpu' = [rxCpu EXCEPT !.at = "read"]
          /\ UNCHANGED DMARxDescToGet
       \/ /\ ~Get.OWN /\ ~Get.LDES
          /\ info' = IF Get.FDES THEN FirstSegment ELSE MiddleSegment
          /\ Advance
          /\ rxCpu' = RxIdle
       \/ /\ Get.OWN
          /\ rxCpu' = RxIdle
          /\ UNCHANGED <<info, DMARxDescToGet>>
    /\ UNCHANGED <<rxDesc, rxMac, stored, read>>

(* ETH_ReadReceivedFrame; the caller walks segCount descriptors from the   *)
(* one that is returned.                                                   *)
ReadReceivedFrame ==
    /\ rxCpu.at = "read"
    /\ read' = Append(read, Walk(info.FS, info.segCount))
    /\ Advance
    /\ rxCpu' = [at |-> "release", n |-> 0]
    /\ UNCHANGED <<rxDesc, info, rxMac, stored>>

(* One round of the loop of ETH_ReadReceivedFrameInterrupt. *)
ScanRound ==
    /\ rxCpu.at = "scan" /\ ~Get.OWN /\ rxCpu.n < ETH_RXBUFNB
    /\ Advance
    /\ \/ /\ ~Get.LDES
          /\ info' = IF Get.FDES THEN FirstSegment ELSE MiddleSegment
          /\ rxCpu' = [rxCpu EXCEPT !.n = @ + 1]
          /\ UNCHANGED read
       \/ /\ Get.LDES
          /\ info' = LastSegment
          /\ read' = Append(read, Walk(info'.FS, info'.segCount))
          /\ rxCpu' = [at |-> "release", n |-> 0]
    /\ UNCHANGED <<rxDesc, rxMac, stored>>

ScanEnd ==
    /\ rxCpu.at = "scan" /\ (Get.OWN \/ rxCpu.n >= ETH_RXBUFNB)
    /\ rxCpu' = RxIdle
    /\ UNCHANGED <<rxDesc, DMARxDescToGet, info, rxMac, stored, read>>

(* The caller gives the descriptors of the frame back, one by one          *)
(* (ETH_ConfigDMARxDescOwnBit), and clears segCount, which the driver      *)
(* never does.                                                             *)
Release ==
    /\ rxCpu.at = "release"
    /\ LET d == (info.FS + rxCpu.n) % ETH_RXBUFNB
       IN  IF rxCpu.n < info.segCount
           THEN /\ rxDesc' = [rxDesc EXCEPT ![d].OWN = TRUE]
                /\ rxCpu' = [rxCpu EXCEPT !.n = @ + 1]
                /\ UNCHANGED info
           ELSE /\ rxCpu' = RxIdle
                /\ info' = [info EXCEPT !.segCount = 0]
                /\ UNCHANGED rxDesc
    /\ UNCHANGED <<DMARxDescToGet, rxMac, stored, read>>

-----------------------------------------------------------------------------
(* A frame that fills n buffers arrives.  Without a descriptor it is lost. *)
Mac_Arrive(n) ==
    /\ rxMac.left = 0 /\ rxMac.frame < MaxRxFrames
    /\ rxMac' = [rxMac EXCEPT !.frame = @ + 1, !.done = 0,
                            !.left = IF rxDesc[rxMac.d].OWN THEN n ELSE 0]
    /\ UNCHANGED <<rxDesc, DMARxDescToGet, info, rxCpu, stored, read>>

(* The engine fills a buffer and hands the descriptor over.  A frame that  *)
(* needs another descriptor when the next is not the engine's is cut off   *)
(* here: this segment is marked as the last one.                           *)
Mac_Store ==
    /\ rxMac.left > 0
    /\ LET last == rxMac.left = 1 \/ ~rxDesc[NextRxDesc(rxMac.d)].OWN \/ NextRxDesc(rxMac.d) = rxMac.d
       IN  /\ rxDesc' = [rxDesc EXCEPT ![rxMac.d] =
                              [OWN |-> FALSE, FDES |-> rxMac.done = 0, LDES |-> last,
                               buf |-> <<rxMac.frame, rxMac.done + 1>>]]
           /\ stored' = IF last
                        THEN Append(stored, [k \in 1..rxMac.done + 1 |-> <<rxMac.frame, k>>])
                        ELSE stored
           /\ rxMac' = [rxMac EXCEPT !.d = NextRxDesc(@), !.done = @ + 1,
                                 !.left = IF last THEN 0 ELSE @ - 1]
    /\ UNCHANGED <<DMARxDescToGet, info, rxCpu, read>>

RxCpu == Call \/ CheckReceivedFrame \/ ReadReceivedFrame \/ ScanRound \/ ScanEnd \/ Release

RxNext == RxCpu \/ Mac_Store \/ \E n \in 1..MaxSegs : Mac_Arrive(n)

RxSpec == RxInit /\ [][RxNext]_rxVars /\ WF_rxVars(RxCpu) /\ WF_rxVars(Mac_Store)

-----------------------------------------------------------------------------
(* The type of the state. *)
RxTypeOK ==
    /\ rxDesc \in [RxRing -> [OWN : BOOLEAN, FDES : BOOLEAN, LDES : BOOLEAN,
                              buf : RxPart \cup {NoRxPart}]]
    /\ DMARxDescToGet \in RxRing
    /\ info \in [FS : RxRing, segCount : 0..ETH_RXBUFNB]
    /\ rxCpu \in [at : {"idle", "check", "read", "scan", "release"}, n : 0..ETH_RXBUFNB]
    /\ rxMac \in [d : RxRing, frame : 0..MaxRxFrames, done : 0..MaxSegs, left : 0..MaxSegs]
    /\ stored \in Seq(Seq(RxPart)) /\ read \in Seq(Seq(RxPart))

(* The frames there can be, and those stored and not yet read. *)
WholeRxFrame(f, n) == [k \in 1..n |-> <<f, k>>]
RxFrames == {WholeRxFrame(f, n) : f \in 1..MaxRxFrames, n \in 1..MaxSegs}
RxPending == SubSeq(stored, Len(read) + 1, Len(stored))

(* The ring is a queue of frames: what the caller gets is what the engine  *)
(* stored, whole, once, in order.                                          *)
RxQueue == INSTANCE FrameQueue WITH
    Capacity <- ETH_RXBUFNB, Frame <- RxFrames, pending <- RxPending, taken <- read
RxImplementsQueue == RxQueue!Queue

(* Every frame the engine stored reaches the caller, and every descriptor  *)
(* goes back to the engine when no more frames come.                       *)
EveryFrameRead == <>[](read = stored /\ \A d \in RxRing : rxDesc[d].OWN)
=============================================================================
