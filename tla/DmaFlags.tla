------------------------------ MODULE DmaFlags ------------------------------
(***************************************************************************)
(* The status flags of the two DMA controllers, shared by every channel,   *)
(* and the driver functions that read and clear them                       *)
(* (apm32f10x_dma.c).  Several drivers, one per channel, each run the      *)
(* protocol the driver is made for: prepare the channel, set the count,    *)
(* enable, poll the transfer-complete flag, disable.                       *)
(*                                                                         *)
(* INTSTS and INTFCLR hold one nibble per channel.  A flag argument is a   *)
(* pair of a controller (bit 28 of the code's constants: 0x10000000 is     *)
(* DMA2) and a set of <<channel, kind>> bits.                              *)
(***************************************************************************)
EXTENDS Dma, FiniteSets

CONSTANTS
    Users,      \* the channels in use, as <<controller, channel>>
    Units,      \* data units of a transfer
    Rounds,     \* bound: transfers each user runs
    Resetters   \* the users that prepare their channel with DMA_Reset; the others
                \* clear its flags

ASSUME DmaFlagsAssumption ==
    /\ Users \subseteq (1..2) \X (1..7)
    /\ Units \in Nat \ {0} /\ Units < 65536 /\ Rounds \in Nat
    /\ Resetters \subseteq Users

VARIABLES
    chan,     \* the registers of each channel
    INTSTS,   \* the flags that are set, per controller
    phase,    \* what each user is doing
    round     \* transfers each user has finished

vars == <<chan, INTSTS, phase, round>>

Kinds == {"TC", "HT", "TERR"}
Bits  == (1..8) \X Kinds
Phases == {"idle", "reset", "prepared", "counted", "polling", "complete", "cleared"}

-----------------------------------------------------------------------------
(* A write to INTFCLR clears the flags whose bits are 1. *)
WriteINTFCLR(ctrl, bits) == INTSTS' = [INTSTS EXCEPT ![ctrl] = @ \ bits]

Nibble(n) == {n} \X Kinds

(* The mask of DMA_Reset's if-chain: 0xFFFFFFF0 for channel 1, 0xFFFFFF0F  *)
(* for channel 2, and so on: every nibble but the channel's own.           *)
ResetMask(n) == Bits \ Nibble(n)

(* DMA_ReadStatusFlag and DMA_ReadIntFlag have the same body; bit 28       *)
(* chooses the controller.                                                 *)
DMA_ReadStatusFlag(ctrl, bits) == INTSTS[ctrl] \cap bits # {}

(* A faulty variant: the else of the test of bit 28 is dropped. *)
DMA_ClearBothFlags(ctrl, bits) == INTSTS' = [c \in 1..2 |-> INTSTS[c] \ bits]

(* DMA_ClearStatusFlag, and DMA_ClearIntFlag with the same body. *)
DMA_ClearStatusFlag(ctrl, bits) == WriteINTFCLR(ctrl, bits)

-----------------------------------------------------------------------------
Init ==
    /\ chan = [u \in Users |-> ResetChannel]
    /\ INTSTS = [c \in 1..2 |-> {}]
    /\ phase = [u \in Users |-> "idle"]
    /\ round = [u \in Users |-> 0]

GoTo(u, from, to) == phase[u] = from /\ phase' = [phase EXCEPT ![u] = to]
WriteChan(u, r) == chan' = [chan EXCEPT ![u] = r]

DMA_Reset(u) ==
    /\ u \in Resetters /\ round[u] < Rounds
    /\ GoTo(u, "idle", "reset")
    /\ WriteChan(u, DMA_ResetRegs(DMA_ResetCHCFG(chan[u])))
    /\ WriteINTFCLR(u[1], ResetMask(u[2]))
    /\ UNCHANGED round

DMA_Config(u) ==
    /\ GoTo(u, "reset", "prepared")
    /\ WriteChan(u, DMA_ConfigMemoryAddr(DMA_ConfigPeripheralAddr(
                        DMA_ConfigCHCFG(chan[u], chan[u].CHEN, "dst", FALSE), "DATA"), "buf"))
    /\ UNCHANGED <<INTSTS, round>>

ClearFlags(u) ==
    /\ u \notin Resetters /\ round[u] < Rounds
    /\ GoTo(u, "idle", "prepared")
    /\ DMA_ClearStatusFlag(u[1], Nibble(u[2]))
    /\ UNCHANGED <<chan, round>>

SetCount(u) ==
    /\ GoTo(u, "prepared", "counted")
    /\ WriteChan(u, DMA_ConfigDataNumber(chan[u], Units))
    /\ UNCHANGED <<INTSTS, round>>

Enable(u) ==
    /\ GoTo(u, "counted", "polling")
    /\ WriteChan(u, DMA_Enable(chan[u]))
    /\ UNCHANGED <<INTSTS, round>>

(* A faulty variant: half of the transfer is taken for all of it. *)
PollHalf(u) ==
    /\ DMA_ReadStatusFlag(u[1], {<<u[2], "TC">>, <<u[2], "HT">>})
    /\ GoTo(u, "polling", "complete")
    /\ UNCHANGED <<chan, INTSTS, round>>

Poll(u) ==
    /\ DMA_ReadStatusFlag(u[1], {<<u[2], "TC">>})
    /\ GoTo(u, "polling", "complete")
    /\ UNCHANGED <<chan, INTSTS, round>>

Acknowledge(u) ==
    /\ GoTo(u, "complete", "cleared")
    /\ DMA_ClearStatusFlag(u[1], {<<u[2], "TC">>})
    /\ UNCHANGED <<chan, round>>

Disable(u) ==
    /\ GoTo(u, "cleared", "idle")
    /\ WriteChan(u, DMA_Disable(chan[u]))
    /\ round' = [round EXCEPT ![u] = @ + 1]
    /\ UNCHANGED INTSTS

(* The hardware moves a unit and raises the flags it reaches. *)
Unit(u) ==
    /\ CanTransfer(chan[u])
    /\ WriteChan(u, Transfer(chan[u]))
    /\ LET left == chan[u].CHNDATA - 1
           raised == (IF left = chan[u].load \div 2 THEN {"HT"} ELSE {})
                       \cup (IF left = 0 THEN {"TC"} ELSE {})
       IN  INTSTS' = [INTSTS EXCEPT ![u[1]] = @ \cup ({u[2]} \X raised)]
    /\ UNCHANGED <<phase, round>>

UserStep(u) ==
    \/ DMA_Reset(u) \/ DMA_Config(u) \/ ClearFlags(u) \/ SetCount(u) \/ Enable(u)
    \/ Poll(u) \/ Acknowledge(u) \/ Disable(u)

Next == \E u \in Users : UserStep(u) \/ Unit(u)

Spec == Init /\ [][Next]_vars /\ \A u \in Users : WF_vars(UserStep(u)) /\ WF_vars(Unit(u))

-----------------------------------------------------------------------------
(* A user that has seen the transfer-complete flag has had its transfer    *)
(* completed: no flag of an earlier transfer or of another channel is      *)
(* taken for it.                                                           *)
TrueCompletion == \A u \in Users : phase[u] = "complete" => chan[u].CHNDATA = 0

(* Every transfer that was started is seen to complete, whatever the users *)
(* of the other channels do meanwhile.                                     *)
EveryTransferSeen == \A u \in Users : phase[u] = "polling" ~> phase[u] = "complete"

(* "Reset specified DMA Channel registers to their default reset": after   *)
(* DMA_Reset no flag of the channel is set.                                *)
ResetClearsFlags ==
    \A u \in Users : phase[u] = "reset" => INTSTS[u[1]] \cap Nibble(u[2]) = {}
=============================================================================
