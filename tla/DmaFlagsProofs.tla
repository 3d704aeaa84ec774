--------------------------- MODULE DmaFlagsProofs ---------------------------
(***************************************************************************)
(* For every set of channels on the two controllers, every length of a     *)
(* transfer and every choice of the users that call DMA_Reset: a user that *)
(* has seen the transfer-complete flag has had its transfer completed.     *)
(*                                                                         *)
(* The flag register is shared, so the argument has two halves: what a     *)
(* user's own steps do with its channel and its flag, and that a step for  *)
(* another channel never sets this channel's flag (Interference).          *)
(***************************************************************************)
EXTENDS DmaFlags, TLAPS

(* The transfer-complete flag of u's channel. *)
TC(u) == <<u[2], "TC">> \in INTSTS[u[1]]

(* The fields of a channel the argument needs. *)
Regs == [CHEN : BOOLEAN, DIRCFG : {"src", "dst"}, CIRMODE : {FALSE}, CHNDATA : Nat,
         CHMADDR : {"buf", NoAddr}, CHPADDR : {"DATA", NoAddr}, pos : Nat, load : Nat]

FlagsTypeOK ==
    /\ chan \in [Users -> Regs]
    /\ INTSTS \in [1..2 -> SUBSET Bits]
    /\ phase \in [Users -> Phases]
    /\ round \in [Users -> Nat]

(* Until it is enabled the channel is off and its flag is clear; from then *)
(* on the flag is set only with the count at zero, and a user that has     *)
(* seen it finds the count at zero until the channel is off again.         *)
UserOK(u) ==
    /\ phase[u] \in {"idle", "reset", "prepared", "counted"} => ~chan[u].CHEN /\ ~TC(u)
    /\ phase[u] = "polling" /\ TC(u) => chan[u].CHNDATA = 0
    /\ phase[u] \in {"complete", "cleared"} => chan[u].CHNDATA = 0
    /\ phase[u] = "cleared" => ~TC(u)

FlagsInv == FlagsTypeOK /\ \A u \in Users : UserOK(u)

-----------------------------------------------------------------------------
(* A user is a pair of a controller and a channel, and is told apart from  *)
(* another by one of the two.                                              *)
LEMMA UserPairs ==
    ASSUME NEW u \in Users
    PROVE  /\ u[1] \in 1..2 /\ u[2] \in 1..7 /\ <<u[2], "TC">> \in Bits
           /\ \A v \in Users : u[1] = v[1] /\ u[2] = v[2] => u = v
  BY DmaFlagsAssumption DEF Bits, Kinds

-----------------------------------------------------------------------------
(* Each driver function, and a transfer, keeps the registers in their      *)
(* ranges.                                                                 *)

LEMMA ResetRegs ==
    ASSUME NEW r \in Regs
    PROVE  /\ DMA_ResetRegs(DMA_ResetCHCFG(r)) \in Regs
           /\ ~DMA_ResetRegs(DMA_ResetCHCFG(r)).CHEN
  BY DEF Regs, DMA_ResetRegs, DMA_ResetCHCFG

LEMMA ConfigRegs ==
    ASSUME NEW r \in Regs, ~r.CHEN
    PROVE  LET s == DMA_ConfigMemoryAddr(DMA_ConfigPeripheralAddr(
                        DMA_ConfigCHCFG(r, r.CHEN, "dst", FALSE), "DATA"), "buf")
           IN  s \in Regs /\ ~s.CHEN
  BY DEF Regs, DMA_ConfigMemoryAddr, DMA_ConfigPeripheralAddr, DMA_ConfigCHCFG, DMA_Disable

LEMMA CountRegs ==
    ASSUME NEW r \in Regs, ~r.CHEN
    PROVE  DMA_ConfigDataNumber(r, Units) \in Regs /\ ~DMA_ConfigDataNumber(r, Units).CHEN
  <1>1. U16(Units) \in Nat
    BY DmaFlagsAssumption DEF U16
  <1>2. QED
    BY <1>1 DEF Regs, DMA_ConfigDataNumber

LEMMA EnableRegs ==
    ASSUME NEW r \in Regs
    PROVE  DMA_Enable(r) \in Regs
  BY DEF Regs, DMA_Enable

LEMMA DisableRegs ==
    ASSUME NEW r \in Regs
    PROVE  DMA_Disable(r) \in Regs /\ ~DMA_Disable(r).CHEN
  BY DEF Regs, DMA_Disable

LEMMA TransferRegs ==
    ASSUME NEW r \in Regs, CanTransfer(r)
    PROVE  /\ Transfer(r) \in Regs /\ Transfer(r).CHNDATA = r.CHNDATA - 1
           /\ Transfer(r).CHEN
  <1>1. ~r.CIRMODE /\ r.CHEN = TRUE
    BY Zenon DEF Regs, CanTransfer
  <1>2. r.CHNDATA - 1 \in Nat /\ r.pos + 1 \in Nat
    BY DEF Regs, CanTransfer
  <1>3. Transfer(r) = [r EXCEPT !.CHNDATA = r.CHNDATA - 1, !.pos = r.pos + 1]
    BY <1>1, Zenon DEF Transfer
  <1>4. QED
    BY <1>1, <1>2, <1>3, Zenon DEF Regs

-----------------------------------------------------------------------------
(* The initial states. *)
LEMMA FlagsInit == Init => FlagsInv
  <1> SUFFICES ASSUME Init PROVE FlagsInv
    OBVIOUS
  <1>1. ResetChannel \in Regs /\ ~ResetChannel.CHEN
    <2>1. 0 \in Nat
      OBVIOUS
    <2>2. QED
      BY <2>1, Zenon DEF ResetChannel, Regs
  <1>2. FlagsTypeOK
    BY <1>1 DEF Init, FlagsTypeOK, Phases
  <1>3. ASSUME NEW u \in Users PROVE UserOK(u)
    <2>1. phase[u] = "idle" /\ chan[u] = ResetChannel /\ INTSTS[u[1]] = {}
      BY UserPairs DEF Init
    <2>2. QED
      BY <1>1, <2>1, Zenon DEF UserOK, TC
  <1>4. QED
    BY <1>2, <1>3 DEF FlagsInv

(* A step for the channel of v leaves another user's channel and phase     *)
(* alone and sets no flag of its channel: what DMA_Reset and the clearing  *)
(* functions write only clears, and a transfer raises flags of its own     *)
(* nibble.                                                                 *)
LEMMA Interference ==
    ASSUME FlagsTypeOK, NEW u \in Users, NEW v \in Users, u # v, UserStep(v) \/ Unit(v)
    PROVE  chan'[u] = chan[u] /\ phase'[u] = phase[u] /\ (TC(u)' => TC(u))
  <1> USE DEF FlagsTypeOK
  <1>1. chan'[u] = chan[u]
    BY DEF UserStep, DMA_Reset, DMA_Config, ClearFlags, SetCount, Enable, Poll, Acknowledge,
           Disable, Unit, WriteChan
  <1>2. phase'[u] = phase[u]
    BY DEF UserStep, DMA_Reset, DMA_Config, ClearFlags, SetCount, Enable, Poll, Acknowledge,
           Disable, Unit, GoTo
  <1>3. TC(u)' => TC(u)
    <2>1. CASE UserStep(v)
      <3>1. INTSTS' = INTSTS \/ \E b : INTSTS' = [INTSTS EXCEPT ![v[1]] = @ \ b]
        BY <2>1 DEF UserStep, DMA_Reset, DMA_Config, ClearFlags, SetCount, Enable, Poll,
                    Acknowledge, Disable, WriteINTFCLR, DMA_ClearStatusFlag
      <3>2. QED
        BY <3>1, UserPairs DEF TC
    <2>2. CASE Unit(v)
      <3>1. PICK raised : INTSTS' = [INTSTS EXCEPT ![v[1]] = @ \cup ({v[2]} \X raised)]
        BY <2>2 DEF Unit
      <3>2. u[1] # v[1] \/ u[2] # v[2]
        BY UserPairs
      <3>3. QED
        BY <3>1, <3>2, UserPairs DEF TC
    <2>3. QED
      BY <2>1, <2>2
  <1>4. QED
    BY <1>1, <1>2, <1>3

(* A user's own step, and a transfer on its channel, keep the state in its *)
(* type and what is said of that user.                                     *)
LEMMA OwnStep ==
    ASSUME FlagsTypeOK, NEW u \in Users, UserOK(u), UserStep(u) \/ Unit(u)
    PROVE  FlagsTypeOK' /\ UserOK(u)'
  <1>0. u[1] \in 1..2 /\ u[2] \in 1..7 /\ <<u[2], "TC">> \in Bits
    BY UserPairs
  <1>1. /\ chan \in [Users -> Regs] /\ INTSTS \in [1..2 -> SUBSET Bits]
        /\ phase \in [Users -> Phases] /\ round \in [Users -> Nat]
    BY DEF FlagsTypeOK
  <1>2. chan[u] \in Regs
    BY <1>1
  <1>3. CASE DMA_Reset(u)
    <2> DEFINE r == DMA_ResetRegs(DMA_ResetCHCFG(chan[u]))
    <2>1. r \in Regs /\ ~r.CHEN
      BY <1>2, ResetRegs
    <2>2. /\ phase[u] = "idle" /\ phase' = [phase EXCEPT ![u] = "reset"]
          /\ chan' = [chan EXCEPT ![u] = r] /\ round' = round
          /\ INTSTS' = [INTSTS EXCEPT ![u[1]] = @ \ ResetMask(u[2])]
      BY <1>3 DEF DMA_Reset, GoTo, WriteChan, WriteINTFCLR
    <2> HIDE DEF r
    <2>3. QED
      BY <1>0, <1>1, <2>1, <2>2 DEF FlagsTypeOK, UserOK, TC, Phases
  <1>4. CASE DMA_Config(u)
    <2> DEFINE r == DMA_ConfigMemoryAddr(DMA_ConfigPeripheralAddr(
                        DMA_ConfigCHCFG(chan[u], chan[u].CHEN, "dst", FALSE), "DATA"), "buf")
    <2>1. /\ phase[u] = "reset" /\ phase' = [phase EXCEPT ![u] = "prepared"]
          /\ chan' = [chan EXCEPT ![u] = r] /\ INTSTS' = INTSTS /\ round' = round
      BY <1>4 DEF DMA_Config, GoTo, WriteChan
    <2>2. ~chan[u].CHEN
      BY <2>1 DEF UserOK
    <2>3. r \in Regs /\ ~r.CHEN
      BY <1>2, <2>2, ConfigRegs
    <2> HIDE DEF r
    <2>4. QED
      BY <1>0, <1>1, <2>1, <2>3 DEF FlagsTypeOK, UserOK, TC, Phases
  <1>5. CASE ClearFlags(u)
    <2>1. /\ phase[u] = "idle" /\ phase' = [phase EXCEPT ![u] = "prepared"]
          /\ chan' = chan /\ round' = round
          /\ INTSTS' = [INTSTS EXCEPT ![u[1]] = @ \ Nibble(u[2])]
      BY <1>5 DEF ClearFlags, GoTo, DMA_ClearStatusFlag, WriteINTFCLR
    <2>2. QED
      BY <1>0, <1>1, <2>1 DEF FlagsTypeOK, UserOK, TC, Phases
  <1>6. CASE SetCount(u)
    <2> DEFINE r == DMA_ConfigDataNumber(chan[u], Units)
    <2>1. /\ phase[u] = "prepared" /\ phase' = [phase EXCEPT ![u] = "counted"]
          /\ chan' = [chan EXCEPT ![u] = r] /\ INTSTS' = INTSTS /\ round' = round
      BY <1>6 DEF SetCount, GoTo, WriteChan
    <2>2. ~chan[u].CHEN
      BY <2>1 DEF UserOK
    <2>3. r \in Regs /\ ~r.CHEN
      BY <1>2, <2>2, CountRegs
    <2> HIDE DEF r
    <2>4. QED
      BY <1>0, <1>1, <2>1, <2>3 DEF FlagsTypeOK, UserOK, TC, Phases
  <1>7. CASE Enable(u)
    <2> DEFINE r == DMA_Enable(chan[u])
    <2>1. /\ phase[u] = "counted" /\ phase' = [phase EXCEPT ![u] = "polling"]
          /\ chan' = [chan EXCEPT ![u] = r] /\ INTSTS' = INTSTS /\ round' = round
      BY <1>7 DEF Enable, GoTo, WriteChan
    <2>2. r \in Regs
      BY <1>2, EnableRegs
    <2> HIDE DEF r
    <2>3. QED
      BY <1>0, <1>1, <2>1, <2>2 DEF FlagsTypeOK, UserOK, TC, Phases
  <1>8. CASE Poll(u)
    <2>1. /\ phase[u] = "polling" /\ phase' = [phase EXCEPT ![u] = "complete"]
          /\ UNCHANGED <<chan, INTSTS, round>>
      BY <1>8 DEF Poll, GoTo
    <2>2. TC(u)
      BY <1>8 DEF Poll, DMA_ReadStatusFlag, TC
    <2>3. QED
      BY <1>0, <1>1, <2>1, <2>2 DEF FlagsTypeOK, UserOK, TC, Phases
  <1>9. CASE Acknowledge(u)
    <2>1. /\ phase[u] = "complete" /\ phase' = [phase EXCEPT ![u] = "cleared"]
          /\ chan' = chan /\ round' = round
          /\ INTSTS' = [INTSTS EXCEPT ![u[1]] = @ \ {<<u[2], "TC">>}]
      BY <1>9 DEF Acknowledge, GoTo, DMA_ClearStatusFlag, WriteINTFCLR
    <2>2. QED
      BY <1>0, <1>1, <2>1 DEF FlagsTypeOK, UserOK, TC, Phases
  <1>10. CASE Disable(u)
    <2> DEFINE r == DMA_Disable(chan[u])
    <2>1. /\ phase[u] = "cleared" /\ phase' = [phase EXCEPT ![u] = "idle"]
          /\ chan' = [chan EXCEPT ![u] = r] /\ INTSTS' = INTSTS
          /\ round' = [round EXCEPT ![u] = @ + 1]
      BY <1>10 DEF Disable, GoTo, WriteChan
    <2>2. r \in Regs /\ ~r.CHEN
      BY <1>2, DisableRegs
    <2> HIDE DEF r
    <2>3. QED
      BY <1>0, <1>1, <2>1, <2>2 DEF FlagsTypeOK, UserOK, TC, Phases
  <1>11. CASE Unit(u)
    <2> DEFINE r == Transfer(chan[u])
               raised == (IF chan[u].CHNDATA - 1 = chan[u].load \div 2 THEN {"HT"} ELSE {})
                           \cup (IF chan[u].CHNDATA - 1 = 0 THEN {"TC"} ELSE {})
    <2>1. /\ CanTransfer(chan[u]) /\ chan' = [chan EXCEPT ![u] = r]
          /\ INTSTS' = [INTSTS EXCEPT ![u[1]] = @ \cup ({u[2]} \X raised)]
          /\ phase' = phase /\ round' = round
      BY <1>11, Zenon DEF Unit, WriteChan
    <2>2. r \in Regs /\ r.CHNDATA = chan[u].CHNDATA - 1
      BY <1>2, <2>1, TransferRegs
    <2>3. chan[u].CHEN /\ chan[u].CHNDATA > 0
      BY <2>1 DEF CanTransfer
    <2>4. raised \subseteq {"HT", "TC"} /\ ("TC" \in raised => r.CHNDATA = 0)
      BY <2>2
    <2>5. chan[u].CHNDATA \in Nat
      BY <1>2 DEF Regs
    <2>6. phase[u] = "polling" /\ ~TC(u)
      BY <1>1, <2>3, <2>5 DEF UserOK, Phases
    <2> HIDE DEF r, raised
    <2>7. FlagsTypeOK'
      BY <1>0, <1>1, <2>1, <2>2, <2>4 DEF FlagsTypeOK, Bits, Kinds
    <2>8. UserOK(u)'
      BY <1>0, <1>1, <2>1, <2>2, <2>4, <2>6 DEF UserOK, TC, Phases
    <2>9. QED
      BY <2>7, <2>8
  <1>12. QED
    BY <1>3, <1>4, <1>5, <1>6, <1>7, <1>8, <1>9, <1>10, <1>11 DEF UserStep

(* Every step preserves the invariant. *)
LEMMA FlagsStep == FlagsInv /\ [Next]_vars => FlagsInv'
  <1> SUFFICES ASSUME FlagsInv, [Next]_vars PROVE FlagsInv'
    OBVIOUS
  <1>1. CASE Next
    <2>1. PICK v \in Users : UserStep(v) \/ Unit(v)
      BY <1>1 DEF Next
    <2>2. FlagsTypeOK' /\ UserOK(v)'
      BY <2>1, OwnStep DEF FlagsInv
    <2>3. ASSUME NEW u \in Users, u # v PROVE UserOK(u)'
      <3>1. chan'[u] = chan[u] /\ phase'[u] = phase[u] /\ (TC(u)' => TC(u))
        BY <2>1, <2>3, Interference DEF FlagsInv
      <3>2. UserOK(u)
        BY DEF FlagsInv
      <3>3. QED
        BY <3>1, <3>2, Zenon DEF UserOK
    <2>4. QED
      BY <2>2, <2>3 DEF FlagsInv
  <1>2. CASE UNCHANGED vars
    BY <1>2 DEF FlagsInv, FlagsTypeOK, UserOK, TC, vars
  <1>3. QED
    BY <1>1, <1>2

(* A transfer-complete flag seen by a user is its own transfer's, however  *)
(* the users of the other channels interleave (DMA_ReadStatusFlag,         *)
(* DMA_ClearStatusFlag, DMA_Reset).                                        *)
THEOREM FlagIsOwnCompletion == Spec => []TrueCompletion
  <1>1. FlagsInv => TrueCompletion
    BY DEF FlagsInv, UserOK, TrueCompletion
  <1>2. QED
    BY FlagsInit, FlagsStep, <1>1, PTL DEF Spec
=============================================================================
