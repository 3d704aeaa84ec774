------------------------------- MODULE EthPhy -------------------------------
(***************************************************************************)
(* The PHY part of the Ethernet driver (apm32f10x_eth.c): ETH_Config,      *)
(* which resets the PHY, waits for the link and the negotiation and sets   *)
(* the MAC to the result, the MII accesses it is made of, and the          *)
(* loop-back functions.  The PHY gets its link, and the MII ends an        *)
(* access, at any time or never.                                           *)
(*                                                                         *)
(* A PHY register is the set of its bits that are set, and 0 is {}.        *)
(***************************************************************************)
EXTENDS Integers

CONSTANTS
    Limit,       \* PHY_READ_TIMEOUT and PHY_WRITE_TIMEOUT
    Forced,      \* [speed, mode] pairs the caller sets without negotiation
    MiiTimely,   \* whether an MII access ends before its wait does: one of these
    MaxCalls     \* bound: calls of the loop-back functions

EthPhyAssumption ==
    /\ Limit \in Nat /\ Limit > 1 /\ MaxCalls \in Nat
    /\ Forced \subseteq [speed : 0..1, mode : 0..1]
    /\ MiiTimely \subseteq BOOLEAN

VARIABLES
    BCR, link, done,   \* the PHY: control register, link, negotiation complete
    partner,           \* what a negotiation ends with
    mii,               \* MII registers: MB, the access, DATA
    phyCpu,               \* the call under way and its locals
    ethConfig,         \* autoNegotiation, speed, mode
    MAC,               \* CFG: SSEL and DM
    timely, calls

phyVars == <<BCR, link, done, partner, mii, phyCpu, ethConfig, MAC, timely, calls>>

(* ETH_SPEED_10M, ETH_SPEED_100M; ETH_MODE_HALFDUPLEX, ETH_MODE_FULLDUPLEX *)
Setting == [speed : 0..1, mode : 0..1]
BcrBits == {"RESET", "LOOPBACK", "SPEED", "AUTONEGOTIATION", "DUPLEX"}   \* 15, 14, 13, 12, 8
StatusBits == {"LINKED", "COMPLETE", "FULL", "TEN"}

-----------------------------------------------------------------------------
(* The PHY.  It runs as negotiated, or as its control register says. *)
PhySetting ==
    IF "AUTONEGOTIATION" \in BCR THEN partner
    ELSE [speed |-> IF "SPEED" \in BCR THEN 1 ELSE 0, mode |-> IF "DUPLEX" \in BCR THEN 1 ELSE 0]

Register(reg) ==
    CASE reg = "BCR" -> BCR
      [] reg = "BSR" -> (IF link THEN {"LINKED"} ELSE {}) \cup (IF done THEN {"COMPLETE"} ELSE {})
      [] reg = "SR"  -> (IF PhySetting.mode = 1 THEN {"FULL"} ELSE {})
                          \cup (IF PhySetting.speed = 0 THEN {"TEN"} ELSE {})

Phy_Link ==
    /\ ~link /\ link' = TRUE
    /\ UNCHANGED <<BCR, done, partner, mii, phyCpu, ethConfig, MAC, timely, calls>>

Phy_Negotiate ==
    /\ link /\ "AUTONEGOTIATION" \in BCR /\ ~done /\ done' = TRUE
    /\ UNCHANGED <<BCR, link, partner, mii, phyCpu, ethConfig, MAC, timely, calls>>

(* The end of an access; a reset leaves negotiation on and not yet done. *)
Mii_End ==
    /\ mii.MB
    /\ mii' = [mii EXCEPT !.MB = FALSE, !.DATA = IF mii.MW THEN @ ELSE Register(mii.MR)]
    /\ BCR' = IF ~mii.MW THEN BCR ELSE IF "RESET" \in mii.out THEN {"AUTONEGOTIATION"} ELSE mii.out
    /\ done' = (done /\ ~(mii.MW /\ "RESET" \in mii.out))
    /\ UNCHANGED <<link, partner, phyCpu, ethConfig, MAC, timely, calls>>

-----------------------------------------------------------------------------
(* The start of ETH_ReadPHYRegister or ETH_WritePHYRegister in the call c. *)
(* If the access before has not ended nothing says which of the two is     *)
(* carried out.                                                            *)
Access(c, reg, write, bits) ==
    /\ phyCpu' = [c EXCEPT !.at = "poll"]
    /\ LET new == [MB |-> TRUE, MR |-> reg, MW |-> write, out |-> bits, DATA |-> mii.DATA]
       IN  mii' \in IF mii.MB THEN {mii, new} ELSE {new}

ReadPHY(c, reg) == Access(c, reg, FALSE, {})
WritePHY(c, bits) == Access(c, "BCR", TRUE, bits)
Untouched == UNCHANGED <<BCR, link, done, partner, timely>>

(* The wait of both: it ends with the access, or with its count; an access *)
(* that ends in the last round counts as not ended.  A read then returns   *)
(* ETH_ERROR, which is 0.                                                  *)
Poll(late) ==
    /\ phyCpu.at = "poll" /\ IF late THEN ~timely ELSE ~mii.MB
    /\ phyCpu' = [phyCpu EXCEPT !.at = "step", !.failed = late, !.value = IF late THEN {} ELSE mii.DATA]
    /\ Untouched /\ UNCHANGED <<mii, ethConfig, MAC, calls>>

At(pc) == phyCpu.at = "step" /\ phyCpu.pc = pc
Stay == Untouched /\ UNCHANGED <<ethConfig, MAC, calls>>

(* On to the label error. *)
Finish(err) == phyCpu' = [phyCpu EXCEPT !.pc = "error", !.err = err] /\ UNCHANGED mii

(* The bits of ethConfig->speed << 8 and ethConfig->mode << 13. *)
ForcedBits == (IF ethConfig.speed = 1 THEN {"DUPLEX"} ELSE {})
                \cup (IF ethConfig.mode = 1 THEN {"SPEED"} ELSE {})

(* ETH_Config *)
Config_Reset == At("config") /\ WritePHY([phyCpu EXCEPT !.pc = "reset"], {"RESET"}) /\ Stay

Config_Negotiate ==
    /\ At("reset") /\ ~phyCpu.failed /\ ethConfig.auto
    /\ ReadPHY([phyCpu EXCEPT !.pc = "link", !.timeout = 1], "BSR")
    /\ Stay

Config_Force ==
    /\ At("reset") /\ ~phyCpu.failed /\ ~ethConfig.auto
    /\ WritePHY([phyCpu EXCEPT !.pc = "forced"], ForcedBits)
    /\ Stay

Config_NoReset == At("reset") /\ phyCpu.failed /\ Finish(TRUE) /\ Stay
Config_Forced == At("forced") /\ Finish(phyCpu.failed) /\ Stay

Bit == IF phyCpu.pc = "link" THEN "LINKED" ELSE "COMPLETE"

(* A faulty variant: the rounds are not counted. *)
WaitEndless == At(phyCpu.pc) /\ phyCpu.pc \in {"link", "negotiation"} /\ Bit \notin phyCpu.value
                  /\ ReadPHY(phyCpu, "BSR") /\ Stay

(* The waits for the link and for the negotiation. *)
Config_Wait ==
    /\ At(phyCpu.pc) /\ phyCpu.pc \in {"link", "negotiation"}
    /\ Bit \notin phyCpu.value /\ phyCpu.timeout < Limit
    /\ ReadPHY([phyCpu EXCEPT !.timeout = @ + 1], "BSR")
    /\ Stay

(* The count decides: a bit that is set in the last round is too late. *)
Config_TimedOut ==
    /\ At(phyCpu.pc) /\ phyCpu.pc \in {"link", "negotiation"}
    /\ phyCpu.timeout = Limit
    /\ Finish(TRUE) /\ Stay

Config_Linked ==
    /\ At("link") /\ Bit \in phyCpu.value /\ phyCpu.timeout < Limit
    /\ WritePHY([phyCpu EXCEPT !.pc = "auto"], {"AUTONEGOTIATION"})
    /\ Stay

(* A write that timed out is an error, but does not end the function. *)
Config_Auto ==
    /\ At("auto")
    /\ ReadPHY([phyCpu EXCEPT !.pc = "negotiation", !.timeout = 1, !.err = phyCpu.failed], "BSR")
    /\ Stay

Config_Negotiated ==
    /\ At("negotiation") /\ Bit \in phyCpu.value /\ phyCpu.timeout < Limit
    /\ ReadPHY([phyCpu EXCEPT !.pc = "result"], "SR")
    /\ Stay

(* A faulty variant: the speed bit is read as 100 Mbit/s. *)
ResultFast(v) == [speed |-> IF "TEN" \in v THEN 1 ELSE 0, mode |-> IF "FULL" \in v THEN 1 ELSE 0]
Result(v) == [speed |-> IF "TEN" \in v THEN 0 ELSE 1, mode |-> IF "FULL" \in v THEN 1 ELSE 0]

Config_Result ==
    /\ At("result")
    /\ LET r == Result(phyCpu.value)
       IN  ethConfig' = [ethConfig EXCEPT !.speed = r.speed, !.mode = r.mode]
    /\ Finish(phyCpu.err)
    /\ Untouched /\ UNCHANGED <<MAC, calls>>

Registers == IF phyCpu.err THEN [ethConfig EXCEPT !.speed = 1, !.mode = 1] ELSE ethConfig

(* From the label error on: the MAC registers, of which SSEL and DM matter. *)
Config_Registers ==
    /\ At("error")
    /\ ethConfig' = Registers
    /\ MAC' = [speed |-> Registers.speed, mode |-> Registers.mode]
    /\ phyCpu' = [phyCpu EXCEPT !.pc = "returned"]
    /\ Untouched /\ UNCHANGED <<mii, calls>>

(* ETH_EnablePHYLoopBack and ETH_DisablePHYLoopBack: read, change, write. *)
LoopBack_Read(on) ==
    /\ At("returned") /\ calls < MaxCalls /\ calls' = calls + 1
    /\ ReadPHY([phyCpu EXCEPT !.pc = IF on THEN "enable" ELSE "disable"], "BCR")
    /\ Untouched /\ UNCHANGED <<ethConfig, MAC>>

(* A faulty variant: the register is written anew. *)
LoopBackAnew(v) == IF phyCpu.pc = "enable" THEN {"LOOPBACK"} ELSE {}
LoopBackBits(v) == IF phyCpu.pc = "enable" THEN v \cup {"LOOPBACK"} ELSE v \ {"LOOPBACK"}

LoopBack_Write ==
    /\ At(phyCpu.pc) /\ phyCpu.pc \in {"enable", "disable"}
    /\ WritePHY([phyCpu EXCEPT !.pc = "written"], LoopBackBits(phyCpu.value))
    /\ Stay

LoopBack_Return ==
    /\ At("written")
    /\ phyCpu' = [phyCpu EXCEPT !.pc = "returned"]
    /\ Stay /\ UNCHANGED mii

-----------------------------------------------------------------------------
PhyInit ==
    /\ BCR = {"AUTONEGOTIATION"} /\ link \in BOOLEAN /\ done = FALSE
    /\ partner \in Setting
    /\ mii = [MB |-> FALSE, MR |-> "BCR", MW |-> FALSE, out |-> {}, DATA |-> {}]
    /\ phyCpu = [at |-> "step", pc |-> "config", timeout |-> 0, failed |-> FALSE, value |-> {},
              err |-> FALSE]
    /\ \/ ethConfig = [auto |-> TRUE, speed |-> 1, mode |-> 1]
       \/ \E f \in Forced : ethConfig = [auto |-> FALSE, speed |-> f.speed, mode |-> f.mode]
    /\ MAC = [speed |-> 0, mode |-> 0]
    /\ timely \in MiiTimely /\ calls = 0

Config ==
    \/ Config_Reset \/ Config_Negotiate \/ Config_Force \/ Config_NoReset \/ Config_Forced
    \/ Config_Wait \/ Config_TimedOut \/ Config_Linked \/ Config_Auto \/ Config_Negotiated
    \/ Config_Result \/ Config_Registers

(* A wait ends, the access being in time or not. *)
PhyCpu == Config \/ LoopBack_Write \/ LoopBack_Return \/ \E late \in BOOLEAN : Poll(late)

PhyNext == PhyCpu \/ Mii_End \/ Phy_Link \/ Phy_Negotiate \/ \E on \in BOOLEAN : LoopBack_Read(on)

(* The processor goes on; an access ends if the MII is one that is in time. *)
PhySpec == PhyInit /\ [][PhyNext]_phyVars /\ WF_phyVars(PhyCpu) /\ WF_phyVars(timely /\ Mii_End)

-----------------------------------------------------------------------------
(* The type of the state. *)
PhyTypeOK ==
    /\ BCR \subseteq (BcrBits \cup StatusBits) \ {"RESET"} /\ link \in BOOLEAN /\ done \in BOOLEAN
    /\ mii.MB \in BOOLEAN /\ mii.out \subseteq BcrBits \cup StatusBits
    /\ phyCpu.timeout \in 0..Limit /\ phyCpu.err \in BOOLEAN
    /\ MAC \in Setting /\ [speed |-> ethConfig.speed, mode |-> ethConfig.mode] \in Setting

(* "ETH_SUCCESS: Ethernet initialization success": MAC and PHY run at the  *)
(* same speed and in the same mode, if the MII is in time; and whatever    *)
(* happens, an error leaves the MAC at 100 Mbit/s, full duplex.            *)
MacAgrees ==
    (phyCpu.pc = "returned" /\ calls = 0) =>
        IF phyCpu.err THEN MAC = [speed |-> 1, mode |-> 1] ELSE timely => MAC = PhySetting

(* The loop-back functions change no other bit of the control register, if *)
(* the MII is in time.                                                     *)
LoopBackOnly ==
    [][(timely /\ phyCpu.pc = "written") => BCR' \ {"LOOPBACK"} = BCR \ {"LOOPBACK"}]_phyVars

(* ETH_Config returns, without a link, a partner or an MII that answers. *)
ConfigReturns == <>(phyCpu.pc = "returned")
=============================================================================
