------------------------------- MODULE MCEth -------------------------------
(***************************************************************************)
(* The Ethernet driver for TLC.  The transmit ring, the receive ring and   *)
(* the PHY set-up share no state; a behaviour is one of the three, and     *)
(* the other two stay as they begin.                                       *)
(***************************************************************************)
EXTENDS EthTx, EthRx, EthPhy

VARIABLE part

ASSUME EthRxAssumption /\ EthPhyAssumption

Straight == {[speed |-> 0, mode |-> 0], [speed |-> 1, mode |-> 1]}

allVars == <<part, vars, rxVars, phyVars>>

Tx(A)  == part = "tx" /\ A /\ UNCHANGED <<part, rxVars, phyVars>>
Rcv(A) == part = "rx" /\ A /\ UNCHANGED <<part, vars, phyVars>>
Mii(A) == part = "phy" /\ A /\ UNCHANGED <<part, vars, rxVars>>

MCInit ==
    /\ part \in {"tx", "rx", "phy"} /\ Init /\ RxInit /\ PhyInit
    /\ part # "phy" => ~link /\ timely /\ ethConfig.auto /\ partner = [speed |-> 1, mode |-> 1]

MCNext == Tx(Next) \/ Rcv(RxNext) \/ Mii(PhyNext)

(* The processor goes on, and so does the hardware, but for an MII that is *)
(* not in time.                                                            *)
MCSpec ==
    /\ MCInit /\ [][MCNext]_allVars
    /\ WF_allVars(Tx(Cpu) \/ Rcv(RxCpu) \/ Mii(PhyCpu))
    /\ WF_allVars(Tx(Mac) \/ Rcv(Mac_Store) \/ Mii(timely /\ Mii_End))

-----------------------------------------------------------------------------
(* The types of the three parts. *)
EthTypeOK == TypeOK /\ RxTypeOK /\ PhyTypeOK

(* ETH_Config returns, without a link, a partner or an MII that answers. *)
ConfigEnds == part = "phy" => ConfigReturns
=============================================================================
