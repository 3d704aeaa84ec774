-------------------------------- MODULE Dma --------------------------------
(***************************************************************************)
(* The DMA driver of the SDK                                               *)
(* (Libraries/APM32F10x_StdPeriphDriver/src/apm32f10x_dma.c) over one      *)
(* channel's registers, and the channel hardware it programs.              *)
(*                                                                         *)
(* Every driver function is an operator from a channel record to a channel *)
(* record, so that a module that owns channels (UsartEcho, DmaFlags)       *)
(* applies it to the channel it names.  Of the CHCFG bits only the ones    *)
(* that change control are kept: CHEN, DIRCFG and CIRMODE; data sizes,     *)
(* increments and priority are the same for every use and left out.        *)
(*                                                                         *)
(* Hardware facts, external to the repository: CHNDATA, CHMADDR and        *)
(* CHPADDR are read-only while CHEN is set; setting CHEN loads the memory  *)
(* pointer from CHMADDR (pos = 0) and the reload value from CHNDATA.       *)
(***************************************************************************)
EXTENDS Integers

NoAddr == "none"   \* the reset value 0 of CHMADDR and CHPADDR

(* uint16_t: the width of dataNumber and of tmp_len in the code. *)
U16(n) == n % 65536

ChannelRegs(Addr, N) ==
    [CHEN : BOOLEAN, DIRCFG : {"src", "dst"}, CIRMODE : BOOLEAN,
     CHNDATA : 0..N, CHMADDR : Addr \cup {NoAddr}, CHPADDR : {"DATA", NoAddr},
     pos : 0..N, load : 0..N]

(* What is left to transfer ends within a buffer of N units. *)
InBuffer(r, N) == r.CHEN => r.pos + r.CHNDATA <= N

-----------------------------------------------------------------------------
(* Driver functions. *)

(* The state of a channel after reset. *)
ResetChannel ==
    [CHEN |-> FALSE, DIRCFG |-> "src", CIRMODE |-> FALSE, CHNDATA |-> 0,
     CHMADDR |-> NoAddr, CHPADDR |-> NoAddr, pos |-> 0, load |-> 0]

(* DMA_Reset clears CHCFG, and then the three registers that only a        *)
(* disabled channel accepts; an interrupt may come in between.  The write  *)
(* to INTFCLR at its end is modelled in DmaFlags.                          *)
DMA_ResetCHCFG(r) == [r EXCEPT !.CHEN = FALSE, !.DIRCFG = "src", !.CIRMODE = FALSE]

DMA_ResetRegs(r) ==
    IF r.CHEN THEN r
    ELSE [r EXCEPT !.CHNDATA = 0, !.CHMADDR = NoAddr, !.CHPADDR = NoAddr]

DMA_Enable(r) ==
    IF r.CHEN THEN r
    ELSE [r EXCEPT !.CHEN = TRUE, !.pos = 0, !.load = r.CHNDATA]

DMA_Disable(r) == [r EXCEPT !.CHEN = FALSE]

DMA_ConfigDataNumber(r, dataNumber) ==
    IF r.CHEN THEN r ELSE [r EXCEPT !.CHNDATA = U16(dataNumber)]

DMA_ReadDataNumber(r) == r.CHNDATA

(* DMA_Config writes the bit fields of CHCFG one by one, each a read-      *)
(* modify-write of the whole register, and then CHNDATA, CHPADDR, CHMADDR. *)
(* chen is the value of CHEN the read-modify-write has read.               *)
DMA_ConfigCHCFG(r, chen, dir, loopMode) ==
    LET w == [r EXCEPT !.DIRCFG = dir, !.CIRMODE = loopMode]
    IN  IF chen THEN DMA_Enable(w) ELSE DMA_Disable(w)

DMA_ConfigPeripheralAddr(r, addr) ==
    IF r.CHEN THEN r ELSE [r EXCEPT !.CHPADDR = addr]

DMA_ConfigMemoryAddr(r, addr) ==
    IF r.CHEN THEN r ELSE [r EXCEPT !.CHMADDR = addr]

-----------------------------------------------------------------------------
(* The hardware serves one peripheral request. *)

CanTransfer(r) == r.CHEN /\ r.CHNDATA > 0

Transfer(r) ==
    IF r.CIRMODE /\ r.CHNDATA = 1
    THEN [r EXCEPT !.CHNDATA = r.load, !.pos = 0]
    ELSE [r EXCEPT !.CHNDATA = r.CHNDATA - 1, !.pos = r.pos + 1]
=============================================================================
