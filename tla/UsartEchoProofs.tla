-------------------------- MODULE UsartEchoProofs --------------------------
(***************************************************************************)
(* Proofs about UsartEcho for every buffer size, banner, host and timing:  *)
(* first what holds with any timing, then, in the second half of the       *)
(* module, what a polite host gets back.                                   *)
(*                                                                         *)
(* For the first half the inductive invariant is TypeOK and the bounds of  *)
(* BufferSafe, regrouped by the part of the state they speak of: neither   *)
(* is inductive alone, because the range of a DMA pointer after a transfer *)
(* follows from the room left in the buffer, and that room from the ranges *)
(* of pointer and count.  Where a channel points is the subject of         *)
(* AddressInv, on top of it.                                               *)
(***************************************************************************)
EXTENDS UsartEcho, SequenceTheorems, FiniteSetTheorems, TLAPS

(***************************************************************************)
(* What the DMA driver's functions and a DMA transfer preserve of a        *)
(* channel, for every buffer size and every set of buffers: its registers  *)
(* keep their ranges, and an enabled channel never points beyond its       *)
(* buffer.                                                                 *)
(***************************************************************************)

ChannelOK(r, A, N) == r \in ChannelRegs(A, N) /\ InBuffer(r, N)

(* A count of at most 65535 is not cut by the 16 bits of CHNDATA. *)
LEMMA U16Identity ==
    ASSUME NEW n \in Nat, n < 65536
    PROVE  U16(n) = n
  BY DEF U16

(* The state of a channel after reset. *)
LEMMA ResetChannelOK ==
    ASSUME NEW A, NEW N \in Nat
    PROVE  ChannelOK(ResetChannel, A, N)
  <1>1. 0 \in 0..N
    OBVIOUS
  <1>2. ResetChannel \in ChannelRegs(A, N)
    BY <1>1, Zenon DEF ResetChannel, ChannelRegs
  <1>3. InBuffer(ResetChannel, N)
    BY DEF ResetChannel, InBuffer
  <1>4. QED
    BY <1>2, <1>3 DEF ChannelOK

(* DMA_Enable starts at the first unit of the buffer, with a count that fits. *)
LEMMA EnableOK ==
    ASSUME NEW A, NEW N \in Nat, NEW r, ChannelOK(r, A, N)
    PROVE  ChannelOK(DMA_Enable(r), A, N)
  <1>1. r \in ChannelRegs(A, N) /\ InBuffer(r, N)
    BY DEF ChannelOK
  <1>2. CASE r.CHEN
    BY <1>1, <1>2 DEF DMA_Enable, ChannelOK
  <1>3. CASE ~r.CHEN
    <2> DEFINE s == [r EXCEPT !.CHEN = TRUE, !.pos = 0, !.load = r.CHNDATA]
    <2>1. 0 \in 0..N /\ r.CHNDATA \in 0..N
      BY <1>1 DEF ChannelRegs
    <2>2. s \in ChannelRegs(A, N)
      BY <1>1, <2>1, Zenon DEF ChannelRegs
    <2>3. s.pos = 0 /\ s.CHNDATA = r.CHNDATA
      BY <1>1, Zenon DEF ChannelRegs
    <2>4. InBuffer(s, N)
      BY <2>1, <2>3 DEF InBuffer
    <2>5. QED
      BY <1>3, <2>2, <2>4 DEF DMA_Enable, ChannelOK
  <1>4. QED
    BY <1>2, <1>3

LEMMA DisableOK ==
    ASSUME NEW A, NEW N \in Nat, NEW r, ChannelOK(r, A, N)
    PROVE  ChannelOK(DMA_Disable(r), A, N)
  <1>1. r \in ChannelRegs(A, N)
    BY DEF ChannelOK
  <1>2. DMA_Disable(r) \in ChannelRegs(A, N)
    BY <1>1, Zenon DEF DMA_Disable, ChannelRegs
  <1>3. ~DMA_Disable(r).CHEN
    BY <1>1, Zenon DEF DMA_Disable, ChannelRegs
  <1>4. QED
    BY <1>2, <1>3 DEF ChannelOK, InBuffer

(* DMA_Reset, which also switches the channel off. *)
LEMMA ResetCHCFGOK ==
    ASSUME NEW A, NEW N \in Nat, NEW r, ChannelOK(r, A, N)
    PROVE  ChannelOK(DMA_ResetCHCFG(r), A, N)
  <1>1. r \in ChannelRegs(A, N)
    BY DEF ChannelOK
  <1>2. DMA_ResetCHCFG(r) \in ChannelRegs(A, N)
    BY <1>1, Zenon DEF DMA_ResetCHCFG, ChannelRegs
  <1>3. ~DMA_ResetCHCFG(r).CHEN
    BY <1>1, Zenon DEF DMA_ResetCHCFG, ChannelRegs
  <1>4. QED
    BY <1>2, <1>3 DEF ChannelOK, InBuffer

LEMMA ResetRegsOK ==
    ASSUME NEW A, NEW N \in Nat, NEW r, ChannelOK(r, A, N)
    PROVE  ChannelOK(DMA_ResetRegs(r), A, N)
  <1>1. r \in ChannelRegs(A, N)
    BY DEF ChannelOK
  <1>2. CASE r.CHEN
    BY <1>2 DEF DMA_ResetRegs
  <1>3. CASE ~r.CHEN
    <2> DEFINE s == [r EXCEPT !.CHNDATA = 0, !.CHMADDR = NoAddr, !.CHPADDR = NoAddr]
    <2>1. 0 \in 0..N
      OBVIOUS
    <2>2. s \in ChannelRegs(A, N)
      BY <1>1, <2>1, Zenon DEF ChannelRegs
    <2>3. s.CHEN = r.CHEN
      BY <1>1, Zenon DEF ChannelRegs
    <2>4. QED
      BY <1>3, <2>2, <2>3 DEF DMA_ResetRegs, ChannelOK, InBuffer
  <1>4. QED
    BY <1>2, <1>3

(* A new count in a disabled channel. *)
LEMMA CountOK ==
    ASSUME NEW A, NEW N \in Nat, NEW r, ChannelOK(r, A, N), ~r.CHEN, NEW cnt \in 0..N
    PROVE  ChannelOK([r EXCEPT !.CHNDATA = cnt], A, N)
  <1> DEFINE s == [r EXCEPT !.CHNDATA = cnt]
  <1>1. r \in ChannelRegs(A, N)
    BY DEF ChannelOK
  <1>2. s \in ChannelRegs(A, N) /\ s.CHEN = r.CHEN
    BY <1>1, Zenon DEF ChannelRegs
  <1>3. QED
    BY <1>2 DEF ChannelOK, InBuffer

(* DMA_ConfigDataNumber: an enabled channel keeps its count. *)
LEMMA ConfigDataNumberOK ==
    ASSUME NEW A, NEW N \in Nat, N < 65536, NEW r, ChannelOK(r, A, N), NEW cnt \in 0..N
    PROVE  ChannelOK(DMA_ConfigDataNumber(r, cnt), A, N)
  <1>1. U16(cnt) = cnt
    BY U16Identity
  <1>2. QED
    BY <1>1, CountOK DEF DMA_ConfigDataNumber

LEMMA ConfigCHCFGOK ==
    ASSUME NEW A, NEW N \in Nat, NEW r, ChannelOK(r, A, N),
           NEW chen \in BOOLEAN, NEW dir \in {"src", "dst"}, NEW loopMode \in BOOLEAN
    PROVE  ChannelOK(DMA_ConfigCHCFG(r, chen, dir, loopMode), A, N)
  <1> DEFINE w == [r EXCEPT !.DIRCFG = dir, !.CIRMODE = loopMode]
  <1>1. r \in ChannelRegs(A, N)
    BY DEF ChannelOK
  <1>2. w \in ChannelRegs(A, N)
    BY <1>1, Zenon DEF ChannelRegs
  <1>3. w.CHEN = r.CHEN /\ w.pos = r.pos /\ w.CHNDATA = r.CHNDATA
    BY <1>1, Zenon DEF ChannelRegs
  <1>4. ChannelOK(w, A, N)
    BY <1>2, <1>3 DEF ChannelOK, InBuffer
  <1> HIDE DEF w
  <1>5. ChannelOK(DMA_Enable(w), A, N) /\ ChannelOK(DMA_Disable(w), A, N)
    BY <1>4, EnableOK, DisableOK
  <1>6. DMA_ConfigCHCFG(r, chen, dir, loopMode) = IF chen THEN DMA_Enable(w) ELSE DMA_Disable(w)
    BY DEF DMA_ConfigCHCFG, w
  <1>7. QED
    BY <1>5, <1>6

LEMMA ConfigAddrOK ==
    ASSUME NEW A, NEW N \in Nat, NEW r, ChannelOK(r, A, N), NEW a \in A
    PROVE  /\ ChannelOK(DMA_ConfigPeripheralAddr(r, "DATA"), A, N)
           /\ ChannelOK(DMA_ConfigMemoryAddr(r, a), A, N)
  <1>1. r \in ChannelRegs(A, N) /\ InBuffer(r, N)
    BY DEF ChannelOK
  <1> DEFINE p == [r EXCEPT !.CHPADDR = "DATA"]
             m == [r EXCEPT !.CHMADDR = a]
  <1>2. p \in ChannelRegs(A, N) /\ p.CHEN = r.CHEN
    BY <1>1, Zenon DEF ChannelRegs
  <1>3. m \in ChannelRegs(A, N) /\ m.CHEN = r.CHEN
    BY <1>1, Zenon DEF ChannelRegs
  <1>4. QED
    BY <1>1, <1>2, <1>3 DEF DMA_ConfigPeripheralAddr, DMA_ConfigMemoryAddr, ChannelOK, InBuffer

(* One unit of a transfer: the pointer moves on by what the count gives up. *)
LEMMA TransferOK ==
    ASSUME NEW A, NEW N \in Nat, NEW r, ChannelOK(r, A, N), CanTransfer(r)
    PROVE  ChannelOK(Transfer(r), A, N) /\ r.pos \in 0..(N - 1)
  <1>1. r \in ChannelRegs(A, N) /\ r.pos + r.CHNDATA <= N /\ r.CHEN /\ r.CHNDATA > 0
    BY DEF ChannelOK, CanTransfer, InBuffer
  <1>2. r.pos \in 0..N /\ r.CHNDATA \in 0..N /\ r.load \in 0..N
    BY <1>1 DEF ChannelRegs
  <1>3. CASE r.CIRMODE /\ r.CHNDATA = 1
    <2> DEFINE s == [r EXCEPT !.CHNDATA = r.load, !.pos = 0]
    <2>1. 0 \in 0..N
      OBVIOUS
    <2>2. s \in ChannelRegs(A, N)
      BY <1>1, <1>2, <2>1, Zenon DEF ChannelRegs
    <2>3. s.CHEN = r.CHEN /\ s.pos = 0 /\ s.CHNDATA = r.load
      BY <1>1, Zenon DEF ChannelRegs
    <2>4. Transfer(r) = s
      BY <1>3 DEF Transfer
    <2>5. InBuffer(s, N)
      BY <1>2, <2>3 DEF InBuffer
    <2>6. QED
      BY <1>1, <1>2, <2>2, <2>4, <2>5 DEF ChannelOK
  <1>4. CASE ~(r.CIRMODE /\ r.CHNDATA = 1)
    <2> DEFINE s == [r EXCEPT !.CHNDATA = r.CHNDATA - 1, !.pos = r.pos + 1]
    <2>1. r.CHNDATA - 1 \in 0..N /\ r.pos + 1 \in 0..N
      BY <1>1, <1>2
    <2>2. s \in ChannelRegs(A, N)
      BY <1>1, <2>1, Zenon DEF ChannelRegs
    <2>3. s.CHEN = r.CHEN /\ s.pos = r.pos + 1 /\ s.CHNDATA = r.CHNDATA - 1
      BY <1>1, Zenon DEF ChannelRegs
    <2>4. Transfer(r) = s
      BY <1>4 DEF Transfer
    <2>5. InBuffer(s, N)
      BY <1>1, <1>2, <2>3 DEF InBuffer
    <2>6. QED
      BY <1>1, <1>2, <2>2, <2>4, <2>5 DEF ChannelOK
  <1>5. QED
    BY <1>3, <1>4

-----------------------------------------------------------------------------
(* The inductive invariant of the echo program. *)

CpuInv ==
    /\ TypeCpu
    /\ \A a \in Actors : frame[a].idx <= frame[a].len /\ frame[a].len <= MAX_LEN
    /\ frame["main"].len <= BannerLen

DmaInv ==
    /\ ch \in [Channels -> ChannelRegs(Addr, MAX_LEN)] /\ dmaClk \in BOOLEAN
    /\ \A c \in Channels : InBuffer(ch[c], MAX_LEN)

Inv == CpuInv /\ DmaInv /\ TypeUart /\ TypeBuf /\ TypeLine /\ TypeHist

(* The regrouped invariant contains the one of the types. *)
LEMMA InvParts == Inv => TypeOK
  BY DEF Inv, TypeOK, CpuInv, DmaInv, TypeDma

-----------------------------------------------------------------------------
(* What the parts of the invariant need of a step. *)

LEMMA ConstantFacts ==
    /\ MAX_LEN \in Nat /\ 0 \in 0..MAX_LEN /\ MAX_LEN \in 0..MAX_LEN
    /\ BannerLen \in 0..MAX_LEN /\ 0 \in Byte
    /\ \A i \in Nat : i < BannerLen => BannerByte(i) \in Byte
  BY UsartEchoAssumption DEF Byte, BannerByte

(* A step of one flow of control that only moves its program counter. *)
LEMMA GoToOK ==
    ASSUME CpuInv, NEW a \in Actors, NEW p \in Pcs, GoTo(a, p), UNCHANGED <<frame, cfg>>
    PROVE  CpuInv'
  BY DEF CpuInv, TypeCpu, GoTo

LEMMA CpuUnchanged == CpuInv /\ UNCHANGED cpuVars => CpuInv'
  BY DEF CpuInv, TypeCpu, cpuVars

LEMMA DmaUnchanged == DmaInv /\ UNCHANGED dmaVars => DmaInv'
  BY DEF DmaInv, dmaVars

LEMMA UartUnchanged == TypeUart /\ UNCHANGED uartVars => TypeUart'
  BY DEF TypeUart, uartVars

LEMMA BufUnchanged == TypeBuf /\ UNCHANGED bufVars => TypeBuf'
  BY DEF TypeBuf, bufVars

LEMMA LineUnchanged == TypeLine /\ UNCHANGED <<line, wire>> => TypeLine'
  BY DEF TypeLine

LEMMA HistUnchanged == TypeHist /\ UNCHANGED hist => TypeHist'
  BY DEF TypeHist

(* Each channel separately. *)
LEMMA ChannelFacts ==
    ASSUME DmaInv, NEW c \in Channels
    PROVE  ChannelOK(ch[c], Addr, MAX_LEN)
  BY DEF DmaInv, ChannelOK

(* Writing a sound value to one channel, with the clock of DMA1 on or off. *)
LEMMA WriteOK ==
    ASSUME DmaInv, NEW c \in Channels, NEW r, ChannelOK(r, Addr, MAX_LEN),
           ch' = [ch EXCEPT ![c] = r] \/ ch' = ch, dmaClk' \in BOOLEAN
    PROVE  DmaInv'
  BY DEF DmaInv, ChannelOK

LEMMA WriteChannelOK ==
    ASSUME DmaInv, NEW c \in Channels, NEW r, ChannelOK(r, Addr, MAX_LEN),
           WriteChannel(c, r), UNCHANGED dmaClk
    PROVE  DmaInv'
  BY WriteOK DEF WriteChannel, DmaInv

(* The status bits after a read of STS or DATA. *)
LEMMA ReadsOK ==
    ASSUME uart \in UartRegs
    PROVE  AfterReadSTS \in UartRegs /\ AfterReadDATA \in UartRegs
  <1>1. uart.IDLE \in BOOLEAN /\ (uart.IDLE /\ ~uart.stsRead) \in BOOLEAN
    BY DEF UartRegs
  <1>2. AfterReadSTS \in UartRegs
    BY <1>1, Zenon DEF AfterReadSTS, UartRegs
  <1>3. AfterReadDATA \in UartRegs
    BY <1>1, Zenon DEF AfterReadDATA, UartRegs
  <1>4. QED
    BY <1>2, <1>3

(* A uart, rdr and tdr of their types make TypeUart. *)
LEMMA UartOK ==
    ASSUME TypeUart, uart' \in UartRegs, UNCHANGED <<rdr, tdr, shifting, irqOn>>
    PROVE  TypeUart'
  BY DEF TypeUart

LEMMA LostOK ==
    ASSUME TypeHist, hist' = [hist EXCEPT !.lost = @ + 1]
    PROVE  TypeHist'
  <1>1. hist.lost + 1 \in Nat
    BY DEF TypeHist, History
  <1>2. QED
    BY <1>1, Zenon DEF TypeHist, History

-----------------------------------------------------------------------------
LEMMA InitInv == Init => Inv
  <1> SUFFICES ASSUME Init PROVE Inv
    OBVIOUS
  <1>1. CpuInv
    BY ConstantFacts DEF Init, CpuInv, TypeCpu, Pcs, Actors, Channels
  <1>2. DmaInv
    BY ConstantFacts, ResetChannelOK DEF Init, DmaInv, ChannelOK
  <1>3. TypeUart
    <2>1. uart \in UartRegs
      BY DEF Init, UartRegs
    <2>2. QED
      BY <2>1, ConstantFacts DEF Init, TypeUart
  <1>4. TypeBuf
    BY ConstantFacts DEF Init, TypeBuf
  <1>5. TypeLine
    <2>1. line \in LineState
      BY UsartEchoAssumption DEF Init, LineState
    <2>2. QED
      BY <2>1 DEF Init, TypeLine
  <1>6. TypeHist
    BY DEF Init, TypeHist, History
  <1>7. QED
    BY <1>1, <1>2, <1>3, <1>4, <1>5, <1>6 DEF Inv

-----------------------------------------------------------------------------
(* The steps of main up to send_data. *)
LEMMA BootInv == Inv /\ Boot => Inv'
  <1> SUFFICES ASSUME Inv, Boot PROVE Inv'
    OBVIOUS
  <1> USE CpuUnchanged, DmaUnchanged, UartUnchanged, BufUnchanged, LineUnchanged, HistUnchanged
      DEF Inv, cpuVars, dmaVars, uartVars, bufVars
  <1>0. /\ "main" \in Actors
        /\ \A p \in {"comInit", "enableDMA", "enableInt", "enableIRQ", "enableClk", "resetCfg",
                     "resetRegs", "cfgRead", "cfgWrite", "cfgNumber", "cfgPeriph", "cfgAddr",
                     "loop", "memcpy"} : p \in Pcs
    BY DEF Actors, Pcs, ConfigPcs, SendDataPcs
  <1>1. CASE Main_COMInit
    <2>1. uart' \in UartRegs
      BY <1>1, Zenon DEF Main_COMInit, TypeUart, UartRegs
    <2>2. line' \in LineState
      <3>1. PICK b \in BootIdle : line' = [line EXCEPT !.idleNext = b]
        BY <1>1 DEF Main_COMInit
      <3>2. b \in BOOLEAN
        BY UsartEchoAssumption
      <3>3. QED
        BY <3>1, <3>2, Zenon DEF TypeLine, LineState
    <2>3. QED
      BY <1>0, <1>1, <2>1, <2>2, GoToOK, UartOK DEF Main_COMInit, TypeLine
  <1>2. CASE Main_EnableDMA
    <2>1. uart' \in UartRegs
      BY <1>2, Zenon DEF Main_EnableDMA, TypeUart, UartRegs
    <2>2. QED
      BY <1>0, <1>2, <2>1, GoToOK, UartOK DEF Main_EnableDMA
  <1>3. CASE Main_EnableInterrupt
    <2>1. uart' \in UartRegs
      BY <1>3, Zenon DEF Main_EnableInterrupt, TypeUart, UartRegs
    <2>2. QED
      BY <1>0, <1>3, <2>1, GoToOK, UartOK DEF Main_EnableInterrupt
  <1>4. CASE Main_EnableIRQRequest
    <2>1. TypeUart'
      BY <1>4 DEF Main_EnableIRQRequest, TypeUart
    <2>2. QED
      BY <1>0, <1>4, <2>1, GoToOK DEF Main_EnableIRQRequest
  <1>5. CASE ConfigDma_EnableClock
    <2>1. DmaInv'
      BY <1>5 DEF ConfigDma_EnableClock, DmaInv
    <2>2. QED
      BY <1>0, <1>5, <2>1, GoToOK DEF ConfigDma_EnableClock
  <1>6. cfg.chan \in Channels /\ cfg.CHEN \in BOOLEAN /\ ChannelOK(ch[cfg.chan], Addr, MAX_LEN)
    BY ChannelFacts DEF CpuInv, TypeCpu
  <1>7. CASE ConfigDma_ResetCHCFG
    <2>1. DmaInv'
      BY <1>6, <1>7, ResetCHCFGOK, ConstantFacts, WriteChannelOK DEF ConfigDma_ResetCHCFG
    <2>2. QED
      BY <1>0, <1>7, <2>1, GoToOK DEF ConfigDma_ResetCHCFG
  <1>8. CASE ConfigDma_ResetRegs
    <2>1. DmaInv'
      BY <1>6, <1>8, ResetRegsOK, ConstantFacts, WriteChannelOK DEF ConfigDma_ResetRegs
    <2>2. QED
      BY <1>0, <1>8, <2>1, GoToOK DEF ConfigDma_ResetRegs
  <1>9. CASE ConfigDma_ReadCHCFG
    <2>1. ch[cfg.chan].CHEN \in BOOLEAN
      BY <1>6 DEF ChannelOK, ChannelRegs
    <2>2. cfg' \in [chan : Channels, CHEN : BOOLEAN]
      BY <1>9, <2>1, Zenon DEF ConfigDma_ReadCHCFG, CpuInv, TypeCpu
    <2>3. CpuInv'
      BY <1>0, <1>9, <2>2 DEF ConfigDma_ReadCHCFG, CpuInv, TypeCpu, GoTo
    <2>4. QED
      BY <1>9, <2>3 DEF ConfigDma_ReadCHCFG
  <1>10. CASE ConfigDma_WriteCHCFG
    <2>1. \A dir \in {"src", "dst"} :
             ChannelOK(DMA_ConfigCHCFG(ch[cfg.chan], cfg.CHEN, dir, FALSE), Addr, MAX_LEN)
      BY <1>6, ConfigCHCFGOK, ConstantFacts
    <2>2. DmaInv'
      BY <1>6, <1>10, <2>1, WriteChannelOK DEF ConfigDma_WriteCHCFG
    <2>3. QED
      BY <1>0, <1>10, <2>2, GoToOK DEF ConfigDma_WriteCHCFG
  <1>11. CASE ConfigDma_Number
    <2>1. \A n \in 0..MAX_LEN : ChannelOK(DMA_ConfigDataNumber(ch[cfg.chan], n), Addr, MAX_LEN)
      BY <1>6, ConfigDataNumberOK, ConstantFacts, UsartEchoAssumption
    <2>2. DmaInv'
      BY <1>6, <1>11, <2>1, ConstantFacts, WriteChannelOK DEF ConfigDma_Number
    <2>3. QED
      BY <1>0, <1>11, <2>2, GoToOK DEF ConfigDma_Number
  <1>12. CASE ConfigDma_PeripheralAddr
    <2>1. "uart_tx_buf" \in Addr
      BY DEF Addr
    <2>2. DmaInv'
      BY <1>6, <1>12, <2>1, ConfigAddrOK, ConstantFacts, WriteChannelOK
      DEF ConfigDma_PeripheralAddr
    <2>3. QED
      BY <1>0, <1>12, <2>2, GoToOK DEF ConfigDma_PeripheralAddr
  <1>13. CASE ConfigDma_Addr
    <2>1. \A a \in Addr : ChannelOK(DMA_ConfigMemoryAddr(ch[cfg.chan], a), Addr, MAX_LEN)
      BY <1>6, ConfigAddrOK, ConstantFacts
    <2>2. DmaInv'
      BY <1>6, <1>13, <2>1, WriteChannelOK DEF ConfigDma_Addr, BufferOf, Addr
    <2>3. cfg' \in [chan : Channels, CHEN : BOOLEAN]
      <3>1. 5 \in Channels
        BY DEF Channels
      <3>2. QED
        BY <1>13, <3>1, Zenon DEF ConfigDma_Addr, CpuInv, TypeCpu
    <2>4. CpuInv'
      BY <1>0, <1>13, <2>3, ConstantFacts DEF ConfigDma_Addr, CpuInv, TypeCpu, GoTo
    <2>5. QED
      BY <1>13, <2>2, <2>4 DEF ConfigDma_Addr
  <1>14. QED
    BY <1>1, <1>2, <1>3, <1>4, <1>5, <1>7, <1>8, <1>9, <1>10, <1>11, <1>12, <1>13 DEF Boot

-----------------------------------------------------------------------------
(* send_data, called by either flow of control. *)
LEMMA SendDataInv == ASSUME Inv, NEW a \in Actors, SendData(a) PROVE Inv'
  <1> USE CpuUnchanged, DmaUnchanged, UartUnchanged, BufUnchanged, LineUnchanged, HistUnchanged
      DEF Inv, cpuVars, dmaVars, uartVars, bufVars
  <1>0. /\ 4 \in Channels /\ ChannelOK(ch[4], Addr, MAX_LEN)
        /\ \A p \in SendDataPcs \cup {"loop", "enableRx"} : p \in Pcs
    BY ChannelFacts DEF Channels, Pcs
  <1>1. CASE SendData_Memcpy(a)
    <2>1. CASE /\ frame[a].idx < frame[a].len
               /\ uart_tx_buf' = [uart_tx_buf EXCEPT ![frame[a].idx] = SourceByte(a, frame[a].idx)]
               /\ frame' = [frame EXCEPT ![a].idx = @ + 1]
               /\ UNCHANGED pc
      <3>1. frame[a] \in [len : 0..MAX_LEN, idx : 0..MAX_LEN]
        BY DEF CpuInv, TypeCpu
      <3>2. frame[a].idx \in Index /\ frame[a].idx + 1 \in 0..MAX_LEN
        BY <2>1, <3>1, ConstantFacts DEF Index
      <3>3. SourceByte(a, frame[a].idx) \in Byte
        <4>1. CASE a = "main"
          BY <2>1, <3>1, <4>1, ConstantFacts, UsartEchoAssumption DEF SourceByte, CpuInv
        <4>2. CASE a # "main"
          BY <3>2, <4>2 DEF SourceByte, TypeBuf
        <4>3. QED
          BY <4>1, <4>2
      <3>4. TypeBuf'
        BY <1>1, <2>1, <3>3 DEF SendData_Memcpy, TypeBuf
      <3>5. [frame[a] EXCEPT !.idx = frame[a].idx + 1] \in [len : 0..MAX_LEN, idx : 0..MAX_LEN]
        BY <3>1, <3>2, Zenon
      <3>6. frame' = [frame EXCEPT ![a] = [frame[a] EXCEPT !.idx = frame[a].idx + 1]]
        BY <2>1
      <3>7. frame' \in [Actors -> [len : 0..MAX_LEN, idx : 0..MAX_LEN]]
        BY <3>5, <3>6 DEF CpuInv, TypeCpu
      <3>8. /\ \A b \in Actors : frame'[b].idx <= frame'[b].len /\ frame'[b].len <= MAX_LEN
            /\ frame'["main"].len <= BannerLen
        BY <2>1, <3>1, <3>6, ConstantFacts DEF CpuInv, TypeCpu
      <3>9. CpuInv'
        BY <1>1, <2>1, <3>7, <3>8 DEF SendData_Memcpy, CpuInv, TypeCpu
      <3>10. QED
        BY <1>1, <3>4, <3>9 DEF SendData_Memcpy
    <2>2. CASE /\ frame[a].idx = frame[a].len
               /\ GoTo(a, "poll")
               /\ UNCHANGED <<uart_tx_buf, frame>>
      BY <1>0, <1>1, <2>2, GoToOK DEF SendData_Memcpy, SendDataPcs
    <2>3. QED
      BY <1>1, <2>1, <2>2 DEF SendData_Memcpy
  <1>2. CASE SendData_Poll(a)
    <2>1. uart' \in UartRegs
      BY <1>2, ReadsOK DEF SendData_Poll, TypeUart
    <2>2. CpuInv'
      BY <1>0, <1>2, GoToOK DEF SendData_Poll, SendDataPcs
    <2>3. QED
      BY <1>2, <2>1, <2>2, UartOK DEF SendData_Poll
  <1>3. CASE SendData_Disable(a)
    <2>1. DmaInv'
      BY <1>0, <1>3, DisableOK, ConstantFacts, WriteChannelOK DEF SendData_Disable
    <2>2. QED
      BY <1>0, <1>3, <2>1, GoToOK DEF SendData_Disable, SendDataPcs
  <1>4. CASE SendData_Number(a)
    <2>1. frame[a].len \in 0..MAX_LEN
      BY DEF CpuInv, TypeCpu
    <2>2. ChannelOK(DMA_ConfigDataNumber(ch[4], frame[a].len), Addr, MAX_LEN)
      BY <1>0, <2>1, ConfigDataNumberOK, ConstantFacts, UsartEchoAssumption
    <2>3. DmaInv'
      BY <1>0, <1>4, <2>2, WriteChannelOK DEF SendData_Number
    <2>4. QED
      BY <1>0, <1>4, <2>3, GoToOK DEF SendData_Number, SendDataPcs
  <1>5. CASE SendData_Enable(a)
    <2>1. DmaInv'
      BY <1>0, <1>5, EnableOK, ConstantFacts, WriteChannelOK DEF SendData_Enable
    <2>2. QED
      BY <1>0, <1>5, <2>1, GoToOK DEF SendData_Enable
  <1>6. QED
    BY <1>1, <1>2, <1>3, <1>4, <1>5 DEF SendData

-----------------------------------------------------------------------------
(* The interrupt handler, outside send_data. *)
LEMMA IsrInv == Inv /\ Isr => Inv'
  <1> SUFFICES ASSUME Inv, Isr PROVE Inv'
    OBVIOUS
  <1> USE CpuUnchanged, DmaUnchanged, UartUnchanged, BufUnchanged, LineUnchanged, HistUnchanged
      DEF Inv, cpuVars, dmaVars, uartVars, bufVars
  <1>0. /\ "isr" \in Actors /\ 5 \in Channels /\ ChannelOK(ch[5], Addr, MAX_LEN)
        /\ \A p \in {"none", "readFlag", "rxData", "disableRx", "readNumber", "numberRx",
                     "enableRx", "memcpy"} : p \in Pcs
    BY ChannelFacts DEF Actors, Channels, Pcs, SendDataPcs
  <1>1. CASE Isr_Enter
    <2>1. [hist EXCEPT !.early = TRUE] \in History
      BY Zenon DEF TypeHist, History
    <2>2. TypeHist'
      BY <1>1, <2>1 DEF Isr_Enter, TypeHist
    <2>3. QED
      BY <1>0, <1>1, <2>2, GoToOK DEF Isr_Enter
  <1>2. CASE Isr_ReadIntFlag
    <2>1. uart' \in UartRegs
      BY <1>2, ReadsOK DEF Isr_ReadIntFlag, TypeUart
    <2>2. CpuInv'
      BY <1>0, <1>2, GoToOK DEF Isr_ReadIntFlag
    <2>3. QED
      BY <1>2, <2>1, <2>2, UartOK DEF Isr_ReadIntFlag
  <1>3. CASE Isr_RxData
    <2>1. uart' \in UartRegs
      BY <1>3, ReadsOK DEF Isr_RxData, TypeUart
    <2>2. TypeHist'
      BY <1>3, LostOK DEF Isr_RxData
    <2>3. QED
      BY <1>0, <1>3, <2>1, <2>2, UartOK, GoToOK DEF Isr_RxData
  <1>4. CASE Isr_DisableRx
    <2>1. DmaInv'
      BY <1>0, <1>4, DisableOK, ConstantFacts, WriteChannelOK DEF Isr_DisableRx
    <2>2. QED
      BY <1>0, <1>4, <2>1, GoToOK DEF Isr_DisableRx
  <1>5. CASE Isr_ReadNumber
    <2> DEFINE n == IF dmaClk THEN DMA_ReadDataNumber(ch[5]) ELSE 0
    <2>1. n \in 0..MAX_LEN
      BY <1>0, ConstantFacts DEF DMA_ReadDataNumber, ChannelOK, ChannelRegs
    <2>2. MAX_LEN - n \in 0..MAX_LEN /\ MAX_LEN - n < 65536
      BY <2>1, ConstantFacts, UsartEchoAssumption
    <2>3. U16(MAX_LEN - n) = MAX_LEN - n
      BY <2>2, ConstantFacts, U16Identity
    <2>4. frame' = [frame EXCEPT !["isr"] = [len |-> MAX_LEN - n, idx |-> 0]]
      BY <1>5, <2>3 DEF Isr_ReadNumber
    <2> HIDE DEF n
    <2>5. CpuInv'
      BY <1>0, <1>5, <2>2, <2>4, ConstantFacts DEF Isr_ReadNumber, CpuInv, TypeCpu, GoTo
    <2>6. QED
      BY <1>5, <2>5 DEF Isr_ReadNumber
  <1>6. CASE Isr_NumberRx
    <2>1. ChannelOK(DMA_ConfigDataNumber(ch[5], MAX_LEN), Addr, MAX_LEN)
      BY <1>0, ConfigDataNumberOK, ConstantFacts, UsartEchoAssumption
    <2>2. DmaInv'
      BY <1>0, <1>6, <2>1, WriteChannelOK DEF Isr_NumberRx
    <2>3. TypeHist'
      <3>1. hist.handed + frame["isr"].len \in Nat /\ 0 \in Nat
        BY <1>0 DEF TypeHist, History, CpuInv, TypeCpu
      <3>2. [hist EXCEPT !.handed = hist.handed + frame["isr"].len, !.stored = 0] \in History
        BY <3>1, Zenon DEF TypeHist, History
      <3>3. QED
        BY <1>6, <3>2 DEF Isr_NumberRx, TypeHist
    <2>4. QED
      BY <1>0, <1>6, <2>2, <2>3, GoToOK DEF Isr_NumberRx
  <1>7. CASE Isr_EnableRx
    <2>1. DmaInv'
      BY <1>0, <1>7, EnableOK, ConstantFacts, WriteChannelOK DEF Isr_EnableRx
    <2>2. TypeHist'
      <3>1. hist.lost \in Nat
        BY DEF TypeHist, History
      <3>2. [hist EXCEPT !.armed = TRUE, !.skipped = hist.lost] \in History
        BY <3>1, Zenon DEF TypeHist, History
      <3>3. QED
        BY <1>7, <3>2 DEF Isr_EnableRx, TypeHist
    <2>3. QED
      BY <1>0, <1>7, <2>1, <2>2, GoToOK DEF Isr_EnableRx
  <1>8. QED
    BY <1>1, <1>2, <1>3, <1>4, <1>5, <1>6, <1>7 DEF Isr

-----------------------------------------------------------------------------
(* The DMA channels and the transmitter. *)
LEMMA TxDmaInv == Inv /\ TxDma => Inv'
  <1> SUFFICES ASSUME Inv, TxDma PROVE Inv'
    OBVIOUS
  <1>0. 4 \in Channels /\ ChannelOK(ch[4], Addr, MAX_LEN)
    BY ChannelFacts DEF Channels, Inv
  <1>1. ChannelOK(Transfer(ch[4]), Addr, MAX_LEN) /\ ch[4].pos \in Index
    BY <1>0, TransferOK, ConstantFacts DEF TxDma, Index
  <1>2. DmaInv'
    BY <1>0, <1>1, WriteOK DEF TxDma, Inv, DmaInv
  <1>3. tdr' \in Byte
    BY <1>1, ConstantFacts DEF TxDma, Inv, TypeBuf
  <1>4. uart' \in UartRegs
    BY Zenon DEF TxDma, Inv, TypeUart, UartRegs
  <1>5. TypeUart'
    BY <1>3, <1>4 DEF TxDma, Inv, TypeUart
  <1>6. QED
    BY <1>2, <1>5, CpuUnchanged, BufUnchanged, LineUnchanged, HistUnchanged
    DEF TxDma, Inv, bufVars

LEMMA RxDmaInv == Inv /\ RxDma => Inv'
  <1> SUFFICES ASSUME Inv, RxDma PROVE Inv'
    OBVIOUS
  <1>0. 5 \in Channels /\ ChannelOK(ch[5], Addr, MAX_LEN)
    BY ChannelFacts DEF Channels, Inv
  <1>1. ChannelOK(Transfer(ch[5]), Addr, MAX_LEN) /\ ch[5].pos \in Index
    BY <1>0, TransferOK, ConstantFacts DEF RxDma, Index
  <1>2. DmaInv'
    BY <1>0, <1>1, WriteOK DEF RxDma, Inv, DmaInv
  <1>3. TypeBuf'
    BY <1>1 DEF RxDma, Inv, TypeBuf, TypeUart
  <1>4. TypeUart'
    BY ReadsOK, UartOK DEF RxDma, Inv, TypeUart
  <1>5. TypeHist'
    <2>1. hist.stored + 1 \in Nat
      BY DEF Inv, TypeHist, History
    <2>2. QED
      BY <2>1, Zenon DEF RxDma, Inv, TypeHist, History
  <1>6. QED
    BY <1>2, <1>3, <1>4, <1>5, CpuUnchanged, LineUnchanged DEF RxDma, Inv

LEMMA DmaStrayInv == ASSUME Inv, NEW c \in Channels, DmaStray(c) PROVE Inv'
  <1>0. ChannelOK(ch[c], Addr, MAX_LEN)
    BY ChannelFacts DEF Inv
  <1>1. ChannelOK(Transfer(ch[c]), Addr, MAX_LEN) /\ ChannelOK(DMA_Disable(ch[c]), Addr, MAX_LEN)
    BY <1>0, TransferOK, DisableOK, ConstantFacts DEF DmaStray
  <1>2. \/ ch' = [ch EXCEPT ![c] = Transfer(ch[c])]
        \/ ch' = [ch EXCEPT ![c] = DMA_Disable(ch[c])]
    BY DEF DmaStray, DMA_Disable
  <1>3. DmaInv'
    BY <1>1, <1>2, WriteOK DEF DmaStray, Inv, DmaInv
  <1>4. TypeUart'
    BY ReadsOK, UartOK DEF DmaStray, Inv, TypeUart
  <1>5. TypeHist'
    BY LostOK DEF DmaStray, Inv, TypeHist
  <1>6. QED
    BY <1>3, <1>4, <1>5, CpuUnchanged, BufUnchanged, LineUnchanged DEF DmaStray, Inv

LEMMA TransmitInv == Inv /\ (Load \/ ShiftDone) => Inv'
  <1> USE CpuUnchanged, DmaUnchanged, BufUnchanged, HistUnchanged DEF Inv
  <1>1. ASSUME Inv, Load PROVE Inv'
    <2>1. uart' \in UartRegs
      BY <1>1, Zenon DEF Load, TypeUart, UartRegs
    <2>2. TypeUart'
      BY <1>1, <2>1 DEF Load, TypeUart
    <2>3. line' \in LineState
      BY <1>1, Zenon DEF Load, TypeLine, LineState
    <2>4. TypeLine'
      BY <1>1, <2>3 DEF Load, TypeLine, TypeUart
    <2>5. QED
      BY <1>1, <2>2, <2>4 DEF Load
  <1>2. ASSUME Inv, ShiftDone PROVE Inv'
    <2>1. TypeUart'
      BY <1>2 DEF ShiftDone, TypeUart
    <2>2. QED
      BY <1>2, <2>1, LineUnchanged DEF ShiftDone
  <1>3. QED
    BY <1>1, <1>2

-----------------------------------------------------------------------------
(* The host and the receiver. *)
LEMMA ReceiveInv == Inv /\ (HostByte \/ IdleLine) => Inv'
  <1> USE CpuUnchanged, DmaUnchanged, BufUnchanged, HistUnchanged DEF Inv
  <1>1. ASSUME Inv, HostByte PROVE Inv'
    <2>1. line.sent + 1 \in 0..MaxBytes /\ line.burst + 1 \in 0..MaxMsg /\ line.sent + 1 \in Byte
      BY <1>1, UsartEchoAssumption DEF HostByte, TypeLine, LineState, Byte
    <2>2. (FastCpu /\ shifting) \in BOOLEAN
      OBVIOUS
    <2>3. line' \in LineState
      BY <1>1, <2>1, <2>2, Zenon DEF HostByte, LineState
    <2>4. TypeLine'
      BY <1>1, <2>3 DEF HostByte, TypeLine
    <2>5. CASE uart.RXBNE
      <3>1. TypeHist'
        BY <1>1, <2>5, LostOK DEF HostByte
      <3>2. TypeUart'
        BY <1>1, <2>5 DEF HostByte, TypeUart
      <3>3. QED
        BY <1>1, <2>4, <3>1, <3>2 DEF HostByte
    <2>6. CASE ~uart.RXBNE
      <3>1. uart' \in UartRegs
        BY <1>1, <2>6, Zenon DEF HostByte, TypeUart, UartRegs
      <3>2. TypeUart'
        BY <1>1, <2>1, <2>6, <3>1 DEF HostByte, TypeUart
      <3>3. QED
        BY <1>1, <2>4, <2>6, <3>2 DEF HostByte
    <2>7. QED
      BY <2>5, <2>6
  <1>2. ASSUME Inv, IdleLine PROVE Inv'
    <2>1. uart' \in UartRegs
      BY <1>2, Zenon DEF IdleLine, TypeUart, UartRegs
    <2>2. TypeUart'
      BY <1>2, <2>1 DEF IdleLine, TypeUart
    <2>3. 0 \in 0..MaxMsg /\ (FastCpu /\ shifting) \in BOOLEAN
      BY UsartEchoAssumption
    <2>4. line' \in LineState
      BY <1>2, <2>3, Zenon DEF IdleLine, TypeLine, LineState
    <2>5. TypeLine'
      BY <1>2, <2>4 DEF IdleLine, TypeLine
    <2>6. QED
      BY <1>2, <2>2, <2>5 DEF IdleLine
  <1>3. QED
    BY <1>1, <1>2

-----------------------------------------------------------------------------
LEMMA NextInv == Inv /\ [Next]_vars => Inv'
  <1> SUFFICES ASSUME Inv, [Next]_vars PROVE Inv'
    OBVIOUS
  <1>1. CASE UNCHANGED vars
    BY <1>1, CpuUnchanged, DmaUnchanged, UartUnchanged, BufUnchanged, LineUnchanged,
       HistUnchanged
    DEF Inv, vars, cpuVars, dmaVars, uartVars, bufVars
  <1>2. CASE Next
    BY <1>2, BootInv, IsrInv, SendDataInv, TxDmaInv, RxDmaInv, DmaStrayInv, TransmitInv,
       ReceiveInv
    DEF Next
  <1>3. QED
    BY <1>1, <1>2

(* Every reachable state has the types of TypeOK. *)
THEOREM TypeCorrect == Spec => []TypeOK
  <1>1. Inv => TypeOK
    BY InvParts
  <1>2. QED
    BY <1>1, InitInv, NextInv, PTL DEF Spec

-----------------------------------------------------------------------------
(* Where the channels point.  Until the clock of DMA1 is on the handler's  *)
(* writes are lost; while config_dma configures the channels, they stay    *)
(* disabled unless the handler enables them; afterwards both have their    *)
(* addresses, which nothing writes any more.                               *)
BootPcs == {"comInit", "enableDMA", "enableInt", "enableIRQ", "enableClk"}
RunPcs == SendDataPcs \cup {"loop"}

Addressed(c) == ch[c].CHMADDR = BufferOf(c) /\ ch[c].CHPADDR = "DATA"

WhereInv ==
    /\ pc["main"] \in BootPcs \cup ConfigPcs \cup RunPcs
    /\ pc["main"] \in ConfigPcs /\ pc["isr"] # "none" => hist.early
    /\ pc["main"] \in BootPcs => ~dmaClk /\ cfg.chan = 4 /\ \A c \in Channels : ~ch[c].CHEN
    /\ pc["main"] \notin BootPcs => dmaClk

AddressInv ==
    /\ WhereInv
    /\ \A c \in Channels : ch[c].CHMADDR \in {BufferOf(c), NoAddr}
    /\ ~hist.early =>
          /\ pc["main"] \in ConfigPcs => \A c \in Channels : ~ch[c].CHEN
          /\ pc["main"] = "cfgWrite" => ~cfg.CHEN
          /\ pc["main"] = "cfgAddr" => ch[cfg.chan].CHPADDR = "DATA"
          /\ pc["main"] \in ConfigPcs /\ cfg.chan = 5 => Addressed(4)
          /\ pc["main"] \in RunPcs => \A c \in Channels : Addressed(c)

(* What every step below rests on. *)
LEMMA Types ==
    ASSUME Inv
    PROVE  /\ pc \in [Actors -> Pcs] /\ "main" \in Actors /\ "isr" \in Actors
           /\ ch \in [Channels -> ChannelRegs(Addr, MAX_LEN)] /\ 4 \in Channels /\ 5 \in Channels
           /\ ch[4] \in ChannelRegs(Addr, MAX_LEN) /\ ch[5] \in ChannelRegs(Addr, MAX_LEN)
           /\ uart \in UartRegs /\ hist \in History /\ line \in LineState
           /\ frame \in [Actors -> [len : 0..MAX_LEN, idx : 0..MAX_LEN]]
           /\ frame["main"] \in [len : 0..MAX_LEN, idx : 0..MAX_LEN]
           /\ frame["isr"] \in [len : 0..MAX_LEN, idx : 0..MAX_LEN]
           /\ cfg \in [chan : Channels, CHEN : BOOLEAN]
           /\ uart_tx_buf \in [Index -> Byte] /\ uart_rx_buf \in [Index -> Byte]
           /\ wire \in Seq(Byte)
  BY DEF Inv, CpuInv, DmaInv, TypeCpu, TypeUart, TypeBuf, TypeHist, TypeLine, Actors, Channels

LEMMA AddressInit == Init => AddressInv
  <1> SUFFICES ASSUME Init PROVE AddressInv
    OBVIOUS
  <1>1. /\ pc["main"] = "comInit" /\ pc["isr"] = "none" /\ ~dmaClk /\ cfg.chan = 4
        /\ ch[4] = ResetChannel /\ ch[5] = ResetChannel
    BY DEF Init, Actors, Channels
  <1>2. ~ResetChannel.CHEN /\ ResetChannel.CHMADDR = NoAddr
    BY DEF ResetChannel
  <1>3. QED
    BY <1>1, <1>2 DEF AddressInv, WhereInv, BootPcs, ConfigPcs, RunPcs, SendDataPcs, Channels

(* What the driver functions and the hardware leave of a channel's address. *)
AddrSame(s, r) == s.CHMADDR = r.CHMADDR /\ s.CHPADDR = r.CHPADDR

LEMMA AddressFields ==
    ASSUME NEW r \in ChannelRegs(Addr, MAX_LEN)
    PROVE  /\ AddrSame(DMA_Disable(r), r) /\ ~DMA_Disable(r).CHEN
           /\ AddrSame(DMA_Enable(r), r)
           /\ AddrSame(DMA_ResetCHCFG(r), r) /\ ~DMA_ResetCHCFG(r).CHEN
           /\ \A n : AddrSame(DMA_ConfigDataNumber(r, n), r)
                     /\ DMA_ConfigDataNumber(r, n).CHEN = r.CHEN
           /\ AddrSame(Transfer(r), r) /\ Transfer(r).CHEN = r.CHEN
  BY DEF AddrSame, DMA_Disable, DMA_Enable, DMA_ResetCHCFG, DMA_ConfigDataNumber, Transfer,
     ChannelRegs

LEMMA ConfigAddressFields ==
    ASSUME NEW r \in ChannelRegs(Addr, MAX_LEN), NEW chen \in BOOLEAN, NEW dir \in {"src", "dst"}
    PROVE  /\ AddrSame(DMA_ConfigCHCFG(r, chen, dir, FALSE), r)
           /\ ~chen => ~DMA_ConfigCHCFG(r, chen, dir, FALSE).CHEN
  <1> DEFINE w == [r EXCEPT !.DIRCFG = dir, !.CIRMODE = FALSE]
  <1>1. w \in ChannelRegs(Addr, MAX_LEN) /\ AddrSame(w, r)
    BY Zenon DEF ChannelRegs, AddrSame
  <1>2. DMA_ConfigCHCFG(r, chen, dir, FALSE) = IF chen THEN DMA_Enable(w) ELSE DMA_Disable(w)
    BY DEF DMA_ConfigCHCFG
  <1> HIDE DEF w
  <1>3. AddrSame(DMA_Enable(w), w) /\ AddrSame(DMA_Disable(w), w) /\ ~DMA_Disable(w).CHEN
    BY <1>1, AddressFields
  <1>4. QED
    BY <1>1, <1>2, <1>3 DEF AddrSame

(* A driver function writes the channel it names, if the clock is on. *)
LEMMA WriteEach ==
    ASSUME DmaInv, NEW c \in Channels, NEW r, WriteChannel(c, r)
    PROVE  \A k \in Channels : ch'[k] = IF dmaClk /\ k = c THEN r ELSE ch[k]
  BY DEF DmaInv, WriteChannel

(* A step that writes no address: a channel is enabled only with the clock *)
(* on, by the handler in config_dma or by either flow of control later.    *)
LEMMA AddressKept ==
    ASSUME Inv, AddressInv, \A c \in Channels : AddrSame(ch'[c], ch[c]),
           dmaClk' = dmaClk, cfg' = cfg, hist.early => hist'.early,
           \A c \in Channels : ch'[c].CHEN =>
               ch[c].CHEN \/ (dmaClk /\ (hist.early \/ pc["main"] \notin ConfigPcs)),
           \/ pc'["main"] = pc["main"]
           \/ pc["main"] \in RunPcs /\ pc'["main"] \in RunPcs,
           pc'["main"] \in ConfigPcs /\ pc'["isr"] # "none" => hist'.early
    PROVE  AddressInv'
  <1>1. BootPcs \cap RunPcs = {} /\ ConfigPcs \cap RunPcs = {} /\ BootPcs \cap ConfigPcs = {}
        /\ "cfgWrite" \in ConfigPcs /\ "cfgAddr" \in ConfigPcs
    BY DEF BootPcs, RunPcs, ConfigPcs, SendDataPcs
  <1>2. WhereInv'
    BY <1>1 DEF AddressInv, WhereInv
  <1>3. \A c \in Channels : ch'[c].CHMADDR \in {BufferOf(c), NoAddr} /\ (Addressed(c) => Addressed(c)')
    BY DEF AddressInv, AddrSame, Addressed
  <1>4. ASSUME ~hist'.early
        PROVE  /\ pc'["main"] \in ConfigPcs => \A c \in Channels : ~ch'[c].CHEN
               /\ pc'["main"] = "cfgWrite" => ~cfg'.CHEN
               /\ pc'["main"] = "cfgAddr" => ch'[cfg'.chan].CHPADDR = "DATA"
               /\ pc'["main"] \in ConfigPcs /\ cfg'.chan = 5 => Addressed(4)'
               /\ pc'["main"] \in RunPcs => \A c \in Channels : Addressed(c)'
    <2>1. ~hist.early
      BY <1>4
    <2>2. pc'["main"] \in ConfigPcs => pc'["main"] = pc["main"] /\ \A c \in Channels : ~ch'[c].CHEN
      BY <1>1, <2>1 DEF AddressInv
    <2>3. pc'["main"] = "cfgAddr" => ch'[cfg'.chan].CHPADDR = "DATA"
      BY <1>1, <2>1, <2>2, Types DEF AddressInv, AddrSame
    <2>4. pc'["main"] \in ConfigPcs /\ cfg'.chan = 5 => Addressed(4)'
      BY <1>3, <2>1, <2>2 DEF AddressInv, Channels
    <2>5. pc'["main"] \in RunPcs => pc["main"] \in RunPcs
      BY <1>1
    <2>6. QED
      BY <1>1, <1>3, <2>1, <2>2, <2>3, <2>4, <2>5 DEF AddressInv
  <1>5. QED
    BY <1>2, <1>3, <1>4 DEF AddressInv

(* A register of a channel written by the handler or by send_data. *)
LEMMA AddressWrite ==
    ASSUME Inv, AddressInv, NEW c \in Channels, NEW r, WriteChannel(c, r), AddrSame(r, ch[c]),
           r.CHEN => ch[c].CHEN \/ hist.early \/ pc["main"] \notin ConfigPcs,
           dmaClk' = dmaClk, cfg' = cfg, hist'.early = hist.early,
           \/ pc'["main"] = pc["main"]
           \/ pc["main"] \in RunPcs /\ pc'["main"] \in RunPcs,
           pc'["main"] \in ConfigPcs /\ pc'["isr"] # "none" => hist.early
    PROVE  AddressInv'
  <1>1. \A k \in Channels : ch'[k] = IF dmaClk /\ k = c THEN r ELSE ch[k]
    BY WriteEach DEF Inv
  <1>2. \A k \in Channels : AddrSame(ch'[k], ch[k])
    BY <1>1 DEF AddrSame
  <1>3. \A k \in Channels : ch'[k].CHEN =>
            ch[k].CHEN \/ (dmaClk /\ (hist.early \/ pc["main"] \notin ConfigPcs))
    BY <1>1
  <1>4. QED
    BY <1>2, <1>3, AddressKept

(* A step that leaves the DMA alone. *)
LEMMA AddressUntouched ==
    ASSUME Inv, AddressInv, UNCHANGED <<ch, dmaClk, cfg>>, hist.early => hist'.early,
           \/ pc'["main"] = pc["main"]
           \/ pc["main"] \in RunPcs /\ pc'["main"] \in RunPcs,
           pc'["main"] \in ConfigPcs /\ pc'["isr"] # "none" => hist'.early
    PROVE  AddressInv'
  <1>1. \A c \in Channels : AddrSame(ch'[c], ch[c]) /\ (ch'[c].CHEN => ch[c].CHEN)
    BY DEF AddrSame
  <1>2. QED
    BY <1>1, AddressKept

LEMMA AddressSendData == ASSUME Inv, AddressInv, NEW a \in Actors, SendData(a) PROVE AddressInv'
  <1>1. /\ \E p \in SendDataPcs : At(a, p)
        /\ pc' = pc \/ \E p \in SendDataPcs \cup {IF a = "main" THEN "loop" ELSE "enableRx"} : GoTo(a, p)
        /\ cfg' = cfg /\ dmaClk' = dmaClk /\ hist' = hist
    BY DEF SendData, SendData_Memcpy, SendData_Poll, SendData_Disable, SendData_Number,
       SendData_Enable, SendDataPcs, dmaVars
  <1>2. pc \in [Actors -> Pcs] /\ 4 \in Channels /\ ch[4] \in ChannelRegs(Addr, MAX_LEN)
    BY Types
  <1>3. \/ pc'["main"] = pc["main"]
        \/ pc["main"] \in RunPcs /\ pc'["main"] \in RunPcs
    BY <1>1, <1>2 DEF At, GoTo, RunPcs, Actors
  <1>4. (a = "isr" => pc["isr"] # "none") /\ (a = "main" => pc["isr"] = "none" /\ pc'["isr"] = "none")
    BY <1>1, <1>2 DEF At, GoTo, SendDataPcs, Actors
  <1>5. pc["main"] \in ConfigPcs => a = "isr" /\ hist.early
    BY <1>1, <1>4 DEF AddressInv, WhereInv, At, SendDataPcs, ConfigPcs, Actors
  <1>6. pc'["main"] \in ConfigPcs => pc["main"] \in ConfigPcs
    BY <1>3 DEF RunPcs, SendDataPcs, ConfigPcs
  <1>7. \/ ch' = ch
        \/ WriteChannel(4, DMA_Disable(ch[4]))
        \/ WriteChannel(4, DMA_ConfigDataNumber(ch[4], frame[a].len))
        \/ WriteChannel(4, DMA_Enable(ch[4]))
    BY DEF SendData, SendData_Memcpy, SendData_Poll, SendData_Disable, SendData_Number,
       SendData_Enable, dmaVars
  <1>8. /\ AddrSame(DMA_Disable(ch[4]), ch[4]) /\ AddrSame(DMA_Enable(ch[4]), ch[4])
        /\ AddrSame(DMA_ConfigDataNumber(ch[4], frame[a].len), ch[4])
        /\ ~DMA_Disable(ch[4]).CHEN
        /\ DMA_ConfigDataNumber(ch[4], frame[a].len).CHEN = ch[4].CHEN
    BY <1>2, AddressFields
  <1>9. CASE ch' = ch
    BY <1>1, <1>3, <1>5, <1>6, <1>9, AddressUntouched
  <1>10. CASE ch' # ch
    BY <1>1, <1>2, <1>3, <1>5, <1>6, <1>7, <1>8, <1>10, AddressWrite
  <1>11. QED
    BY <1>9, <1>10

(* The handler: entered in config_dma, it is early. *)
LEMMA AddressIsr == ASSUME Inv, AddressInv, Isr PROVE AddressInv'
  <1>1. /\ pc \in [Actors -> Pcs] /\ 5 \in Channels /\ ch[5] \in ChannelRegs(Addr, MAX_LEN)
        /\ hist \in History
    BY Types
  <1>2. /\ pc'["main"] = pc["main"] /\ cfg' = cfg /\ dmaClk' = dmaClk
    BY <1>1 DEF Isr, Isr_Enter, Isr_ReadIntFlag, Isr_RxData, Isr_DisableRx, Isr_ReadNumber,
       Isr_NumberRx, Isr_EnableRx, GoTo, dmaVars, Actors
  <1>3. CASE Isr_Enter
    <2>1. pc["main"] \in ConfigPcs => hist'.early
      BY <1>1, <1>3 DEF Isr_Enter, History
    <2>2. pc["main"] \notin ConfigPcs => hist' = hist
      BY <1>3 DEF Isr_Enter
    <2>3. ch' = ch
      BY <1>3 DEF Isr_Enter, dmaVars
    <2>4. QED
      BY <1>2, <2>1, <2>2, <2>3, AddressUntouched
  <1>4. CASE ~Isr_Enter
    <2>1. pc["isr"] # "none" /\ (pc["main"] \in ConfigPcs => hist.early)
      BY <1>4 DEF Isr, Isr_ReadIntFlag, Isr_RxData, Isr_DisableRx, Isr_ReadNumber,
         Isr_NumberRx, Isr_EnableRx, At, AddressInv, WhereInv
    <2>2. hist'.early = hist.early
      BY <1>1, <1>4 DEF Isr, Isr_ReadIntFlag, Isr_RxData, Isr_DisableRx, Isr_ReadNumber,
         Isr_NumberRx, Isr_EnableRx, History
    <2>3. \/ ch' = ch
          \/ WriteChannel(5, DMA_Disable(ch[5]))
          \/ WriteChannel(5, DMA_ConfigDataNumber(ch[5], MAX_LEN))
          \/ WriteChannel(5, DMA_Enable(ch[5]))
      BY <1>4 DEF Isr, Isr_ReadIntFlag, Isr_RxData, Isr_DisableRx, Isr_ReadNumber,
         Isr_NumberRx, Isr_EnableRx, dmaVars
    <2>4. /\ AddrSame(DMA_Disable(ch[5]), ch[5]) /\ AddrSame(DMA_Enable(ch[5]), ch[5])
          /\ AddrSame(DMA_ConfigDataNumber(ch[5], MAX_LEN), ch[5])
          /\ ~DMA_Disable(ch[5]).CHEN /\ DMA_ConfigDataNumber(ch[5], MAX_LEN).CHEN = ch[5].CHEN
      BY <1>1, AddressFields
    <2>5. CASE ch' = ch
      BY <1>2, <2>1, <2>2, <2>5, AddressUntouched
    <2>6. CASE ch' # ch
      BY <1>1, <1>2, <2>1, <2>2, <2>3, <2>4, <2>6, AddressWrite
    <2>7. QED
      BY <2>5, <2>6
  <1>5. QED
    BY <1>3, <1>4

(* The hardware moves within a buffer and may switch a channel off. *)
LEMMA AddressHardware ==
    ASSUME Inv, AddressInv,
           \/ TxDma \/ RxDma \/ (\E c \in Channels : DmaStray(c))
           \/ Load \/ ShiftDone \/ HostByte \/ IdleLine
    PROVE  AddressInv'
  <1>1. /\ hist \in History /\ ch \in [Channels -> ChannelRegs(Addr, MAX_LEN)]
        /\ 4 \in Channels /\ 5 \in Channels
    BY Types
  <1>2. UNCHANGED <<pc, cfg, dmaClk>>
    BY DEF TxDma, RxDma, DmaStray, Load, ShiftDone, HostByte, IdleLine, cpuVars, dmaVars
  <1>3. hist'.early = hist.early
    BY <1>1 DEF TxDma, RxDma, DmaStray, Load, ShiftDone, HostByte, IdleLine, History
  <1>4. \/ ch' = ch
        \/ \E c \in Channels : \/ ch' = [ch EXCEPT ![c] = Transfer(ch[c])]
                               \/ ch' = [ch EXCEPT ![c] = DMA_Disable(ch[c])]
    BY <1>1 DEF TxDma, RxDma, DmaStray, Load, ShiftDone, HostByte, IdleLine, dmaVars, DMA_Disable
  <1>5. \A c \in Channels :
            /\ AddrSame(Transfer(ch[c]), ch[c]) /\ Transfer(ch[c]).CHEN = ch[c].CHEN
            /\ AddrSame(DMA_Disable(ch[c]), ch[c]) /\ ~DMA_Disable(ch[c]).CHEN
            /\ AddrSame(ch[c], ch[c])
    BY <1>1, AddressFields DEF AddrSame
  <1>6. \A c \in Channels : AddrSame(ch'[c], ch[c]) /\ (ch'[c].CHEN => ch[c].CHEN)
    BY <1>1, <1>4, <1>5
  <1>7. pc["main"] \in ConfigPcs /\ pc["isr"] # "none" => hist.early
    BY DEF AddressInv, WhereInv
  <1>8. QED
    BY <1>2, <1>3, <1>6, <1>7, AddressKept

(* A step of DMA_Reset or DMA_Config before the last one, on the channel   *)
(* it names: r is what the step makes of it.                               *)
LEMMA AddressConfig ==
    ASSUME Inv, AddressInv, pc["main"] \in ConfigPcs, pc["isr"] = "none", pc'["isr"] = "none",
           NEW q \in ConfigPcs, pc'["main"] = q, hist' = hist, dmaClk' = dmaClk,
           cfg'.chan = cfg.chan,
           NEW r, \A k \in Channels : ch'[k] = IF k = cfg.chan THEN r ELSE ch[k],
           r.CHMADDR \in {BufferOf(cfg.chan), NoAddr},
           ~hist.early => ~r.CHEN,
           ~hist.early /\ q = "cfgWrite" => ~cfg'.CHEN,
           q = "cfgAddr" => hist.early \/ r.CHPADDR = "DATA"
    PROVE  AddressInv'
  <1>1. cfg.chan \in Channels /\ 4 \in Channels
    BY Types DEF Channels
  <1>2. q \notin BootPcs /\ q \notin RunPcs /\ pc["main"] \notin BootPcs
    BY DEF BootPcs, RunPcs, ConfigPcs, SendDataPcs
  <1>3. WhereInv'
    BY <1>2 DEF AddressInv, WhereInv
  <1>4. \A c \in Channels : ch'[c].CHMADDR \in {BufferOf(c), NoAddr}
    BY <1>1 DEF AddressInv
  <1>5. ASSUME ~hist.early
        PROVE  /\ \A c \in Channels : ~ch'[c].CHEN
               /\ q = "cfgWrite" => ~cfg'.CHEN
               /\ q = "cfgAddr" => ch'[cfg.chan].CHPADDR = "DATA"
               /\ cfg.chan = 5 => ch'[4] = ch[4] /\ Addressed(4)
    BY <1>1, <1>5 DEF AddressInv
  <1>6. QED
    BY <1>2, <1>3, <1>4, <1>5 DEF AddressInv, Addressed

(* The write of CHMADDR, the last one of a channel. *)
LEMMA AddressLast ==
    ASSUME Inv, AddressInv, ConfigDma_Addr PROVE AddressInv'
  <1> DEFINE c == cfg.chan
             r == DMA_ConfigMemoryAddr(ch[c], BufferOf(c))
  <1>1. /\ pc \in [Actors -> Pcs] /\ c \in Channels /\ ch[c] \in ChannelRegs(Addr, MAX_LEN)
        /\ cfg \in [chan : Channels, CHEN : BOOLEAN]
    BY Types
  <1>2. /\ pc["main"] = "cfgAddr" /\ pc["isr"] = "none" /\ pc'["isr"] = "none"
        /\ pc'["main"] = IF c = 4 THEN "resetCfg" ELSE "memcpy"
        /\ hist' = hist /\ dmaClk' = dmaClk /\ cfg'.chan = 5
    BY <1>1 DEF ConfigDma_Addr, At, GoTo, Actors
  <1>3. dmaClk
    BY <1>2 DEF AddressInv, WhereInv, BootPcs
  <1>4. \A k \in Channels : ch'[k] = IF k = c THEN r ELSE ch[k]
    BY <1>1, <1>3, WriteEach DEF ConfigDma_Addr, Inv
  <1>5. /\ r.CHMADDR \in {ch[c].CHMADDR, BufferOf(c)} /\ r.CHEN = ch[c].CHEN
        /\ ~ch[c].CHEN => r.CHMADDR = BufferOf(c) /\ r.CHPADDR = ch[c].CHPADDR
    BY <1>1 DEF DMA_ConfigMemoryAddr, ChannelRegs
  <1> HIDE DEF r
  <1>6. \A k \in Channels : ch'[k].CHMADDR \in {BufferOf(k), NoAddr}
    BY <1>1, <1>4, <1>5 DEF AddressInv
  <1>7. WhereInv'
    BY <1>2, <1>3 DEF WhereInv, BootPcs, ConfigPcs, RunPcs, SendDataPcs
  <1>8. ASSUME ~hist.early
        PROVE  /\ \A k \in Channels : ~ch'[k].CHEN
               /\ ch'[c].CHMADDR = BufferOf(c) /\ ch'[c].CHPADDR = "DATA"
               /\ c = 5 => ch'[4] = ch[4] /\ Addressed(4)
    <2>1. /\ \A k \in Channels : ~ch[k].CHEN
          /\ ch[c].CHPADDR = "DATA" /\ (c = 5 => Addressed(4))
      BY <1>2, <1>8 DEF AddressInv, ConfigPcs
    <2>2. ch'[c].CHMADDR = BufferOf(c) /\ ch'[c].CHPADDR = "DATA"
      BY <1>1, <1>4, <1>5, <2>1
    <2>3. c = 5 => ch'[4] = ch[4]
      BY <1>4 DEF Channels
    <2>4. \A k \in Channels : ~ch'[k].CHEN
      BY <1>1, <1>4, <1>5, <2>1
    <2>5. QED
      BY <2>1, <2>2, <2>3, <2>4
  <1>9. CASE c = 4
    BY <1>2, <1>6, <1>7, <1>8, <1>9
    DEF AddressInv, Addressed, ConfigPcs, RunPcs, SendDataPcs, Channels
  <1>10. CASE c = 5
    BY <1>2, <1>6, <1>7, <1>8, <1>10
    DEF AddressInv, Addressed, ConfigPcs, RunPcs, SendDataPcs, Channels
  <1>11. QED
    BY <1>1, <1>9, <1>10 DEF Channels

LEMMA AddressBoot == ASSUME Inv, AddressInv, Boot PROVE AddressInv'
  <1> DEFINE c == cfg.chan
  <1>1. /\ pc \in [Actors -> Pcs] /\ c \in Channels /\ ch[c] \in ChannelRegs(Addr, MAX_LEN)
        /\ cfg \in [chan : Channels, CHEN : BOOLEAN] /\ cfg.CHEN \in BOOLEAN
        /\ ch[c].CHEN \in BOOLEAN
    BY Types DEF ChannelRegs
  <1>2. ASSUME NEW p \in ConfigPcs, NEW q \in ConfigPcs, At("main", p), GoTo("main", q)
        PROVE  /\ pc["main"] \in ConfigPcs /\ pc["isr"] = "none" /\ pc'["isr"] = "none"
               /\ pc'["main"] = q /\ dmaClk /\ ch[c].CHMADDR \in {BufferOf(c), NoAddr}
               /\ ~hist.early => ~ch[c].CHEN
    <2>1. /\ pc["main"] = p /\ pc["isr"] = "none" /\ pc'["isr"] = "none" /\ pc'["main"] = q
      BY <1>1, <1>2 DEF At, GoTo, Actors
    <2>2. p \notin BootPcs
      BY DEF BootPcs, ConfigPcs
    <2>3. QED
      BY <1>1, <2>1, <2>2 DEF AddressInv, WhereInv
  <1>3. CASE Main_COMInit \/ Main_EnableDMA \/ Main_EnableInterrupt \/ Main_EnableIRQRequest
    <2>1. /\ pc["main"] \in BootPcs /\ pc'["main"] \in BootPcs /\ pc'["isr"] = pc["isr"]
          /\ UNCHANGED <<ch, dmaClk, cfg, hist>>
      BY <1>1, <1>3 DEF Main_COMInit, Main_EnableDMA, Main_EnableInterrupt,
         Main_EnableIRQRequest, At, GoTo, BootPcs, Actors, dmaVars
    <2>2. pc'["main"] \notin ConfigPcs /\ pc'["main"] \notin RunPcs
      BY <2>1 DEF BootPcs, ConfigPcs, RunPcs, SendDataPcs
    <2>3. QED
      BY <2>1, <2>2 DEF AddressInv, WhereInv, ConfigPcs
  <1>4. CASE ConfigDma_EnableClock
    <2>1. /\ pc["main"] = "enableClk" /\ pc'["main"] = "resetCfg" /\ pc'["isr"] = "none" /\ dmaClk'
          /\ UNCHANGED <<ch, cfg, hist>>
      BY <1>1, <1>4 DEF ConfigDma_EnableClock, At, GoTo, Actors
    <2>2. cfg.chan = 4 /\ \A k \in Channels : ~ch[k].CHEN
      BY <2>1 DEF AddressInv, WhereInv, BootPcs
    <2>3. QED
      BY <2>1, <2>2 DEF AddressInv, WhereInv, BootPcs, ConfigPcs, RunPcs, SendDataPcs
  <1>5. CASE ConfigDma_ResetCHCFG
    <2> DEFINE r == DMA_ResetCHCFG(ch[c])
    <2>1. /\ At("main", "resetCfg") /\ GoTo("main", "resetRegs") /\ WriteChannel(c, r)
          /\ cfg' = cfg /\ hist' = hist /\ dmaClk' = dmaClk
          /\ "resetCfg" \in ConfigPcs /\ "resetRegs" \in ConfigPcs
      BY <1>5 DEF ConfigDma_ResetCHCFG, ConfigPcs
    <2>2. \A k \in Channels : ch'[k] = IF k = c THEN r ELSE ch[k]
      BY <1>1, <1>2, <2>1, WriteEach DEF Inv
    <2>3. r.CHMADDR = ch[c].CHMADDR /\ ~r.CHEN
      BY <1>1, AddressFields DEF AddrSame
    <2> HIDE DEF r
    <2>4. QED
      BY <1>2, <2>1, <2>2, <2>3, AddressConfig
  <1>6. CASE ConfigDma_ResetRegs
    <2> DEFINE r == DMA_ResetRegs(ch[c])
    <2>1. /\ At("main", "resetRegs") /\ GoTo("main", "cfgRead") /\ WriteChannel(c, r)
          /\ cfg' = cfg /\ hist' = hist /\ dmaClk' = dmaClk
          /\ "resetRegs" \in ConfigPcs /\ "cfgRead" \in ConfigPcs
      BY <1>6 DEF ConfigDma_ResetRegs, ConfigPcs
    <2>2. \A k \in Channels : ch'[k] = IF k = c THEN r ELSE ch[k]
      BY <1>1, <1>2, <2>1, WriteEach DEF Inv
    <2>3. r.CHMADDR \in {ch[c].CHMADDR, NoAddr} /\ r.CHEN = ch[c].CHEN
      BY <1>1 DEF DMA_ResetRegs, ChannelRegs
    <2> HIDE DEF r
    <2>4. QED
      BY <1>2, <2>1, <2>2, <2>3, AddressConfig
  <1>7. CASE ConfigDma_ReadCHCFG
    <2>1. /\ At("main", "cfgRead") /\ GoTo("main", "cfgWrite") /\ ch' = ch
          /\ cfg'.chan = c /\ cfg'.CHEN = ch[c].CHEN /\ hist' = hist /\ dmaClk' = dmaClk
          /\ "cfgRead" \in ConfigPcs /\ "cfgWrite" \in ConfigPcs
      BY <1>1, <1>7 DEF ConfigDma_ReadCHCFG, ConfigPcs, dmaVars
    <2>2. \A k \in Channels : ch'[k] = IF k = c THEN ch[c] ELSE ch[k]
      BY <2>1
    <2>3. QED
      BY <1>2, <2>1, <2>2, AddressConfig
  <1>8. CASE ConfigDma_WriteCHCFG
    <2> DEFINE dir == IF c = 4 THEN "dst" ELSE "src"
               r == DMA_ConfigCHCFG(ch[c], cfg.CHEN, dir, FALSE)
    <2>1. /\ At("main", "cfgWrite") /\ GoTo("main", "cfgNumber") /\ WriteChannel(c, r)
          /\ cfg' = cfg /\ hist' = hist /\ dmaClk' = dmaClk
          /\ "cfgWrite" \in ConfigPcs /\ "cfgNumber" \in ConfigPcs
      BY <1>8 DEF ConfigDma_WriteCHCFG, ConfigPcs
    <2>2. r.CHMADDR = ch[c].CHMADDR /\ (~cfg.CHEN => ~r.CHEN)
      BY <1>1, ConfigAddressFields DEF AddrSame
    <2> HIDE DEF r
    <2>3. \A k \in Channels : ch'[k] = IF k = c THEN r ELSE ch[k]
      BY <1>1, <1>2, <2>1, WriteEach DEF Inv
    <2>4. ~hist.early => ~cfg.CHEN
      BY <2>1 DEF At, AddressInv
    <2>5. QED
      BY <1>2, <2>1, <2>2, <2>3, <2>4, AddressConfig
  <1>9. CASE ConfigDma_Number
    <2> DEFINE r == DMA_ConfigDataNumber(ch[c], IF c = 4 THEN 0 ELSE MAX_LEN)
    <2>1. /\ At("main", "cfgNumber") /\ GoTo("main", "cfgPeriph") /\ WriteChannel(c, r)
          /\ cfg' = cfg /\ hist' = hist /\ dmaClk' = dmaClk
          /\ "cfgNumber" \in ConfigPcs /\ "cfgPeriph" \in ConfigPcs
      BY <1>9 DEF ConfigDma_Number, ConfigPcs
    <2>2. \A k \in Channels : ch'[k] = IF k = c THEN r ELSE ch[k]
      BY <1>1, <1>2, <2>1, WriteEach DEF Inv
    <2>3. r.CHMADDR = ch[c].CHMADDR /\ r.CHEN = ch[c].CHEN
      BY <1>1, AddressFields DEF AddrSame
    <2> HIDE DEF r
    <2>4. QED
      BY <1>2, <2>1, <2>2, <2>3, AddressConfig
  <1>10. CASE ConfigDma_PeripheralAddr
    <2> DEFINE r == DMA_ConfigPeripheralAddr(ch[c], "DATA")
    <2>1. /\ At("main", "cfgPeriph") /\ GoTo("main", "cfgAddr") /\ WriteChannel(c, r)
          /\ cfg' = cfg /\ hist' = hist /\ dmaClk' = dmaClk
          /\ "cfgPeriph" \in ConfigPcs /\ "cfgAddr" \in ConfigPcs
      BY <1>10 DEF ConfigDma_PeripheralAddr, ConfigPcs
    <2>2. \A k \in Channels : ch'[k] = IF k = c THEN r ELSE ch[k]
      BY <1>1, <1>2, <2>1, WriteEach DEF Inv
    <2>3. /\ r.CHMADDR = ch[c].CHMADDR /\ r.CHEN = ch[c].CHEN
          /\ ~ch[c].CHEN => r.CHPADDR = "DATA"
      BY <1>1 DEF DMA_ConfigPeripheralAddr, ChannelRegs
    <2> HIDE DEF r
    <2>4. QED
      BY <1>2, <2>1, <2>2, <2>3, AddressConfig
  <1>11. QED
    BY <1>3, <1>4, <1>5, <1>6, <1>7, <1>8, <1>9, <1>10, AddressLast DEF Boot

LEMMA AddressNext == Inv /\ AddressInv /\ [Next]_vars => AddressInv'
  <1> SUFFICES ASSUME Inv, AddressInv, [Next]_vars PROVE AddressInv'
    OBVIOUS
  <1>1. CASE UNCHANGED vars
    BY <1>1, AddressUntouched DEF vars, AddressInv, WhereInv
  <1>2. CASE Next
    BY <1>2, AddressBoot, AddressIsr, AddressSendData, AddressHardware DEF Next
  <1>3. QED
    BY <1>1, <1>2

(* For every size of the buffers, every host and every timing: the copies  *)
(* stay within the buffers, a channel transfers at most MAX_LEN units and  *)
(* never in the other channel's buffer, and unless an interrupt has fallen *)
(* into config_dma it transfers between USART1 and its own buffer.         *)
THEOREM BuffersSafe == Spec => []BufferSafe
  <1>1. Init => Inv /\ AddressInv
    BY InitInv, AddressInit
  <1>2. Inv /\ AddressInv /\ [Next]_vars => (Inv /\ AddressInv)'
    BY NextInv, AddressNext
  <1>3. Inv /\ AddressInv => BufferSafe
    <2> SUFFICES ASSUME Inv, AddressInv PROVE BufferSafe
      OBVIOUS
    <2>1. \A c \in Channels : CanTransfer(ch[c]) =>
             /\ ch[c].pos + ch[c].CHNDATA <= MAX_LEN
             /\ ch[c].CHMADDR \in {BufferOf(c), NoAddr}
      BY DEF Inv, DmaInv, CanTransfer, InBuffer, AddressInv
    <2>2. ASSUME ~hist.early, NEW c \in Channels, CanTransfer(ch[c]) PROVE Addressed(c)
      BY <2>2 DEF CanTransfer, AddressInv, WhereInv
    <2>3. QED
      BY <2>1, <2>2 DEF BufferSafe, Inv, CpuInv, Addressed
  <1>4. QED
    BY <1>1, <1>2, <1>3, PTL DEF Spec

-----------------------------------------------------------------------------
(* From the disabling of channel 5 to its enabling the handler runs alone: *)
(* main is preempted, and a disabled channel stays disabled.  Before the   *)
(* clock of DMA1 is on, no channel can be enabled at all.                  *)
CopyPcs == {"readNumber", "numberRx", "enableRx"} \cup SendDataPcs

RxOffInv ==
    /\ pc["isr"] \in CopyPcs => ~ch[5].CHEN
    /\ ~dmaClk => ~ch[5].CHEN

LEMMA RxOffInit == Init => RxOffInv
  BY DEF Init, RxOffInv, CopyPcs, SendDataPcs, Actors, Channels, ResetChannel

(* A step that leaves the handler and channel 5 alone. *)
LEMMA RxOffUnchanged ==
    ASSUME RxOffInv, pc'["isr"] = pc["isr"], ch'[5] = ch[5], dmaClk' = dmaClk
    PROVE  RxOffInv'
  BY DEF RxOffInv

(* A step of main: the handler is not active. *)
LEMMA RxOffMain ==
    ASSUME Inv, RxOffInv, pc["isr"] = "none", pc'["isr"] = "none",
           dmaClk' = dmaClk, ~dmaClk => ch' = ch
    PROVE  RxOffInv'
  BY DEF RxOffInv, CopyPcs, SendDataPcs

LEMMA RxOffBoot == Inv /\ RxOffInv /\ Boot => RxOffInv'
  <1> SUFFICES ASSUME Inv, RxOffInv, Boot PROVE RxOffInv'
    OBVIOUS
  <1>1. pc \in [Actors -> Pcs] /\ "main" \in Actors /\ "isr" \in Actors
    BY DEF Inv, CpuInv, TypeCpu, Actors
  <1>2. pc["isr"] = "none" /\ pc'["isr"] = "none"
    BY <1>1 DEF Boot, Main_COMInit, Main_EnableDMA, Main_EnableInterrupt, Main_EnableIRQRequest,
       ConfigDma_EnableClock, ConfigDma_ResetCHCFG, ConfigDma_ResetRegs, ConfigDma_ReadCHCFG,
       ConfigDma_WriteCHCFG, ConfigDma_Number, ConfigDma_PeripheralAddr, ConfigDma_Addr, At, GoTo
  <1>3. CASE ConfigDma_EnableClock
    BY <1>2, <1>3 DEF ConfigDma_EnableClock, RxOffInv, CopyPcs, SendDataPcs
  <1>4. CASE ~ConfigDma_EnableClock
    <2>1. dmaClk' = dmaClk /\ (~dmaClk => ch' = ch)
      BY <1>4 DEF Boot, Main_COMInit, Main_EnableDMA, Main_EnableInterrupt,
         Main_EnableIRQRequest, ConfigDma_ResetCHCFG, ConfigDma_ResetRegs, ConfigDma_ReadCHCFG,
         ConfigDma_WriteCHCFG, ConfigDma_Number, ConfigDma_PeripheralAddr, ConfigDma_Addr,
         WriteChannel, dmaVars
    <2>2. QED
      BY <1>2, <2>1, RxOffMain
  <1>5. QED
    BY <1>3, <1>4

LEMMA RxOffSendData == ASSUME Inv, RxOffInv, NEW a \in Actors, SendData(a) PROVE RxOffInv'
  <1>1. pc \in [Actors -> Pcs] /\ "isr" \in Actors /\ ch \in [Channels -> ChannelRegs(Addr, MAX_LEN)]
        /\ 5 \in Channels
    BY DEF Inv, CpuInv, DmaInv, TypeCpu, Actors, Channels
  <1>2. dmaClk' = dmaClk /\ ch'[5] = ch[5]
    BY <1>1 DEF SendData, SendData_Memcpy, SendData_Poll, SendData_Disable, SendData_Number,
       SendData_Enable, WriteChannel, dmaVars
  <1>3. pc'["isr"] = pc["isr"] \/ pc["isr"] \in CopyPcs
    BY <1>1 DEF SendData, SendData_Memcpy, SendData_Poll, SendData_Disable, SendData_Number,
       SendData_Enable, GoTo, At, CopyPcs, SendDataPcs, Actors
  <1>4. QED
    BY <1>2, <1>3 DEF RxOffInv

LEMMA RxOffIsr == Inv /\ RxOffInv /\ Isr => RxOffInv'
  <1> SUFFICES ASSUME Inv, RxOffInv, Isr PROVE RxOffInv'
    OBVIOUS
  <1>1. pc \in [Actors -> Pcs] /\ "isr" \in Actors /\ 5 \in Channels
        /\ ch \in [Channels -> ChannelRegs(Addr, MAX_LEN)]
    BY DEF Inv, CpuInv, DmaInv, TypeCpu, Actors, Channels
  <1>2. CASE Isr_Enter \/ Isr_ReadIntFlag \/ Isr_RxData
    <2>1. pc'["isr"] \in {"readFlag", "rxData", "none", "disableRx"} /\ ch' = ch /\ dmaClk' = dmaClk
      BY <1>1, <1>2 DEF Isr_Enter, Isr_ReadIntFlag, Isr_RxData, GoTo, dmaVars
    <2>2. QED
      BY <2>1 DEF RxOffInv, CopyPcs, SendDataPcs
  <1>3. CASE Isr_DisableRx
    <2>1. ~DMA_Disable(ch[5]).CHEN
      <3>1. ch[5] \in ChannelRegs(Addr, MAX_LEN)
        BY <1>1
      <3>2. QED
        BY <3>1, Zenon DEF DMA_Disable, ChannelRegs
    <2>2. ~ch'[5].CHEN /\ dmaClk' = dmaClk
      BY <1>1, <1>3, <2>1 DEF Isr_DisableRx, WriteChannel, RxOffInv
    <2>3. QED
      BY <2>2 DEF RxOffInv
  <1>4. CASE Isr_ReadNumber
    <2>1. pc["isr"] \in CopyPcs /\ ch' = ch /\ dmaClk' = dmaClk
      BY <1>4 DEF Isr_ReadNumber, At, CopyPcs, dmaVars
    <2>2. QED
      BY <2>1 DEF RxOffInv
  <1>5. CASE Isr_NumberRx
    <2>1. pc["isr"] \in CopyPcs /\ dmaClk' = dmaClk
      BY <1>5 DEF Isr_NumberRx, At, CopyPcs
    <2>2. ~ch[5].CHEN
      BY <2>1 DEF RxOffInv
    <2>3. DMA_ConfigDataNumber(ch[5], MAX_LEN).CHEN = ch[5].CHEN
      BY <1>1, <2>2 DEF DMA_ConfigDataNumber, ChannelRegs
    <2>4. ch'[5].CHEN = ch[5].CHEN
      BY <1>1, <1>5, <2>3 DEF Isr_NumberRx, WriteChannel
    <2>5. QED
      BY <2>1, <2>2, <2>4 DEF RxOffInv
  <1>6. CASE Isr_EnableRx
    BY <1>1, <1>6 DEF Isr_EnableRx, GoTo, WriteChannel, RxOffInv, CopyPcs, SendDataPcs
  <1>7. QED
    BY <1>2, <1>3, <1>4, <1>5, <1>6 DEF Isr

(* The hardware may switch a channel off, and never on. *)
LEMMA RxOffHardware ==
    ASSUME Inv, RxOffInv,
           \/ TxDma \/ RxDma \/ (\E c \in Channels : DmaStray(c))
           \/ Load \/ ShiftDone \/ HostByte \/ IdleLine
    PROVE  RxOffInv'
  <1>1. ch \in [Channels -> ChannelRegs(Addr, MAX_LEN)] /\ 5 \in Channels
    BY DEF Inv, DmaInv, Channels
  <1>2. pc' = pc /\ dmaClk' = dmaClk
    BY DEF TxDma, RxDma, DmaStray, Load, ShiftDone, HostByte, IdleLine, cpuVars, dmaVars
  <1>3. ~ch[5].CHEN => ch'[5] = ch[5]
    BY <1>1 DEF TxDma, RxDma, DmaStray, Load, ShiftDone, HostByte, IdleLine, dmaVars,
       CanTransfer
  <1>4. QED
    BY <1>2, <1>3 DEF RxOffInv

LEMMA RxOffNext == Inv /\ RxOffInv /\ [Next]_vars => RxOffInv'
  <1> SUFFICES ASSUME Inv, RxOffInv, [Next]_vars PROVE RxOffInv'
    OBVIOUS
  <1>1. CASE UNCHANGED vars
    BY <1>1, RxOffUnchanged DEF vars
  <1>2. CASE Next
    BY <1>2, RxOffBoot, RxOffSendData, RxOffIsr, RxOffHardware DEF Next
  <1>3. QED
    BY <1>1, <1>2

(* What memcpy reads is what the handler counted: for every buffer size    *)
(* and every traffic on the line, uart_rx_buf does not change from the     *)
(* reading of the count until channel 5 is enabled again.                  *)
THEOREM SnapshotsStable == Spec => SnapshotStable
  <1>1. RxOffInv /\ [Next]_vars
          => [pc["isr"] \in {"numberRx", "enableRx"} \cup SendDataPcs
                 => uart_rx_buf' = uart_rx_buf]_vars
    <2> SUFFICES ASSUME RxOffInv, [Next]_vars, pc["isr"] \in CopyPcs
                 PROVE  uart_rx_buf' = uart_rx_buf
      BY DEF CopyPcs
    <2>1. ~RxDma
      BY DEF RxOffInv, RxDma, CanTransfer
    <2>2. QED
      BY <2>1 DEF Next, vars, Boot, Main_COMInit, Main_EnableDMA, Main_EnableInterrupt,
         Main_EnableIRQRequest, ConfigDma_EnableClock, ConfigDma_ResetCHCFG, ConfigDma_ResetRegs,
         ConfigDma_ReadCHCFG, ConfigDma_WriteCHCFG, ConfigDma_Number, ConfigDma_PeripheralAddr,
         ConfigDma_Addr, SendData, SendData_Memcpy, SendData_Poll, SendData_Disable,
         SendData_Number, SendData_Enable, Isr, Isr_Enter, Isr_ReadIntFlag, Isr_RxData,
         Isr_DisableRx, Isr_ReadNumber, Isr_NumberRx, Isr_EnableRx, TxDma, DmaStray, Load,
         ShiftDone, HostByte, IdleLine, bufVars
  <1>2. QED
    BY <1>1, InitInv, NextInv, RxOffInit, RxOffNext, PTL DEF Spec, SnapshotStable

-----------------------------------------------------------------------------
(* ByteConservation.  It needs QuietBoot: an interrupt in the middle of     *)
(* config_dma can leave channel 5 with a count that is not the room in     *)
(* uart_rx_buf.  Until main reaches its loop the handler has then not run  *)
(* and channel 5 is being set up by main alone.                            *)
EarlyPcs == {"comInit", "enableDMA", "enableInt", "enableIRQ", "enableClk"}

QuietInv ==
    pc["main"] # "loop" =>
       /\ pc["isr"] = "none" /\ ~uart.IDLE
       /\ hist.stored = 0 /\ ~ch[5].CHEN
       /\ pc["main"] \notin EarlyPcs => dmaClk
       /\ pc["main"] = "cfgWrite" /\ cfg.chan = 5 => ~cfg.CHEN
       /\ pc["main"] \in {"cfgPeriph", "cfgAddr"} /\ cfg.chan = 5 => ch[5].CHNDATA = MAX_LEN
       /\ pc["main"] \in SendDataPcs => ch[5].CHNDATA = MAX_LEN /\ ch[5].CHMADDR = "uart_rx_buf"

(* From then on what channel 5 has left to receive and what it has stored  *)
(* fill the buffer, and the length the handler computes is what is stored. *)
CountInv ==
    /\ ~ch[5].CIRMODE
    /\ pc["main"] = "loop" =>
          /\ dmaClk /\ ch[5].CHMADDR = "uart_rx_buf"
          /\ ch[5].CHNDATA + hist.stored = MAX_LEN
    /\ pc["isr"] = "numberRx" => frame["isr"].len = hist.stored

ConserveInv == QuietInv /\ CountInv /\ ByteConservation

(* The fields of a channel that CountInv reads, after each driver function. *)
LEMMA ChannelFields ==
    ASSUME NEW r \in ChannelRegs(Addr, MAX_LEN)
    PROVE  /\ DMA_Disable(r).CHNDATA = r.CHNDATA /\ DMA_Disable(r).CHMADDR = r.CHMADDR
           /\ DMA_Disable(r).CIRMODE = r.CIRMODE
           /\ DMA_Enable(r).CHNDATA = r.CHNDATA /\ DMA_Enable(r).CHMADDR = r.CHMADDR
           /\ DMA_Enable(r).CIRMODE = r.CIRMODE
           /\ ~DMA_ResetCHCFG(r).CHEN /\ ~DMA_ResetCHCFG(r).CIRMODE
           /\ ~r.CHEN => /\ ~DMA_ResetRegs(r).CHEN
                         /\ DMA_ResetRegs(r).CIRMODE = r.CIRMODE
  BY DEF DMA_Disable, DMA_Enable, DMA_ResetCHCFG, DMA_ResetRegs, ChannelRegs

(* The configuration of a channel that is not enabled. *)
LEMMA ConfigFields ==
    ASSUME NEW r \in ChannelRegs(Addr, MAX_LEN), ~r.CHEN
    PROVE  /\ \A a : /\ DMA_ConfigPeripheralAddr(r, a) = [r EXCEPT !.CHPADDR = a]
                     /\ DMA_ConfigMemoryAddr(r, a) = [r EXCEPT !.CHMADDR = a]
           /\ DMA_ConfigDataNumber(r, MAX_LEN) = [r EXCEPT !.CHNDATA = MAX_LEN]
  <1>1. U16(MAX_LEN) = MAX_LEN
    BY UsartEchoAssumption, U16Identity
  <1>2. QED
    BY <1>1 DEF DMA_ConfigPeripheralAddr, DMA_ConfigMemoryAddr, DMA_ConfigDataNumber

(* A driver function writes the channel it names. *)
LEMMA WriteFive ==
    ASSUME DmaInv, NEW c \in Channels, NEW r, WriteChannel(c, r)
    PROVE  ch'[5] = IF dmaClk /\ c = 5 THEN r ELSE ch[5]
  BY DEF DmaInv, Channels, WriteChannel

(* What the steps below rest on. *)
LEMMA ConserveTypes ==
    ASSUME Inv
    PROVE  /\ pc \in [Actors -> Pcs] /\ "main" \in Actors /\ "isr" \in Actors
           /\ cfg.chan \in Channels /\ ch[5] \in ChannelRegs(Addr, MAX_LEN)
           /\ hist \in History /\ line.sent \in Nat
           /\ frame \in [Actors -> [len : 0..MAX_LEN, idx : 0..MAX_LEN]]
  BY DEF Inv, CpuInv, DmaInv, TypeCpu, TypeHist, TypeLine, LineState, Actors, Channels

(* The initial states. *)
LEMMA ConserveInit == Init => ConserveInv
  BY DEF Init, ConserveInv, QuietInv, CountInv, ByteConservation, EarlyPcs, SendDataPcs,
     Actors, Channels, ResetChannel

(* The steps of main up to send_data. *)
LEMMA ConserveBoot ==
    ASSUME QuietBoot, Inv, ConserveInv, Boot PROVE ConserveInv'
  <1>1. /\ pc["main"] # "loop" /\ pc["isr"] = "none" /\ pc'["isr"] = "none" /\ hist' = hist
        /\ pc'["main"] # "loop" /\ line'.sent = line.sent /\ uart'.RXBNE = uart.RXBNE
        /\ uart'.IDLE = uart.IDLE
    <2>1. uart \in UartRegs /\ line \in LineState
      BY DEF Inv, TypeUart, TypeLine
    <2>2. QED
      BY <2>1, ConserveTypes DEF Boot, Main_COMInit, Main_EnableDMA, Main_EnableInterrupt,
       Main_EnableIRQRequest,
       ConfigDma_EnableClock, ConfigDma_ResetCHCFG, ConfigDma_ResetRegs, ConfigDma_ReadCHCFG,
       ConfigDma_WriteCHCFG, ConfigDma_Number, ConfigDma_PeripheralAddr, ConfigDma_Addr, At,
       GoTo, uartVars, UartRegs, LineState
  <1>2. ByteConservation'
    BY <1>1 DEF ConserveInv, ByteConservation
  <1>3. hist.stored = 0 /\ ~ch[5].CHEN /\ ~ch[5].CIRMODE /\ ~uart.IDLE
    BY <1>1 DEF ConserveInv, QuietInv, CountInv
  <1> USE DEF ConserveInv, QuietInv, CountInv, EarlyPcs, SendDataPcs, At, GoTo, dmaVars
  <1> HIDE DEF ConserveInv
  <1>4. CASE Main_COMInit \/ Main_EnableDMA \/ Main_EnableInterrupt \/ Main_EnableIRQRequest
              \/ ConfigDma_EnableClock
    <2>1. ch' = ch /\ pc'["main"] \notin {"cfgWrite", "cfgPeriph", "cfgAddr"} \cup SendDataPcs
          /\ (pc'["main"] \notin EarlyPcs => dmaClk')
      BY <1>4, ConserveTypes DEF Main_COMInit, Main_EnableDMA, Main_EnableInterrupt,
         Main_EnableIRQRequest, ConfigDma_EnableClock
    <2>2. QED
      BY <1>1, <1>2, <1>3, <2>1 DEF ConserveInv
  <1>5. CASE ConfigDma_ResetCHCFG
    <2>1. pc'["main"] = "resetRegs" /\ dmaClk' = dmaClk /\ pc["main"] = "resetCfg"
      BY <1>5, ConserveTypes DEF ConfigDma_ResetCHCFG
    <2>2. ch'[5] = ch[5] \/ ch'[5] = DMA_ResetCHCFG(ch[5])
      BY <1>5, WriteFive, ConserveTypes DEF ConfigDma_ResetCHCFG, Inv
    <2>3. ~ch'[5].CHEN /\ ~ch'[5].CIRMODE
      BY <2>2, <1>3, ChannelFields, ConserveTypes
    <2>4. QED
      BY <1>1, <1>2, <1>3, <2>1, <2>3 DEF ConserveInv
  <1>6. CASE ConfigDma_ResetRegs
    <2>1. pc'["main"] = "cfgRead" /\ dmaClk' = dmaClk /\ pc["main"] = "resetRegs"
      BY <1>6, ConserveTypes DEF ConfigDma_ResetRegs
    <2>2. ch'[5] = ch[5] \/ ch'[5] = DMA_ResetRegs(ch[5])
      BY <1>6, WriteFive, ConserveTypes DEF ConfigDma_ResetRegs, Inv
    <2>3. ~ch'[5].CHEN /\ ~ch'[5].CIRMODE
      BY <2>2, <1>3, ChannelFields, ConserveTypes
    <2>4. QED
      BY <1>1, <1>2, <1>3, <2>1, <2>3 DEF ConserveInv
  <1>7. CASE ConfigDma_ReadCHCFG
    <2>1. /\ pc'["main"] = "cfgWrite" /\ dmaClk' = dmaClk /\ pc["main"] = "cfgRead" /\ ch' = ch
          /\ cfg' = [cfg EXCEPT !.CHEN = ch[cfg.chan].CHEN]
      BY <1>7, ConserveTypes DEF ConfigDma_ReadCHCFG
    <2>2. cfg'.chan = 5 => ~cfg'.CHEN
      BY <2>1, <1>3 DEF Inv, CpuInv, TypeCpu
    <2>3. QED
      BY <1>1, <1>2, <1>3, <2>1, <2>2 DEF ConserveInv
  <1>8. CASE ConfigDma_WriteCHCFG
    <2>1. pc'["main"] = "cfgNumber" /\ dmaClk' = dmaClk /\ pc["main"] = "cfgWrite"
      BY <1>8, ConserveTypes DEF ConfigDma_WriteCHCFG
    <2>2. cfg.chan = 5 => cfg.CHEN = FALSE
      BY <2>1 DEF ConserveInv, Inv, CpuInv, TypeCpu
    <2>3. ~ch'[5].CHEN /\ ~ch'[5].CIRMODE
      <3>1. CASE cfg.chan = 5
        <4>1. \/ ch'[5] = ch[5]
              \/ ch'[5] = DMA_Disable([ch[5] EXCEPT !.DIRCFG = "src", !.CIRMODE = FALSE])
          BY <1>8, <2>2, <3>1, ConserveTypes
             DEF ConfigDma_WriteCHCFG, WriteChannel, DMA_ConfigCHCFG, Inv, DmaInv, Channels
        <4>2. QED
          BY <1>3, <4>1, ConserveTypes DEF DMA_Disable, ChannelRegs
      <3>2. CASE cfg.chan # 5
        <4>1. ch'[5] = ch[5]
          BY <1>8, <3>2, WriteFive, ConserveTypes DEF ConfigDma_WriteCHCFG, Inv
        <4>2. QED BY <1>3, <4>1
      <3>3. QED BY <3>1, <3>2
    <2>4. QED
      BY <1>1, <1>2, <1>3, <2>1, <2>3 DEF ConserveInv
  <1>9. CASE ConfigDma_Number
    <2>1. pc'["main"] = "cfgPeriph" /\ dmaClk' = dmaClk /\ pc["main"] = "cfgNumber" /\ cfg' = cfg
      BY <1>9, ConserveTypes DEF ConfigDma_Number
    <2>2. dmaClk
      BY <2>1 DEF ConserveInv
    <2>3. ~ch'[5].CHEN /\ ~ch'[5].CIRMODE /\ (cfg.chan = 5 => ch'[5].CHNDATA = MAX_LEN)
      <3>1. CASE cfg.chan = 5
        <4>1. ch'[5] = DMA_ConfigDataNumber(ch[5], MAX_LEN)
          BY <1>9, <2>2, <3>1, WriteFive, ConserveTypes DEF ConfigDma_Number, Inv
        <4>2. ch'[5] = [ch[5] EXCEPT !.CHNDATA = MAX_LEN]
          BY <1>3, <4>1, ConfigFields, ConserveTypes
        <4>3. QED BY <1>3, <3>1, <4>2, ConserveTypes DEF ChannelRegs
      <3>2. CASE cfg.chan # 5
        <4>1. ch'[5] = ch[5]
          BY <1>9, <3>2, WriteFive, ConserveTypes DEF ConfigDma_Number, Inv
        <4>2. QED BY <1>3, <3>2, <4>1
      <3>3. QED BY <3>1, <3>2
    <2>4. QED
      BY <1>1, <1>2, <1>3, <2>1, <2>2, <2>3 DEF ConserveInv
  <1>10. CASE ConfigDma_PeripheralAddr
    <2>1. pc'["main"] = "cfgAddr" /\ dmaClk' = dmaClk /\ pc["main"] = "cfgPeriph" /\ cfg' = cfg
      BY <1>10, ConserveTypes DEF ConfigDma_PeripheralAddr
    <2>2. dmaClk /\ (cfg.chan = 5 => ch[5].CHNDATA = MAX_LEN)
      BY <2>1 DEF ConserveInv
    <2>3. ~ch'[5].CHEN /\ ~ch'[5].CIRMODE /\ ch'[5].CHNDATA = ch[5].CHNDATA
      <3>1. CASE cfg.chan = 5
        <4>1. ch'[5] = DMA_ConfigPeripheralAddr(ch[5], "DATA")
          BY <1>10, <2>2, <3>1, WriteFive, ConserveTypes DEF ConfigDma_PeripheralAddr, Inv
        <4>2. ch'[5] = [ch[5] EXCEPT !.CHPADDR = "DATA"]
          BY <1>3, <4>1, ConfigFields, ConserveTypes
        <4>3. QED BY <1>3, <3>1, <4>2, ConserveTypes DEF ChannelRegs
      <3>2. CASE cfg.chan # 5
        <4>1. ch'[5] = ch[5]
          BY <1>10, <3>2, WriteFive, ConserveTypes DEF ConfigDma_PeripheralAddr, Inv
        <4>2. QED BY <1>3, <3>2, <4>1
      <3>3. QED BY <3>1, <3>2
    <2>4. QED
      BY <1>1, <1>2, <1>3, <2>1, <2>2, <2>3 DEF ConserveInv
  <1>11. CASE ConfigDma_Addr
    <2>1. dmaClk' = dmaClk /\ pc["main"] = "cfgAddr" /\ cfg.chan \in Channels
          /\ pc'["main"] = (IF cfg.chan = 4 THEN "resetCfg" ELSE "memcpy")
      BY <1>11, ConserveTypes DEF ConfigDma_Addr
    <2>2. dmaClk /\ (cfg.chan = 5 => ch[5].CHNDATA = MAX_LEN)
      BY <2>1 DEF ConserveInv
    <2>3. ~ch'[5].CHEN /\ ~ch'[5].CIRMODE /\ ch'[5].CHNDATA = ch[5].CHNDATA
          /\ (cfg.chan = 5 => ch'[5].CHMADDR = "uart_rx_buf")
      <3>1. CASE cfg.chan = 5
        <4>1. ch'[5] = DMA_ConfigMemoryAddr(ch[5], "uart_rx_buf")
          BY <1>11, <2>2, <3>1, WriteFive, ConserveTypes DEF ConfigDma_Addr, BufferOf, Inv
        <4>2. ch'[5] = [ch[5] EXCEPT !.CHMADDR = "uart_rx_buf"]
          BY <1>3, <4>1, ConfigFields, ConserveTypes
        <4>3. QED BY <1>3, <3>1, <4>2, ConserveTypes DEF ChannelRegs
      <3>2. CASE cfg.chan # 5
        <4>1. ch'[5] = ch[5]
          BY <1>11, <3>2, WriteFive, ConserveTypes DEF ConfigDma_Addr, BufferOf, Inv
        <4>2. QED BY <1>3, <3>2, <4>1
      <3>3. QED BY <3>1, <3>2
    <2>4. QED
      BY <1>1, <1>2, <1>3, <2>1, <2>2, <2>3 DEF ConserveInv, Channels
  <1>12. QED
    BY <1>4, <1>5, <1>6, <1>7, <1>8, <1>9, <1>10, <1>11 DEF Boot
(* send_data leaves channel 5, the counts and the receiver alone. *)
LEMMA ConserveSendData ==
    ASSUME QuietBoot, Inv, ConserveInv, NEW a \in Actors, SendData(a) PROVE ConserveInv'
  <1>1. uart \in UartRegs /\ ch \in [Channels -> ChannelRegs(Addr, MAX_LEN)] /\ 5 \in Channels
        /\ a \in {"main", "isr"}
    BY DEF Inv, TypeUart, DmaInv, Channels, Actors
  <1>2. /\ dmaClk' = dmaClk /\ ch'[5] = ch[5] /\ hist' = hist /\ line' = line /\ cfg' = cfg
        /\ uart'.RXBNE = uart.RXBNE /\ uart'.IDLE = uart.IDLE
    BY <1>1 DEF SendData, SendData_Memcpy, SendData_Poll, SendData_Disable, SendData_Number,
       SendData_Enable, WriteChannel, dmaVars, uartVars, AfterReadSTS, UartRegs
  <1>3. CASE a = "main"
    <2>1. /\ pc["isr"] = "none" /\ pc'["isr"] = "none" /\ pc["main"] \in SendDataPcs
          /\ pc'["main"] \in SendDataPcs \/ pc'["main"] = "loop"
      BY <1>3, ConserveTypes DEF SendData, SendData_Memcpy, SendData_Poll, SendData_Disable,
         SendData_Number, SendData_Enable, At, GoTo, SendDataPcs
    <2>2. QED
      BY <1>2, <2>1, UsartEchoAssumption DEF ConserveInv, QuietInv, CountInv, ByteConservation,
         SendDataPcs, EarlyPcs
  <1>4. CASE a = "isr"
    <2>1. /\ pc["isr"] \in SendDataPcs /\ pc'["isr"] \in SendDataPcs \cup {"enableRx"}
          /\ pc'["main"] = pc["main"]
      BY <1>4, ConserveTypes DEF SendData, SendData_Memcpy, SendData_Poll, SendData_Disable,
         SendData_Number, SendData_Enable, At, GoTo, SendDataPcs
    <2>2. QED
      BY <1>2, <2>1 DEF ConserveInv, QuietInv, CountInv, ByteConservation, SendDataPcs
  <1>5. QED
    BY <1>1, <1>3, <1>4

(* The handler: the length it computes is what channel 5 has stored. *)
LEMMA ConserveIsr ==
    ASSUME QuietBoot, Inv, RxOffInv, ConserveInv, Isr PROVE ConserveInv'
  <1>1. /\ pc["main"] = "loop" /\ dmaClk /\ ch[5].CHMADDR = "uart_rx_buf" /\ ~ch[5].CIRMODE
        /\ ch[5].CHNDATA + hist.stored = MAX_LEN
    BY DEF Isr, Isr_Enter, IrqPending, Isr_ReadIntFlag, Isr_RxData, Isr_DisableRx,
       Isr_ReadNumber,
       Isr_NumberRx, Isr_EnableRx, At, ConserveInv, QuietInv, CountInv
  <1>2. /\ pc'["main"] = "loop" /\ dmaClk' = dmaClk /\ line' = line
    BY <1>1, ConserveTypes DEF Isr, Isr_Enter, Isr_ReadIntFlag, Isr_RxData, Isr_DisableRx,
       Isr_ReadNumber, Isr_NumberRx, Isr_EnableRx, GoTo, dmaVars
  <1>3. SUFFICES /\ ~ch'[5].CIRMODE /\ ch'[5].CHMADDR = "uart_rx_buf"
                 /\ ch'[5].CHNDATA + hist'.stored = MAX_LEN
                 /\ pc'["isr"] = "numberRx" => frame'["isr"].len = hist'.stored
                 /\ ByteConservation'
    BY <1>1, <1>2 DEF ConserveInv, QuietInv, CountInv
  <1>4. /\ uart \in UartRegs /\ hist \in History /\ ByteConservation /\ MAX_LEN \in Nat
        /\ line.sent \in Nat /\ ch[5].CHNDATA \in Nat
    BY UsartEchoAssumption, ConserveTypes DEF Inv, TypeUart, TypeHist, ConserveInv, ChannelRegs
  <1>5. CASE Isr_Enter \/ Isr_ReadIntFlag
    <2>1. ch' = ch /\ hist' = hist /\ uart'.RXBNE = uart.RXBNE /\ pc'["isr"] # "numberRx"
      BY <1>1, <1>4, <1>5, ConserveTypes DEF Isr_Enter, ConfigPcs, Isr_ReadIntFlag, GoTo, dmaVars,
         uartVars, AfterReadSTS, UartRegs
    <2>2. QED
      BY <1>1, <1>2, <1>4, <2>1 DEF ByteConservation
  <1>6. CASE Isr_RxData
    <2>1. ch' = ch /\ ~uart'.RXBNE /\ pc'["isr"] = "disableRx"
      BY <1>4, <1>6, ConserveTypes DEF Isr_RxData, GoTo, dmaVars, AfterReadDATA, UartRegs
    <2>2. /\ hist'.stored = hist.stored /\ hist'.handed = hist.handed
          /\ hist'.lost = hist.lost + (IF uart.RXBNE THEN 1 ELSE 0)
      BY <1>4, <1>6 DEF Isr_RxData, History
    <2>3. QED
      BY <1>1, <1>2, <1>4, <2>1, <2>2 DEF ByteConservation, History
  <1>7. CASE Isr_DisableRx
    <2>1. hist' = hist /\ uart' = uart /\ pc'["isr"] = "readNumber"
      BY <1>7, ConserveTypes DEF Isr_DisableRx, GoTo, uartVars
    <2>2. ch'[5] = DMA_Disable(ch[5])
      BY <1>1, <1>7, WriteFive DEF Isr_DisableRx, Inv, Channels
    <2>3. QED
      BY <1>1, <1>2, <1>4, <2>1, <2>2, ChannelFields, ConserveTypes DEF ByteConservation
  <1>8. CASE Isr_ReadNumber
    <2>1. hist' = hist /\ uart' = uart /\ ch' = ch
      BY <1>8 DEF Isr_ReadNumber, uartVars, dmaVars
    <2>2. MAX_LEN - ch[5].CHNDATA = hist.stored /\ hist.stored \in Nat /\ hist.stored < 65536
      BY <1>1, <1>4, UsartEchoAssumption DEF History
    <2>3. U16(MAX_LEN - ch[5].CHNDATA) = hist.stored
      BY <2>2, U16Identity
    <2>4. frame'["isr"].len = hist.stored
      BY <1>1, <1>8, <2>3, ConserveTypes DEF Isr_ReadNumber, DMA_ReadDataNumber
    <2>5. QED
      BY <1>1, <1>2, <1>4, <2>1, <2>4 DEF ByteConservation
  <1>9. CASE Isr_NumberRx
    <2>1. uart' = uart /\ pc'["isr"] = "memcpy" /\ pc["isr"] = "numberRx"
      BY <1>9, ConserveTypes DEF Isr_NumberRx, At, GoTo, uartVars
    <2>2. ~ch[5].CHEN /\ frame["isr"].len = hist.stored
      BY <2>1 DEF RxOffInv, CopyPcs, ConserveInv, CountInv
    <2>3. ch'[5] = DMA_ConfigDataNumber(ch[5], MAX_LEN)
      BY <1>1, <1>9, WriteFive DEF Isr_NumberRx, Inv, Channels
    <2>4. ch'[5] = [ch[5] EXCEPT !.CHNDATA = MAX_LEN]
      BY <2>2, <2>3, ConfigFields, ConserveTypes
    <2>5. ch'[5].CHNDATA = MAX_LEN /\ ch'[5].CHMADDR = "uart_rx_buf" /\ ~ch'[5].CIRMODE
      BY <1>1, <2>4, ConserveTypes DEF ChannelRegs
    <2>6. hist' = [hist EXCEPT !.handed = @ + frame["isr"].len, !.stored = 0]
      BY <1>1, <1>9 DEF Isr_NumberRx, NoAddr
    <2>7. /\ hist'.handed = hist.handed + hist.stored /\ hist'.stored = 0
          /\ hist'.lost = hist.lost
      BY <1>4, <2>2, <2>6 DEF History
    <2>8. QED
      BY <1>1, <1>2, <1>4, <2>1, <2>5, <2>7 DEF ByteConservation, History
  <1>10. CASE Isr_EnableRx
    <2>1. uart' = uart /\ pc'["isr"] = "none"
      BY <1>10, ConserveTypes DEF Isr_EnableRx, GoTo, uartVars
    <2>2. ch'[5] = DMA_Enable(ch[5])
      BY <1>1, <1>10, WriteFive DEF Isr_EnableRx, Inv, Channels
    <2>3. hist'.handed = hist.handed /\ hist'.stored = hist.stored /\ hist'.lost = hist.lost
      BY <1>4, <1>10 DEF Isr_EnableRx, History
    <2>4. QED
      BY <1>1, <1>2, <1>4, <2>1, <2>2, <2>3, ChannelFields, ConserveTypes DEF ByteConservation
  <1>11. QED
    BY <1>5, <1>6, <1>7, <1>8, <1>9, <1>10 DEF Isr

(* The hardware and the host: a byte that arrives is in DATA or lost, and  *)
(* the DMA takes it from DATA into the buffer.                             *)
LEMMA ConserveHardware ==
    ASSUME QuietBoot, Inv, RxOffInv, ConserveInv,
           \/ TxDma \/ RxDma \/ (\E c \in Channels : DmaStray(c))
           \/ Load \/ ShiftDone \/ HostByte \/ IdleLine
    PROVE  ConserveInv'
  <1>1. /\ ch \in [Channels -> ChannelRegs(Addr, MAX_LEN)] /\ 4 \in Channels /\ 5 \in Channels
        /\ uart \in UartRegs /\ hist \in History /\ line \in LineState /\ MAX_LEN \in Nat
        /\ line.sent \in Nat /\ ch[5].CHNDATA \in Nat /\ ch[5] \in ChannelRegs(Addr, MAX_LEN)
    BY UsartEchoAssumption DEF Inv, DmaInv, TypeUart, TypeHist, TypeLine, Channels, ChannelRegs,
       LineState
  <1>2. /\ pc' = pc /\ frame' = frame /\ cfg' = cfg /\ dmaClk' = dmaClk
    BY DEF TxDma, RxDma, DmaStray, Load, ShiftDone, HostByte, IdleLine, cpuVars, dmaVars
  <1>3. CASE TxDma \/ Load \/ ShiftDone
    <2>1. /\ ch'[5] = ch[5] /\ hist' = hist /\ line'.sent = line.sent
          /\ uart'.IDLE = uart.IDLE /\ uart'.RXBNE = uart.RXBNE
      BY <1>1, <1>3 DEF TxDma, Load, ShiftDone, UartRegs, LineState, dmaVars
    <2>2. QED
      BY <1>2, <2>1 DEF ConserveInv, QuietInv, CountInv, ByteConservation
  <1>4. CASE RxDma
    <2>1. pc["main"] = "loop" /\ pc["isr"] # "numberRx" /\ uart.RXBNE /\ ~ch[5].CIRMODE
          /\ ch[5].CHNDATA > 0
      BY <1>4 DEF RxDma, CanTransfer, DmaRequest, ConserveInv, QuietInv, CountInv, RxOffInv,
         CopyPcs
    <2>2. ch'[5] = [ch[5] EXCEPT !.CHNDATA = ch[5].CHNDATA - 1, !.pos = ch[5].pos + 1]
      BY <1>1, <1>4, <2>1 DEF RxDma, Transfer
    <2>3. /\ ch'[5].CHNDATA = ch[5].CHNDATA - 1 /\ ch'[5].CHMADDR = ch[5].CHMADDR
          /\ ~ch'[5].CIRMODE
      BY <1>1, <2>1, <2>2 DEF ChannelRegs
    <2>4. /\ hist'.stored = hist.stored + 1 /\ hist'.handed = hist.handed
          /\ hist'.lost = hist.lost /\ ~uart'.RXBNE /\ line' = line
      BY <1>1, <1>4 DEF RxDma, AfterReadDATA, UartRegs, History
    <2>5. QED
      BY <1>1, <1>2, <2>1, <2>3, <2>4 DEF ConserveInv, QuietInv, CountInv, ByteConservation,
         History
  <1>5. ASSUME NEW c \in Channels, DmaStray(c) PROVE ConserveInv'
    <2>1. c = 4
      BY <1>5 DEF DmaStray, CanTransfer, NoAddr, Channels, ConserveInv, QuietInv, CountInv
    <2>2. ch'[5] = ch[5] /\ hist' = hist /\ line' = line /\ uart' = uart
      BY <1>1, <1>5, <2>1 DEF DmaStray
    <2>3. QED
      BY <1>2, <2>2 DEF ConserveInv, QuietInv, CountInv, ByteConservation
  <1>6. CASE HostByte
    <2>1. pc["main"] = "loop" /\ ch' = ch /\ line'.sent = line.sent + 1
      BY <1>6 DEF HostByte, RxLineMayMove, dmaVars
    <2>2. CASE uart.RXBNE
      <3>1. /\ hist'.stored = hist.stored /\ hist'.handed = hist.handed
            /\ hist'.lost = hist.lost + 1 /\ uart' = uart
        BY <1>1, <1>6, <2>2 DEF HostByte, History
      <3>2. QED
        BY <1>1, <1>2, <2>1, <2>2, <3>1 DEF ConserveInv, QuietInv, CountInv, ByteConservation,
           History
    <2>3. CASE ~uart.RXBNE
      <3>1. hist' = hist /\ uart'.RXBNE
        BY <1>1, <1>6, <2>3 DEF HostByte, UartRegs
      <3>2. QED
        BY <1>1, <1>2, <2>1, <2>3, <3>1 DEF ConserveInv, QuietInv, CountInv, ByteConservation,
           History
    <2>4. QED
      BY <2>2, <2>3
  <1>7. CASE IdleLine
    <2>1. pc["main"] = "loop" /\ ch' = ch /\ hist' = hist
      BY <1>7 DEF IdleLine, RxLineMayMove, dmaVars
    <2>2. line'.sent = line.sent /\ uart'.RXBNE = uart.RXBNE
      BY <1>1, <1>7 DEF IdleLine, LineState, UartRegs
    <2>3. QED
      BY <1>2, <2>1, <2>2 DEF ConserveInv, QuietInv, CountInv, ByteConservation
  <1>8. QED
    BY <1>3, <1>4, <1>5, <1>6, <1>7

(* A step of any actor. *)
LEMMA ConserveNext ==
    ASSUME QuietBoot, Inv, RxOffInv, ConserveInv, [Next]_vars PROVE ConserveInv'
  <1>1. CASE UNCHANGED vars
    BY <1>1 DEF vars, ConserveInv, QuietInv, CountInv, ByteConservation
  <1>2. CASE Next
    BY <1>2, ConserveBoot, ConserveSendData, ConserveIsr, ConserveHardware DEF Next
  <1>3. QED
    BY <1>1, <1>2

(* Every byte of the host is accounted for exactly once, for every buffer  *)
(* size, traffic and timing after a quiet boot: the lengths MAX_LEN minus  *)
(* CHNDATA that the handler passes to send_data add up to what the DMA has *)
(* stored, with nothing counted twice and nothing dropped.                 *)
THEOREM BytesConserved ==
    ASSUME QuietBoot PROVE Spec => []ByteConservation
  <1>1. Inv /\ RxOffInv /\ ConserveInv /\ [Next]_vars => ConserveInv'
    BY ConserveNext
  <1>2. ConserveInv => ByteConservation
    BY DEF ConserveInv
  <1>3. QED
    BY <1>1, <1>2, InitInv, NextInv, RxOffInit, RxOffNext, ConserveInit, PTL DEF Spec

-----------------------------------------------------------------------------
(***************************************************************************)
(* What the board sends back, for every buffer size, banner and message    *)
(* length up to the buffer: with a quiet boot, a host that waits for       *)
(* silence and a CPU faster than the line, the bytes on the wire are the   *)
(* banner and then the host's bytes, each once and in order, none is lost  *)
(* once channel 5 is armed, and the board implements EchoService.          *)
(*                                                                         *)
(* The invariant has five parts, proved one after the other because each   *)
(* rests on the ones before:                                               *)
(*   SetupInv  what main has configured so far, and the banner it copies;  *)
(*   MessageInv  where the line stands when the handler runs: the pause of *)
(*             a message, with nothing left to send; and how much channel  *)
(*             5 has stored of the message;                                *)
(*   RxBytes   which bytes these are;                                      *)
(*   CopyInv   what send_data has copied for the handler;                  *)
(*   TxInv     what is on the wire, in DATA and left to channel 4 is one   *)
(*             sequence: the banner and the host's bytes.                  *)
(***************************************************************************)

CanIdle == TRUE \in BootIdle

-----------------------------------------------------------------------------
(* SetupInv. *)

(* Until main reaches its loop nothing has been sent or received. *)
QuietTx ==
    pc["main"] # "loop" =>
       /\ wire = << >> /\ uart.TXBE /\ ~shifting /\ ~ch[4].CHEN /\ ~uart.RXBNE
       /\ line.sent = 0 /\ line.burst = 0 /\ (line.idleNext => CanIdle)
       /\ hist.handed = 0 /\ hist.lost = 0 /\ ~hist.armed /\ hist.skipped = 0
       /\ pc["main"] = "cfgWrite" => ~cfg.CHEN

(* What main has configured by the time it reaches a step. *)
WiredInv ==
    /\ ~ch[4].CIRMODE
    /\ pc["main"] # "comInit" => uart.UEN
    /\ pc["main"] \notin {"comInit", "enableDMA"} => uart.DMAEN
    /\ pc["main"] \notin {"comInit", "enableDMA", "enableInt"} => uart.IDLEIEN
    /\ pc["main"] \notin {"comInit", "enableDMA", "enableInt", "enableIRQ"} => irqOn
    /\ pc["main"] = "cfgAddr" \/ cfg.chan = 5 => ch[4].CHPADDR = "DATA"
    /\ cfg.chan = 5 => ch[4].CHMADDR = "uart_tx_buf"
    /\ pc["main"] \in SendDataPcs \cup {"loop"} => cfg.chan = 5

(* The banner in uart_tx_buf as far as main has copied it. *)
BannerInv ==
    /\ pc["main"] \in SendDataPcs =>
          /\ frame["main"].len = BannerLen
          /\ \A i \in Index : i < frame["main"].idx => uart_tx_buf[i] = BannerByte(i)
    /\ pc["main"] \in SendDataPcs \ {"memcpy"} => frame["main"].idx = BannerLen
    /\ pc["main"] = "enableTx" => ch[4].CHNDATA = BannerLen

SetupInv == QuietTx /\ WiredInv /\ BannerInv

(* The arithmetic of the constants. *)
LEMMA Sizes ==
    /\ MAX_LEN \in Nat /\ MAX_LEN > 0 /\ MAX_LEN < 65536 /\ BannerLen \in Nat
    /\ BannerLen > 0 /\ BannerLen <= MAX_LEN /\ MaxBytes \in Nat /\ MaxMsg \in Nat /\ MaxMsg > 0
  BY UsartEchoAssumption

(* A driver function writes the channel it names. *)
LEMMA WriteFour ==
    ASSUME DmaInv, NEW c \in Channels, NEW r, WriteChannel(c, r)
    PROVE  ch'[4] = IF dmaClk /\ c = 4 THEN r ELSE ch[4]
  BY DEF DmaInv, Channels, WriteChannel

(* What each driver function leaves of a channel. *)
LEMMA DriverFields ==
    ASSUME NEW r \in ChannelRegs(Addr, MAX_LEN)
    PROVE  /\ ~DMA_Disable(r).CHEN /\ DMA_Disable(r).CHPADDR = r.CHPADDR
           /\ DMA_Disable(r).CHNDATA = r.CHNDATA /\ DMA_Disable(r).CHMADDR = r.CHMADDR
           /\ DMA_Disable(r).CIRMODE = r.CIRMODE
           /\ DMA_Disable(r).pos = r.pos
           /\ DMA_Enable(r).CHEN /\ DMA_Enable(r).CHPADDR = r.CHPADDR
           /\ DMA_Enable(r).CHNDATA = r.CHNDATA /\ DMA_Enable(r).CHMADDR = r.CHMADDR
           /\ DMA_Enable(r).CIRMODE = r.CIRMODE
           /\ ~r.CHEN => DMA_Enable(r).pos = 0
  BY DEF DMA_Disable, DMA_Enable, ChannelRegs

LEMMA NumberFields ==
    ASSUME NEW r \in ChannelRegs(Addr, MAX_LEN), ~r.CHEN, NEW n \in 0..MAX_LEN
    PROVE  LET s == DMA_ConfigDataNumber(r, n)
           IN  /\ ~s.CHEN /\ s.CHNDATA = n /\ s.CHPADDR = r.CHPADDR /\ s.CHMADDR = r.CHMADDR
               /\ s.CIRMODE = r.CIRMODE
  <1>1. U16(n) = n
    BY U16Identity, Sizes
  <1>2. QED
    BY <1>1 DEF DMA_ConfigDataNumber, ChannelRegs

LEMMA TransferFields ==
    ASSUME NEW r \in ChannelRegs(Addr, MAX_LEN), ~r.CIRMODE
    PROVE  LET s == Transfer(r)
           IN  /\ s.CHEN = r.CHEN /\ s.CHNDATA = r.CHNDATA - 1 /\ s.pos = r.pos + 1
               /\ s.CHPADDR = r.CHPADDR /\ s.CHMADDR = r.CHMADDR /\ s.CIRMODE = r.CIRMODE
  BY DEF Transfer, ChannelRegs

(* The initial states. *)
LEMMA SetupInit == Init => SetupInv
  BY DEF Init, SetupInv, QuietTx, WiredInv, BannerInv, SendDataPcs, Actors, Channels, ResetChannel

(* The steps of main up to send_data. *)
LEMMA SetupBoot ==
    ASSUME QuietBoot, Inv, ConserveInv, SetupInv, Boot PROVE SetupInv'
  <1>1. /\ pc["main"] \notin SendDataPcs \cup {"loop"} /\ pc["isr"] = "none"
        /\ pc'["isr"] = "none"
    BY Types DEF Boot, Main_COMInit, Main_EnableDMA, Main_EnableInterrupt, Main_EnableIRQRequest,
       ConfigDma_EnableClock, ConfigDma_ResetCHCFG, ConfigDma_ResetRegs, ConfigDma_ReadCHCFG,
       ConfigDma_WriteCHCFG, ConfigDma_Number, ConfigDma_PeripheralAddr, ConfigDma_Addr, At, GoTo,
       SendDataPcs
  <1>2. /\ wire = << >> /\ uart.TXBE /\ ~shifting /\ ~ch[4].CHEN /\ ~uart.RXBNE
        /\ line.sent = 0 /\ line.burst = 0 /\ (line.idleNext => CanIdle)
        /\ hist.handed = 0 /\ hist.lost = 0 /\ ~hist.armed /\ hist.skipped = 0
        /\ ~ch[4].CIRMODE
    BY <1>1 DEF SetupInv, QuietTx, WiredInv
  <1>3. /\ wire' = wire /\ hist' = hist /\ shifting' = shifting
        /\ uart'.TXBE = uart.TXBE /\ uart'.RXBNE = uart.RXBNE
        /\ line'.sent = line.sent /\ line'.burst = line.burst
    BY Types DEF Boot, Main_COMInit, Main_EnableDMA, Main_EnableInterrupt, Main_EnableIRQRequest,
       ConfigDma_EnableClock, ConfigDma_ResetCHCFG, ConfigDma_ResetRegs, ConfigDma_ReadCHCFG,
       ConfigDma_WriteCHCFG, ConfigDma_Number, ConfigDma_PeripheralAddr, ConfigDma_Addr,
       uartVars, UartRegs, LineState
  <1>4. line'.idleNext => CanIdle
    <2>1. CASE Main_COMInit
      BY <2>1, Types DEF Main_COMInit, CanIdle, LineState
    <2>2. CASE ~Main_COMInit
      BY <1>2, <2>2 DEF Boot, Main_EnableDMA, Main_EnableInterrupt, Main_EnableIRQRequest,
         ConfigDma_EnableClock, ConfigDma_ResetCHCFG, ConfigDma_ResetRegs, ConfigDma_ReadCHCFG,
         ConfigDma_WriteCHCFG, ConfigDma_Number, ConfigDma_PeripheralAddr, ConfigDma_Addr
    <2>3. QED
      BY <2>1, <2>2
  <1>5. SUFFICES /\ ~ch'[4].CHEN /\ (pc'["main"] = "cfgWrite" => ~cfg'.CHEN)
                 /\ WiredInv' /\ BannerInv'
    BY <1>2, <1>3, <1>4 DEF SetupInv, QuietTx
  <1>6. cfg.chan \in {4, 5} /\ WiredInv /\ BannerInv
    BY Types DEF SetupInv, Channels
  <1>7. CASE Main_COMInit \/ Main_EnableDMA \/ Main_EnableInterrupt \/ Main_EnableIRQRequest
    <2>1. /\ ch' = ch /\ cfg' = cfg
          /\ pc'["main"] \in {"enableDMA", "enableInt", "enableIRQ", "enableClk"}
      BY <1>7, Types DEF Main_COMInit, Main_EnableDMA, Main_EnableInterrupt,
         Main_EnableIRQRequest, GoTo, dmaVars
    <2>2. BannerInv'
      BY <2>1 DEF BannerInv, SendDataPcs
    <2>3. CASE Main_COMInit
      <3>1. pc'["main"] = "enableDMA" /\ uart'.UEN
        BY <2>3, Types DEF Main_COMInit, GoTo, UartRegs
      <3>2. QED
        BY <1>2, <1>6, <2>1, <2>2, <3>1 DEF WiredInv, SendDataPcs
    <2>4. CASE Main_EnableDMA
      <3>1. pc["main"] = "enableDMA" /\ pc'["main"] = "enableInt" /\ uart'.UEN = uart.UEN /\ uart'.DMAEN
        BY <2>4, Types DEF Main_EnableDMA, At, GoTo, UartRegs
      <3>2. QED
        BY <1>2, <1>6, <2>1, <2>2, <3>1 DEF WiredInv, SendDataPcs
    <2>5. CASE Main_EnableInterrupt
      <3>1. /\ pc["main"] = "enableInt" /\ pc'["main"] = "enableIRQ" /\ uart'.UEN = uart.UEN
            /\ uart'.DMAEN = uart.DMAEN /\ uart'.IDLEIEN
        BY <2>5, Types DEF Main_EnableInterrupt, At, GoTo, UartRegs
      <3>2. QED
        BY <1>2, <1>6, <2>1, <2>2, <3>1 DEF WiredInv, SendDataPcs
    <2>6. CASE Main_EnableIRQRequest
      <3>1. pc["main"] = "enableIRQ" /\ pc'["main"] = "enableClk" /\ uart' = uart /\ irqOn'
        BY <2>6, Types DEF Main_EnableIRQRequest, At, GoTo
      <3>2. QED
        BY <1>2, <1>6, <2>1, <2>2, <3>1 DEF WiredInv, SendDataPcs
    <2>7. QED
      BY <1>7, <2>3, <2>4, <2>5, <2>6
  <1>8. CASE ConfigDma_EnableClock
    <2>1. /\ ch' = ch /\ cfg' = cfg /\ uart' = uart /\ irqOn' = irqOn
          /\ pc["main"] = "enableClk" /\ pc'["main"] = "resetCfg"
      BY <1>8, Types DEF ConfigDma_EnableClock, At, GoTo, uartVars
    <2>2. QED
      BY <1>2, <1>6, <2>1 DEF WiredInv, BannerInv, SendDataPcs
  <1>9. CASE \/ ConfigDma_ResetCHCFG \/ ConfigDma_ResetRegs \/ ConfigDma_ReadCHCFG
             \/ ConfigDma_WriteCHCFG \/ ConfigDma_Number \/ ConfigDma_PeripheralAddr
             \/ ConfigDma_Addr
    <2>1. /\ pc["main"] \in {"resetCfg", "resetRegs", "cfgRead", "cfgWrite", "cfgNumber",
                             "cfgPeriph", "cfgAddr"}
          /\ pc'["main"] \in {"resetCfg", "resetRegs", "cfgRead", "cfgWrite", "cfgNumber",
                              "cfgPeriph", "cfgAddr", "memcpy"}
          /\ uart' = uart /\ irqOn' = irqOn
      BY <1>9, Types DEF ConfigDma_ResetCHCFG, ConfigDma_ResetRegs, ConfigDma_ReadCHCFG,
         ConfigDma_WriteCHCFG, ConfigDma_Number, ConfigDma_PeripheralAddr, ConfigDma_Addr,
         At, GoTo, uartVars
    <2>2. dmaClk
      BY <1>1, <2>1 DEF ConserveInv, QuietInv, EarlyPcs
    <2>3. SUFFICES /\ ~ch'[4].CHEN /\ ~ch'[4].CIRMODE
                   /\ (pc'["main"] = "cfgWrite" => ~cfg'.CHEN)
                   /\ pc'["main"] = "cfgAddr" \/ cfg'.chan = 5 => ch'[4].CHPADDR = "DATA"
                   /\ cfg'.chan = 5 => ch'[4].CHMADDR = "uart_tx_buf"
                   /\ pc'["main"] \in SendDataPcs \cup {"loop"} => cfg'.chan = 5
                   /\ pc'["main"] \in SendDataPcs =>
                        /\ pc'["main"] = "memcpy"
                        /\ frame'["main"].len = BannerLen /\ frame'["main"].idx = 0
      <3>1. ASSUME NEW i \in Index PROVE ~(i < 0)
        BY DEF Index
      <3>2. WiredInv'
        BY <1>6, <2>1, <2>3 DEF WiredInv
      <3>3. BannerInv'
        BY <2>1, <2>3, <3>1 DEF BannerInv, SendDataPcs
      <3>4. QED
        BY <2>3, <3>2, <3>3
    <2>4. CASE ConfigDma_ResetCHCFG
      <3>1. /\ ch'[4] = IF cfg.chan = 4 THEN DMA_ResetCHCFG(ch[4]) ELSE ch[4]
            /\ pc'["main"] = "resetRegs" /\ cfg' = cfg
        BY <1>6, <2>2, <2>4, WriteFour, Types DEF ConfigDma_ResetCHCFG, GoTo, Inv, Channels
      <3>2. CASE cfg.chan = 4
        BY <3>1, <3>2, ChannelFields, Types DEF SendDataPcs
      <3>3. CASE cfg.chan = 5
        BY <1>2, <1>6, <3>1, <3>3 DEF WiredInv, SendDataPcs
      <3>4. QED
        BY <1>6, <3>2, <3>3
    <2>5. CASE ConfigDma_ResetRegs
      <3>1. /\ ch'[4] = IF cfg.chan = 4 THEN DMA_ResetRegs(ch[4]) ELSE ch[4]
            /\ pc'["main"] = "cfgRead" /\ cfg' = cfg
        BY <1>6, <2>2, <2>5, WriteFour, Types DEF ConfigDma_ResetRegs, GoTo, Inv, Channels
      <3>2. CASE cfg.chan = 4
        BY <1>2, <3>1, <3>2, ChannelFields, Types DEF SendDataPcs
      <3>3. CASE cfg.chan = 5
        BY <1>2, <1>6, <3>1, <3>3 DEF WiredInv, SendDataPcs
      <3>4. QED
        BY <1>6, <3>2, <3>3
    <2>6. CASE ConfigDma_ReadCHCFG
      <3>1. ch' = ch /\ pc'["main"] = "cfgWrite" /\ cfg'.chan = cfg.chan /\ cfg'.CHEN = ch[cfg.chan].CHEN
        BY <2>6, Types DEF ConfigDma_ReadCHCFG, GoTo, dmaVars
      <3>2. ~ch[5].CHEN
        BY <1>1 DEF ConserveInv, QuietInv
      <3>3. QED
        BY <1>2, <1>6, <3>1, <3>2 DEF WiredInv, SendDataPcs
    <2>7. CASE ConfigDma_WriteCHCFG
      <3>1. /\ pc["main"] = "cfgWrite" /\ pc'["main"] = "cfgNumber" /\ cfg' = cfg
            /\ ch'[4] = IF cfg.chan = 4
                        THEN DMA_ConfigCHCFG(ch[4], cfg.CHEN, "dst", FALSE) ELSE ch[4]
        BY <1>6, <2>2, <2>7, WriteFour, Types DEF ConfigDma_WriteCHCFG, At, GoTo, Inv, Channels
      <3>2. ~cfg.CHEN
        BY <1>1, <3>1 DEF SetupInv, QuietTx
      <3>3. CASE cfg.chan = 4
        <4>1. ch'[4] = DMA_Disable([ch[4] EXCEPT !.DIRCFG = "dst", !.CIRMODE = FALSE])
          BY <3>1, <3>2, <3>3 DEF DMA_ConfigCHCFG
        <4>2. ~ch'[4].CHEN /\ ~ch'[4].CIRMODE
          BY <4>1, Types DEF DMA_Disable, ChannelRegs
        <4>3. pc'["main"] = "cfgNumber" /\ cfg'.chan = 4
          BY <3>1, <3>3
        <4>4. QED
          BY <4>2, <4>3 DEF SendDataPcs
      <3>4. CASE cfg.chan = 5
        BY <1>2, <1>6, <3>1, <3>4 DEF WiredInv, SendDataPcs
      <3>5. QED
        BY <1>6, <3>3, <3>4
    <2>8. CASE ConfigDma_Number
      <3>1. /\ ch'[4] = IF cfg.chan = 4 THEN DMA_ConfigDataNumber(ch[4], 0) ELSE ch[4]
            /\ pc'["main"] = "cfgPeriph" /\ cfg' = cfg
        BY <1>6, <2>2, <2>8, WriteFour, Types DEF ConfigDma_Number, GoTo, Inv, Channels
      <3>2. CASE cfg.chan = 4
        BY <1>2, <3>1, <3>2, NumberFields, ConstantFacts, Types DEF SendDataPcs
      <3>3. CASE cfg.chan = 5
        BY <1>2, <1>6, <3>1, <3>3 DEF WiredInv, SendDataPcs
      <3>4. QED
        BY <1>6, <3>2, <3>3
    <2>9. CASE ConfigDma_PeripheralAddr
      <3>1. /\ ch'[4] = IF cfg.chan = 4 THEN DMA_ConfigPeripheralAddr(ch[4], "DATA") ELSE ch[4]
            /\ pc'["main"] = "cfgAddr" /\ cfg' = cfg
        BY <1>6, <2>2, <2>9, WriteFour, Types DEF ConfigDma_PeripheralAddr, GoTo, Inv, Channels
      <3>2. CASE cfg.chan = 4
        <4>1. ch'[4] = [ch[4] EXCEPT !.CHPADDR = "DATA"]
          BY <1>2, <3>1, <3>2, ConfigFields, Types
        <4>2. ~ch'[4].CHEN /\ ~ch'[4].CIRMODE /\ ch'[4].CHPADDR = "DATA"
          BY <1>2, <4>1, Types DEF ChannelRegs
        <4>3. QED
          BY <3>1, <3>2, <4>2 DEF SendDataPcs
      <3>3. CASE cfg.chan = 5
        BY <1>2, <1>6, <3>1, <3>3 DEF WiredInv, SendDataPcs
      <3>4. QED
        BY <1>6, <3>2, <3>3
    <2>10. CASE ConfigDma_Addr
      <3>1. /\ ch'[4] = IF cfg.chan = 4 THEN DMA_ConfigMemoryAddr(ch[4], "uart_tx_buf") ELSE ch[4]
            /\ pc'["main"] = IF cfg.chan = 4 THEN "resetCfg" ELSE "memcpy"
            /\ cfg'.chan = 5 /\ frame'["main"].len = BannerLen /\ frame'["main"].idx = 0
            /\ pc["main"] = "cfgAddr"
        BY <1>6, <2>2, <2>10, WriteFour, Types DEF ConfigDma_Addr, BufferOf, At, GoTo, Inv, Channels
      <3>2. CASE cfg.chan = 4
        <4>1. ch'[4] = [ch[4] EXCEPT !.CHMADDR = "uart_tx_buf"]
          BY <1>2, <3>1, <3>2, ConfigFields, Types
        <4>2. /\ ~ch'[4].CHEN /\ ~ch'[4].CIRMODE /\ ch'[4].CHMADDR = "uart_tx_buf"
              /\ ch'[4].CHPADDR = ch[4].CHPADDR
          BY <1>2, <4>1, Types DEF ChannelRegs
        <4>3. QED
          BY <1>6, <3>1, <3>2, <4>2 DEF WiredInv, SendDataPcs
      <3>3. CASE cfg.chan = 5
        BY <1>2, <1>6, <3>1, <3>3 DEF WiredInv, SendDataPcs
      <3>4. QED
        BY <1>6, <3>2, <3>3
    <2>11. QED
      BY <1>9, <2>4, <2>5, <2>6, <2>7, <2>8, <2>9, <2>10
  <1>10. QED
    BY <1>7, <1>8, <1>9 DEF Boot

(* send_data called by main with the banner. *)
LEMMA SetupSendMain ==
    ASSUME QuietBoot, Inv, ConserveInv, SetupInv, SendData("main") PROVE SetupInv'
  <1>1. pc["main"] \in SendDataPcs /\ pc["isr"] = "none" /\ pc["main"] # "loop"
    BY DEF SendData, SendData_Memcpy, SendData_Poll, SendData_Disable, SendData_Number,
       SendData_Enable, At, SendDataPcs
  <1>2. /\ wire = << >> /\ uart.TXBE /\ ~shifting /\ ~ch[4].CHEN /\ ~uart.RXBNE
        /\ line.sent = 0 /\ line.burst = 0 /\ (line.idleNext => CanIdle)
        /\ hist.handed = 0 /\ hist.lost = 0 /\ ~hist.armed /\ hist.skipped = 0
        /\ WiredInv /\ BannerInv /\ dmaClk
    BY <1>1 DEF SetupInv, QuietTx, ConserveInv, QuietInv, EarlyPcs, SendDataPcs
  <1>3. /\ wire' = wire /\ hist' = hist /\ shifting' = shifting /\ line' = line /\ irqOn' = irqOn
        /\ cfg' = cfg /\ uart'.TXBE = uart.TXBE /\ uart'.RXBNE = uart.RXBNE /\ uart'.UEN = uart.UEN
        /\ uart'.DMAEN = uart.DMAEN /\ uart'.IDLEIEN = uart.IDLEIEN
    BY Types DEF SendData, SendData_Memcpy, SendData_Poll, SendData_Disable, SendData_Number,
       SendData_Enable, AfterReadSTS, uartVars, UartRegs
  <1>4. /\ uart.UEN /\ uart.DMAEN /\ uart.IDLEIEN /\ irqOn /\ cfg.chan = 5 /\ ~ch[4].CIRMODE
        /\ ch[4].CHPADDR = "DATA" /\ ch[4].CHMADDR = "uart_tx_buf"
        /\ frame["main"].len = BannerLen
    BY <1>1, <1>2 DEF WiredInv, BannerInv, SendDataPcs
  <1>5. SUFFICES /\ pc'["main"] \in SendDataPcs \cup {"loop"}
                 /\ pc'["main"] # "loop" => ~ch'[4].CHEN
                 /\ ~ch'[4].CIRMODE /\ ch'[4].CHPADDR = "DATA" /\ ch'[4].CHMADDR = "uart_tx_buf"
                 /\ BannerInv'
    BY <1>2, <1>3, <1>4 DEF SetupInv, QuietTx, WiredInv, SendDataPcs
  <1>6. CASE SendData_Memcpy("main")
    <2>1. ch' = ch /\ pc["main"] = "memcpy"
      BY <1>6 DEF SendData_Memcpy, At, dmaVars
    <2>2. CASE /\ frame["main"].idx < frame["main"].len
               /\ uart_tx_buf' = [uart_tx_buf EXCEPT ![frame["main"].idx] = SourceByte("main", frame["main"].idx)]
               /\ frame' = [frame EXCEPT !["main"].idx = @ + 1]
               /\ UNCHANGED pc
      <3>1. frame'["main"].len = BannerLen /\ frame'["main"].idx = frame["main"].idx + 1
        BY <1>4, <2>2, Types
      <3>2. frame["main"].idx \in Nat
        BY Types
      <3>3. ASSUME NEW i \in Index, i < frame["main"].idx + 1 PROVE uart_tx_buf'[i] = BannerByte(i)
        <4>1. i \in Int
          BY DEF Index
        <4>2. CASE i = frame["main"].idx
          BY <2>2, <4>2, Types DEF SourceByte
        <4>3. CASE i # frame["main"].idx
          <5>1. i < frame["main"].idx
            BY <3>2, <3>3, <4>1, <4>3
          <5>2. uart_tx_buf[i] = BannerByte(i)
            BY <1>1, <1>2, <5>1 DEF BannerInv
          <5>3. QED
            BY <2>2, <4>3, <5>2, Types
        <4>4. QED
          BY <4>2, <4>3
      <3>4. BannerInv'
        BY <1>4, <2>1, <2>2, <3>1, <3>3 DEF BannerInv, SendDataPcs
      <3>5. QED
        BY <1>2, <1>4, <2>1, <2>2, <3>4 DEF SendDataPcs
    <2>3. CASE frame["main"].idx = frame["main"].len /\ GoTo("main", "poll") /\ UNCHANGED <<uart_tx_buf, frame>>
      <3>1. pc'["main"] = "poll"
        BY <2>3, Types DEF GoTo
      <3>2. BannerInv'
        BY <1>1, <1>2, <1>4, <2>3, <3>1 DEF BannerInv, SendDataPcs
      <3>3. QED
        BY <1>2, <1>4, <2>1, <3>1, <3>2 DEF SendDataPcs
    <2>4. QED
      BY <1>6, <2>2, <2>3 DEF SendData_Memcpy
  <1>7. CASE SendData_Poll("main")
    <2>1. /\ ch' = ch /\ frame' = frame /\ uart_tx_buf' = uart_tx_buf
          /\ pc["main"] = "poll" /\ pc'["main"] \in {"poll", "disableTx"}
      BY <1>7, Types DEF SendData_Poll, At, GoTo, dmaVars, bufVars
    <2>2. QED
      BY <1>2, <1>4, <2>1 DEF BannerInv, SendDataPcs
  <1>8. CASE SendData_Disable("main")
    <2>1. /\ ch'[4] = DMA_Disable(ch[4]) /\ frame' = frame /\ uart_tx_buf' = uart_tx_buf
          /\ pc["main"] = "disableTx" /\ pc'["main"] = "numberTx"
      BY <1>2, <1>8, WriteFour, Types DEF SendData_Disable, At, GoTo, bufVars, Inv
    <2>2. BannerInv'
      BY <1>2, <1>4, <2>1 DEF BannerInv, SendDataPcs
    <2>3. QED
      BY <1>4, <2>1, <2>2, DriverFields, Types DEF SendDataPcs
  <1>9. CASE SendData_Number("main")
    <2>1. /\ ch'[4] = DMA_ConfigDataNumber(ch[4], BannerLen) /\ frame' = frame
          /\ uart_tx_buf' = uart_tx_buf
          /\ pc["main"] = "numberTx" /\ pc'["main"] = "enableTx"
      BY <1>2, <1>4, <1>9, WriteFour, Types DEF SendData_Number, At, GoTo, bufVars, Inv
    <2>2. /\ ~ch'[4].CHEN /\ ch'[4].CHNDATA = BannerLen /\ ch'[4].CHPADDR = ch[4].CHPADDR
          /\ ch'[4].CHMADDR = ch[4].CHMADDR /\ ch'[4].CIRMODE = ch[4].CIRMODE
      BY <1>2, <2>1, NumberFields, ConstantFacts, Types
    <2>3. BannerInv'
      BY <1>2, <1>4, <2>1, <2>2 DEF BannerInv, SendDataPcs
    <2>4. QED
      BY <1>4, <2>1, <2>2, <2>3 DEF SendDataPcs
  <1>10. CASE SendData_Enable("main")
    <2>1. ch'[4] = DMA_Enable(ch[4]) /\ pc'["main"] = "loop"
      BY <1>2, <1>10, WriteFour, Types DEF SendData_Enable, GoTo, Inv
    <2>2. BannerInv'
      BY <2>1 DEF BannerInv, SendDataPcs
    <2>3. QED
      BY <1>4, <2>1, <2>2, DriverFields, Types
  <1>11. QED
    BY <1>6, <1>7, <1>8, <1>9, <1>10 DEF SendData

-----------------------------------------------------------------------------
(* Everything else happens in main's loop. *)
LoopStep ==
    \/ Isr \/ SendData("isr")
    \/ TxDma \/ RxDma \/ (\E c \in Channels : DmaStray(c))
    \/ Load \/ ShiftDone \/ HostByte \/ IdleLine

LEMMA InLoop ==
    ASSUME QuietBoot, Inv, ConserveInv, SetupInv, LoopStep
    PROVE  /\ pc["main"] = "loop" /\ pc'["main"] = "loop" /\ dmaClk /\ cfg' = cfg
           /\ irqOn /\ irqOn' = irqOn
  <1>1. pc["main"] = "loop"
    <2> SUFFICES ASSUME pc["main"] # "loop" PROVE FALSE
      OBVIOUS
    <2>1. /\ pc["isr"] = "none" /\ ~uart.IDLE /\ ~ch[4].CHEN /\ ~ch[5].CHEN /\ uart.TXBE
          /\ ~shifting
      BY DEF ConserveInv, QuietInv, SetupInv, QuietTx
    <2>2. QED
      BY <2>1 DEF LoopStep, Isr, Isr_Enter, IrqPending, Isr_ReadIntFlag, Isr_RxData,
         Isr_DisableRx, Isr_ReadNumber, Isr_NumberRx, Isr_EnableRx, SendData, SendData_Memcpy,
         SendData_Poll, SendData_Disable, SendData_Number, SendData_Enable, At, SendDataPcs,
         TxDma, RxDma, DmaStray, Load, ShiftDone, HostByte, IdleLine, RxLineMayMove, CanTransfer,
         Channels
  <1>2. pc'["main"] = pc["main"] /\ cfg' = cfg /\ irqOn' = irqOn
    BY Types DEF LoopStep, Isr, Isr_Enter, Isr_ReadIntFlag, Isr_RxData,
       Isr_DisableRx, Isr_ReadNumber, Isr_NumberRx, Isr_EnableRx, SendData, SendData_Memcpy,
       SendData_Poll, SendData_Disable, SendData_Number, SendData_Enable, GoTo,
       TxDma, RxDma, DmaStray, Load, ShiftDone, HostByte, IdleLine, uartVars, cpuVars
  <1>3. QED
    BY <1>1, <1>2 DEF ConserveInv, CountInv, SetupInv, WiredInv

(* Both channels are configured by then: no access goes to address 0. *)
LEMMA NoStray ==
    ASSUME QuietBoot, Inv, ConserveInv, SetupInv, NEW c \in Channels, DmaStray(c)
    PROVE  FALSE
  <1>1. pc["main"] = "loop"
    BY InLoop DEF LoopStep
  <1>2. ch[4].CHPADDR = "DATA" /\ ch[5].CHMADDR = "uart_rx_buf"
    BY <1>1 DEF ConserveInv, CountInv, SetupInv, WiredInv
  <1>3. QED
    BY <1>2 DEF DmaStray, NoAddr, Channels

(* The steps of the handler and of the hardware keep the configuration. *)
LEMMA SetupLoop ==
    ASSUME QuietBoot, Inv, ConserveInv, SetupInv, LoopStep PROVE SetupInv'
  <1>1. /\ pc["main"] = "loop" /\ pc'["main"] = "loop" /\ dmaClk /\ cfg' = cfg
        /\ irqOn /\ irqOn' = irqOn
    BY InLoop
  <1>2. /\ uart.UEN /\ uart.DMAEN /\ uart.IDLEIEN /\ cfg.chan = 5 /\ ~ch[4].CIRMODE
        /\ ch[4].CHPADDR = "DATA" /\ ch[4].CHMADDR = "uart_tx_buf"
    BY <1>1 DEF SetupInv, WiredInv
  <1>3. SUFFICES /\ uart'.UEN = uart.UEN /\ uart'.DMAEN = uart.DMAEN /\ uart'.IDLEIEN = uart.IDLEIEN
                 /\ ch'[4].CIRMODE = ch[4].CIRMODE /\ ch'[4].CHPADDR = ch[4].CHPADDR
                 /\ ch'[4].CHMADDR = ch[4].CHMADDR
    BY <1>1, <1>2 DEF SetupInv, QuietTx, WiredInv, BannerInv, SendDataPcs
  <1>4. uart'.UEN = uart.UEN /\ uart'.DMAEN = uart.DMAEN /\ uart'.IDLEIEN = uart.IDLEIEN
    BY NoStray, Types DEF LoopStep, Isr, Isr_Enter, Isr_ReadIntFlag, Isr_RxData,
       Isr_DisableRx, Isr_ReadNumber, Isr_NumberRx, Isr_EnableRx, SendData, SendData_Memcpy,
       SendData_Poll, SendData_Disable, SendData_Number, SendData_Enable,
       TxDma, RxDma, Load, ShiftDone, HostByte, IdleLine, uartVars, AfterReadSTS, AfterReadDATA,
       UartRegs
  <1>5. CASE TxDma
    <2>1. ch'[4] = Transfer(ch[4])
      BY <1>5, Types DEF TxDma
    <2>2. QED
      BY <1>2, <1>4, <2>1, TransferFields, Types
  <1>6. CASE SendData_Disable("isr") \/ SendData_Enable("isr")
    <2>1. ch'[4] = DMA_Disable(ch[4]) \/ ch'[4] = DMA_Enable(ch[4])
      BY <1>1, <1>6, WriteFour, Types DEF SendData_Disable, SendData_Enable, Inv
    <2>2. QED
      BY <1>4, <2>1, DriverFields, Types
  <1>7. CASE SendData_Number("isr")
    <2>1. ch'[4] = DMA_ConfigDataNumber(ch[4], frame["isr"].len)
      BY <1>1, <1>7, WriteFour, Types DEF SendData_Number, Inv
    <2>2. QED
      BY <1>4, <2>1, Types DEF DMA_ConfigDataNumber, ChannelRegs
  <1>8. CASE ~(TxDma \/ SendData_Disable("isr") \/ SendData_Enable("isr") \/ SendData_Number("isr"))
    <2>1. ch'[4] = ch[4]
      BY <1>8, NoStray, Types DEF LoopStep, Isr, Isr_Enter, Isr_ReadIntFlag, Isr_RxData,
         Isr_DisableRx, Isr_ReadNumber, Isr_NumberRx, Isr_EnableRx, SendData, SendData_Memcpy,
         SendData_Poll, RxDma, Load, ShiftDone, HostByte, IdleLine, dmaVars, WriteChannel
    <2>2. QED
      BY <1>4, <2>1
  <1>9. QED
    BY <1>5, <1>6, <1>7, <1>8

(* A step of any actor. *)
LEMMA SetupNext ==
    ASSUME QuietBoot, Inv, ConserveInv, SetupInv, [Next]_vars PROVE SetupInv'
  <1>1. CASE UNCHANGED vars
    BY <1>1 DEF vars, SetupInv, QuietTx, WiredInv, BannerInv
  <1>2. CASE Next
    BY <1>2, SetupBoot, SetupSendMain, SetupLoop DEF Next, LoopStep, Actors
  <1>3. QED
    BY <1>1, <1>2

-----------------------------------------------------------------------------
(* What each step of the handler and of the hardware does, register by     *)
(* register; the four invariants below are proved from these effects.      *)

TxSame == ch'[4] = ch[4] /\ uart'.TXBE = uart.TXBE /\ UNCHANGED <<tdr, shifting, wire>>
RxSame ==
    /\ ch'[5] = ch[5] /\ uart'.RXBNE = uart.RXBNE /\ uart'.IDLE = uart.IDLE
    /\ UNCHANGED <<rdr, uart_rx_buf, line>>

Base == QuietBoot /\ Inv /\ RxOffInv /\ ConserveInv /\ SetupInv

(* Every loop step has these facts at hand. *)
LEMMA LoopFacts ==
    ASSUME Base, LoopStep
    PROVE  /\ pc["main"] = "loop" /\ pc'["main"] = "loop" /\ dmaClk /\ irqOn
           /\ uart.UEN /\ uart.DMAEN /\ uart.IDLEIEN /\ ~ch[4].CIRMODE /\ ~ch[5].CIRMODE
           /\ ch[4].CHPADDR = "DATA" /\ ch[4].CHMADDR = "uart_tx_buf"
           /\ ch[5].CHMADDR = "uart_rx_buf" /\ ch[5].CHNDATA + hist.stored = MAX_LEN
  BY InLoop DEF Base, ConserveInv, CountInv, SetupInv, WiredInv

LEMMA EnterEffect ==
    ASSUME Base, Isr_Enter
    PROVE  /\ pc["isr"] = "none" /\ pc'["isr"] = "readFlag" /\ uart.IDLE
           /\ TxSame /\ RxSame /\ UNCHANGED <<frame, hist, uart_tx_buf>>
  <1>1. hist' = hist
    BY LoopFacts DEF LoopStep, Isr, Isr_Enter, ConfigPcs
  <1>2. QED
    BY <1>1, Types DEF Base, Isr_Enter, IrqPending, GoTo, TxSame, RxSame, dmaVars, uartVars, bufVars

LEMMA ReadIntFlagEffect ==
    ASSUME Base, Isr_ReadIntFlag
    PROVE  /\ pc["isr"] = "readFlag" /\ pc'["isr"] = (IF uart.IDLE THEN "rxData" ELSE "none")
           /\ uart'.stsRead = uart.IDLE
           /\ TxSame /\ RxSame /\ UNCHANGED <<frame, hist, uart_tx_buf>>
  BY Types, LoopFacts DEF Base, LoopStep, Isr, Isr_ReadIntFlag, At, GoTo, AfterReadSTS, UartRegs,
     TxSame, RxSame, dmaVars, bufVars

LEMMA RxDataEffect ==
    ASSUME Base, Isr_RxData
    PROVE  /\ pc["isr"] = "rxData" /\ pc'["isr"] = "disableRx"
           /\ ~uart'.RXBNE /\ (uart.stsRead => ~uart'.IDLE)
           /\ ~uart.RXBNE => hist' = hist
           /\ hist'.armed = hist.armed /\ hist'.stored = hist.stored
           /\ hist'.handed = hist.handed /\ hist'.skipped = hist.skipped
           /\ TxSame /\ ch'[5] = ch[5]
           /\ UNCHANGED <<rdr, uart_rx_buf, line, frame, uart_tx_buf>>
  BY Types DEF Base, Isr_RxData, At, GoTo, AfterReadDATA, UartRegs, History, TxSame, dmaVars,
     bufVars

LEMMA DisableRxEffect ==
    ASSUME Base, Isr_DisableRx
    PROVE  /\ pc["isr"] = "disableRx" /\ pc'["isr"] = "readNumber"
           /\ ~ch'[5].CHEN
           /\ TxSame /\ UNCHANGED <<uart, rdr, uart_rx_buf, line, frame, hist, uart_tx_buf>>
  <1>1. ch'[5] = DMA_Disable(ch[5]) /\ ch'[4] = ch[4]
    BY LoopFacts, WriteFive, WriteFour, Types DEF Base, LoopStep, Isr, Isr_DisableRx, Inv
  <1>2. QED
    BY <1>1, DriverFields, Types DEF Base, Isr_DisableRx, At, GoTo, TxSame, uartVars, bufVars

LEMMA ReadNumberEffect ==
    ASSUME Base, Isr_ReadNumber
    PROVE  /\ pc["isr"] = "readNumber" /\ pc'["isr"] = "numberRx"
           /\ frame'["isr"].len = hist.stored /\ frame'["isr"].idx = 0
           /\ TxSame /\ RxSame /\ UNCHANGED <<uart, hist, uart_tx_buf>>
  <1>1. pc["isr"] = "readNumber" /\ pc'["isr"] = "numberRx" /\ TxSame /\ RxSame
        /\ UNCHANGED <<uart, hist, uart_tx_buf>>
    BY Types DEF Base, Isr_ReadNumber, At, GoTo, TxSame, RxSame, dmaVars, uartVars, bufVars
  <1>2. frame'["isr"].len = hist.stored
    <2>1. ConserveInv'
      BY ConserveNext DEF Base, Next, Isr
    <2>2. QED
      BY <1>1, <2>1 DEF ConserveInv, CountInv
  <1>3. frame'["isr"].idx = 0
    BY Types DEF Base, Isr_ReadNumber
  <1>4. QED
    BY <1>1, <1>2, <1>3

LEMMA NumberRxEffect ==
    ASSUME Base, Isr_NumberRx
    PROVE  /\ pc["isr"] = "numberRx" /\ pc'["isr"] = "memcpy"
           /\ frame["isr"].len = hist.stored /\ ~ch'[5].CHEN
           /\ hist'.stored = 0 /\ hist'.handed = hist.handed + hist.stored
           /\ hist'.armed = hist.armed /\ hist'.lost = hist.lost /\ hist'.skipped = hist.skipped
           /\ TxSame /\ UNCHANGED <<uart, rdr, uart_rx_buf, line, frame, uart_tx_buf>>
  <1>1. /\ pc["isr"] = "numberRx" /\ pc'["isr"] = "memcpy"
        /\ UNCHANGED <<uart, rdr, tdr, shifting, wire, uart_rx_buf, line, frame, uart_tx_buf>>
    BY Types DEF Base, Isr_NumberRx, At, GoTo, uartVars, bufVars
  <1>2. ch'[5] = DMA_ConfigDataNumber(ch[5], MAX_LEN) /\ ch'[4] = ch[4]
    BY LoopFacts, WriteFive, WriteFour, Types DEF Base, LoopStep, Isr, Isr_NumberRx, Inv
  <1>3. ~ch[5].CHEN /\ frame["isr"].len = hist.stored
    BY <1>1 DEF Base, RxOffInv, CopyPcs, ConserveInv, CountInv
  <1>4. ~ch'[5].CHEN
    BY <1>2, <1>3, NumberFields, ConstantFacts, Types DEF Base
  <1>5. hist' = [hist EXCEPT !.handed = @ + frame["isr"].len, !.stored = 0]
    BY LoopFacts DEF LoopStep, Isr, Isr_NumberRx, NoAddr
  <1>6. QED
    BY <1>1, <1>2, <1>3, <1>4, <1>5, Types DEF Base, History, TxSame

LEMMA EnableRxEffect ==
    ASSUME Base, Isr_EnableRx
    PROVE  /\ pc["isr"] = "enableRx" /\ pc'["isr"] = "none"
           /\ ch'[5].CHEN /\ ch'[5].pos = 0
           /\ hist'.armed /\ hist'.stored = hist.stored /\ hist'.handed = hist.handed
           /\ hist'.lost = hist.lost
           /\ hist'.skipped = IF hist.armed THEN hist.skipped ELSE hist.lost
           /\ TxSame /\ UNCHANGED <<uart, rdr, uart_rx_buf, line, frame, uart_tx_buf>>
  <1>1. /\ pc["isr"] = "enableRx" /\ pc'["isr"] = "none"
        /\ UNCHANGED <<uart, rdr, tdr, shifting, wire, uart_rx_buf, line, frame, uart_tx_buf>>
    BY Types DEF Base, Isr_EnableRx, At, GoTo, uartVars, bufVars
  <1>2. ch'[5] = DMA_Enable(ch[5]) /\ ch'[4] = ch[4]
    BY LoopFacts, WriteFive, WriteFour, Types DEF Base, LoopStep, Isr, Isr_EnableRx, Inv
  <1>3. ~ch[5].CHEN
    BY <1>1 DEF Base, RxOffInv, CopyPcs
  <1>4. ch'[5].CHEN /\ ch'[5].pos = 0
    BY <1>2, <1>3, DriverFields, Types DEF Base
  <1>5. hist' = IF hist.armed THEN hist ELSE [hist EXCEPT !.armed = TRUE, !.skipped = hist.lost]
    BY LoopFacts DEF LoopStep, Isr, Isr_EnableRx, NoAddr
  <1>6. QED
    BY <1>1, <1>2, <1>4, <1>5, Types DEF Base, History, TxSame

(* send_data called by the handler. *)
LEMMA MemcpyEffect ==
    ASSUME Base, SendData_Memcpy("isr")
    PROVE  /\ pc["isr"] = "memcpy" /\ TxSame /\ RxSame /\ UNCHANGED <<uart, hist>>
           /\ \/ /\ frame["isr"].idx < frame["isr"].len /\ pc'["isr"] = "memcpy"
                 /\ frame'["isr"].len = frame["isr"].len
                 /\ frame'["isr"].idx = frame["isr"].idx + 1
                 /\ \A i \in Index : uart_tx_buf'[i] = IF i = frame["isr"].idx THEN uart_rx_buf[i]
                                                     ELSE uart_tx_buf[i]
              \/ /\ frame["isr"].idx = frame["isr"].len /\ pc'["isr"] = "poll"
                 /\ UNCHANGED <<frame, uart_tx_buf>>
  <1>1. pc["isr"] = "memcpy" /\ TxSame /\ RxSame /\ UNCHANGED <<uart, hist>>
    BY DEF SendData_Memcpy, At, TxSame, RxSame, dmaVars, uartVars
  <1>2. CASE frame["isr"].idx < frame["isr"].len
    <2>1. /\ uart_tx_buf' = [uart_tx_buf EXCEPT ![frame["isr"].idx] = uart_rx_buf[frame["isr"].idx]]
          /\ frame' = [frame EXCEPT !["isr"].idx = @ + 1] /\ pc' = pc
      BY <1>2, Types DEF Base, SendData_Memcpy, SourceByte
    <2>2. /\ frame'["isr"].len = frame["isr"].len
          /\ frame'["isr"].idx = frame["isr"].idx + 1
      BY <2>1, Types DEF Base
    <2>3. QED
      BY <1>1, <1>2, <2>1, <2>2, Types DEF Base
  <1>3. CASE ~(frame["isr"].idx < frame["isr"].len)
    BY <1>1, <1>3, Types DEF Base, SendData_Memcpy, GoTo
  <1>4. QED
    BY <1>2, <1>3

LEMMA PollEffect ==
    ASSUME Base, SendData_Poll("isr")
    PROVE  /\ pc["isr"] = "poll" /\ pc'["isr"] \in {"poll", "disableTx"}
           /\ TxSame /\ RxSame /\ UNCHANGED <<frame, hist, uart_tx_buf>>
  BY Types DEF Base, SendData_Poll, At, GoTo, AfterReadSTS, UartRegs, TxSame, RxSame, dmaVars,
     bufVars

LEMMA DisableTxEffect ==
    ASSUME Base, SendData_Disable("isr")
    PROVE  /\ pc["isr"] = "disableTx" /\ pc'["isr"] = "numberTx" /\ ~ch'[4].CHEN
           /\ RxSame /\ UNCHANGED <<uart, tdr, shifting, wire, frame, hist, uart_tx_buf>>
  <1>1. ch'[4] = DMA_Disable(ch[4]) /\ ch'[5] = ch[5]
    BY LoopFacts, WriteFive, WriteFour, Types DEF Base, LoopStep, SendData, SendData_Disable, Inv
  <1>2. QED
    BY <1>1, DriverFields, Types DEF Base, SendData_Disable, At, GoTo, RxSame, uartVars, bufVars

LEMMA NumberTxEffect ==
    ASSUME Base, SendData_Number("isr")
    PROVE  /\ pc["isr"] = "numberTx" /\ pc'["isr"] = "enableTx"
           /\ ~ch[4].CHEN => ~ch'[4].CHEN /\ ch'[4].CHNDATA = frame["isr"].len
           /\ ch[4].CHEN => ch'[4] = ch[4]
           /\ RxSame /\ UNCHANGED <<uart, tdr, shifting, wire, frame, hist, uart_tx_buf>>
  <1>1. ch'[4] = DMA_ConfigDataNumber(ch[4], frame["isr"].len) /\ ch'[5] = ch[5]
    BY LoopFacts, WriteFive, WriteFour, Types DEF Base, LoopStep, SendData, SendData_Number, Inv
  <1>2. ~ch[4].CHEN => ~ch'[4].CHEN /\ ch'[4].CHNDATA = frame["isr"].len
    BY <1>1, NumberFields, Types DEF Base
  <1>3. ch[4].CHEN => ch'[4] = ch[4]
    BY <1>1 DEF DMA_ConfigDataNumber
  <1>4. QED
    BY <1>1, <1>2, <1>3, Types DEF Base, SendData_Number, At, GoTo, RxSame, uartVars, bufVars

LEMMA EnableTxEffect ==
    ASSUME Base, SendData_Enable("isr")
    PROVE  /\ pc["isr"] = "enableTx" /\ pc'["isr"] = "enableRx"
           /\ ch'[4].CHEN /\ ch'[4].CHNDATA = ch[4].CHNDATA /\ (~ch[4].CHEN => ch'[4].pos = 0)
           /\ RxSame /\ UNCHANGED <<uart, tdr, shifting, wire, frame, hist, uart_tx_buf>>
  <1>1. ch'[4] = DMA_Enable(ch[4]) /\ ch'[5] = ch[5]
    BY LoopFacts, WriteFive, WriteFour, Types DEF Base, LoopStep, SendData, SendData_Enable, Inv
  <1>2. QED
    BY <1>1, DriverFields, Types DEF Base, SendData_Enable, At, GoTo, RxSame, uartVars, bufVars

(* The hardware and the host. *)
LEMMA TxDmaEffect ==
    ASSUME Base, TxDma
    PROVE  /\ ch[4].CHEN /\ ch[4].CHNDATA > 0 /\ uart.TXBE /\ ~uart'.TXBE
           /\ ch[4].pos \in Index
           /\ ch'[4].CHEN /\ ch'[4].CHNDATA = ch[4].CHNDATA - 1 /\ ch'[4].pos = ch[4].pos + 1
           /\ tdr' = uart_tx_buf[ch[4].pos]
           /\ uart'.stsRead = uart.stsRead
           /\ RxSame /\ UNCHANGED <<pc, frame, shifting, wire, hist, uart_tx_buf>>
  <1>1. ch'[4] = Transfer(ch[4]) /\ ch'[5] = ch[5] /\ ~ch[4].CIRMODE /\ ch[4].CHMADDR # NoAddr
        /\ ch[4].CHEN /\ ch[4].CHNDATA > 0
    BY LoopFacts, Types DEF Base, LoopStep, TxDma, NoAddr, CanTransfer
  <1>2. ch[4].pos \in Index
    BY <1>1, ChannelFacts, TransferOK, ConstantFacts, Types DEF Base, Inv, Index, CanTransfer
  <1>3. ch'[4].CHEN /\ ch'[4].CHNDATA = ch[4].CHNDATA - 1 /\ ch'[4].pos = ch[4].pos + 1
    BY <1>1, TransferFields, Types DEF Base
  <1>4. QED
    BY <1>1, <1>2, <1>3, Types DEF Base, TxDma, CanTransfer, DmaRequest, UartRegs, RxSame, cpuVars,
       bufVars

LEMMA RxDmaEffect ==
    ASSUME Base, RxDma
    PROVE  /\ ch[5].CHEN /\ ch[5].CHNDATA > 0 /\ uart.RXBNE /\ ~uart'.RXBNE
           /\ ch[5].pos \in Index
           /\ ch'[5].CHEN /\ ch'[5].pos = ch[5].pos + 1
           /\ ~uart.IDLE => ~uart'.IDLE
           /\ hist'.stored = hist.stored + 1 /\ hist'.handed = hist.handed
           /\ hist'.armed = hist.armed /\ hist'.lost = hist.lost /\ hist'.skipped = hist.skipped
           /\ \A i \in Index : uart_rx_buf'[i] = IF i = ch[5].pos THEN rdr ELSE uart_rx_buf[i]
           /\ TxSame /\ UNCHANGED <<pc, frame, rdr, line, uart_tx_buf>>
  <1>1. ch'[5] = Transfer(ch[5]) /\ ch'[4] = ch[4] /\ ~ch[5].CIRMODE
        /\ ch[5].CHEN /\ ch[5].CHNDATA > 0
    BY LoopFacts, Types DEF Base, LoopStep, RxDma, CanTransfer
  <1>2. ch[5].pos \in Index
    BY <1>1, ChannelFacts, TransferOK, ConstantFacts, Types DEF Base, Inv, Index, CanTransfer
  <1>3. ch'[5].CHEN /\ ch'[5].pos = ch[5].pos + 1
    BY <1>1, TransferFields, Types DEF Base
  <1>4. /\ uart.RXBNE /\ ~uart'.RXBNE /\ (~uart.IDLE => ~uart'.IDLE) /\ uart'.TXBE = uart.TXBE
    BY Types DEF Base, RxDma, DmaRequest, AfterReadDATA, UartRegs
  <1>5. /\ hist'.stored = hist.stored + 1 /\ hist'.handed = hist.handed
        /\ hist'.armed = hist.armed /\ hist'.lost = hist.lost /\ hist'.skipped = hist.skipped
    BY Types DEF Base, RxDma, History
  <1>6. \A i \in Index : uart_rx_buf'[i] = IF i = ch[5].pos THEN rdr ELSE uart_rx_buf[i]
    BY <1>2, Types DEF Base, RxDma
  <1>7. QED
    BY <1>1, <1>2, <1>3, <1>4, <1>5, <1>6 DEF RxDma, TxSame, cpuVars

LEMMA LoadEffect ==
    ASSUME Base, Load
    PROVE  /\ ~uart.TXBE /\ ~shifting /\ uart'.TXBE /\ shifting'
           /\ wire' = Append(wire, tdr)
           /\ uart'.RXBNE = uart.RXBNE /\ uart'.IDLE = uart.IDLE /\ uart'.stsRead = uart.stsRead
           /\ line'.sent = line.sent /\ line'.burst = line.burst /\ line'.idleNext = line.idleNext
           /\ UNCHANGED <<pc, frame, ch, rdr, tdr, uart_rx_buf, uart_tx_buf, hist>>
  BY Types DEF Base, Load, UartRegs, LineState, cpuVars, dmaVars, bufVars

LEMMA ShiftDoneEffect ==
    ASSUME Base, ShiftDone
    PROVE  /\ shifting /\ ~shifting'
           /\ UNCHANGED <<pc, frame, ch, uart, rdr, tdr, uart_rx_buf, uart_tx_buf, line, wire, hist>>
  BY DEF ShiftDone, cpuVars, dmaVars, bufVars

(* With a CPU faster than the line, a byte the DMA can take is taken before *)
(* the line moves.                                                          *)
LEMMA HostByteEffect ==
    ASSUME Base, FastCpu, PoliteHost, HostByte
    PROVE  /\ uart.RXBNE => ~ch[5].CHEN \/ ~(ch[5].CHNDATA > 0)
           /\ line.sent < MaxBytes /\ line.burst < MaxMsg
           /\ line.burst = 0 =>
                /\ uart.TXBE /\ ~shifting /\ ~CanTransfer(ch[4])
                /\ pc["isr"] = "none" /\ ~uart.IDLE /\ ~line.idleNext
           /\ line'.sent = line.sent + 1 /\ line'.burst = line.burst + 1 /\ line'.idleNext
           /\ uart'.RXBNE /\ uart'.IDLE = uart.IDLE
           /\ uart.RXBNE => rdr' = rdr /\ hist'.lost = hist.lost + 1
           /\ ~uart.RXBNE => rdr' = line.sent + 1 /\ hist'.lost = hist.lost
           /\ hist'.armed = hist.armed /\ hist'.stored = hist.stored
           /\ hist'.handed = hist.handed /\ hist'.skipped = hist.skipped
           /\ TxSame /\ UNCHANGED <<pc, frame, ch, uart_rx_buf, uart_tx_buf>>
  <1>1. uart.RXBNE => ~ch[5].CHEN \/ ~(ch[5].CHNDATA > 0)
    BY LoopFacts, Types DEF Base, LoopStep, HostByte, RxLineMayMove, LineMayMove, DmaPending,
       CanTransfer, DmaRequest, Channels
  <1>2. line.burst = 0 =>
                /\ uart.TXBE /\ ~shifting /\ ~CanTransfer(ch[4])
                /\ pc["isr"] = "none" /\ ~uart.IDLE /\ ~line.idleNext
    BY DEF HostByte, Silent, At
  <1>3. /\ line.sent < MaxBytes /\ line.burst < MaxMsg
        /\ line'.sent = line.sent + 1 /\ line'.burst = line.burst + 1 /\ line'.idleNext
        /\ UNCHANGED <<pc, frame, ch, uart_rx_buf, uart_tx_buf>>
    BY DEF HostByte, cpuVars, dmaVars, bufVars
  <1>4. /\ uart'.RXBNE /\ uart'.IDLE = uart.IDLE /\ TxSame
        /\ uart.RXBNE => rdr' = rdr
        /\ ~uart.RXBNE => rdr' = line.sent + 1
    BY Types DEF Base, HostByte, UartRegs, TxSame, dmaVars
  <1>5. /\ uart.RXBNE => hist'.lost = hist.lost + 1
        /\ ~uart.RXBNE => hist'.lost = hist.lost
        /\ hist'.armed = hist.armed /\ hist'.stored = hist.stored
        /\ hist'.handed = hist.handed /\ hist'.skipped = hist.skipped
    BY Types DEF Base, HostByte, History
  <1>6. QED
    BY <1>1, <1>2, <1>3, <1>4, <1>5

LEMMA IdleLineEffect ==
    ASSUME Base, FastCpu, IdleLine
    PROVE  /\ uart.RXBNE => ~ch[5].CHEN \/ ~(ch[5].CHNDATA > 0)
           /\ line.idleNext /\ ~line'.idleNext /\ line'.burst = 0 /\ line'.sent = line.sent
           /\ uart'.IDLE /\ uart'.RXBNE = uart.RXBNE
           /\ TxSame /\ UNCHANGED <<pc, frame, ch, rdr, uart_rx_buf, uart_tx_buf, hist>>
  <1>1. uart.RXBNE => ~ch[5].CHEN \/ ~(ch[5].CHNDATA > 0)
    BY LoopFacts, Types DEF Base, LoopStep, IdleLine, RxLineMayMove, LineMayMove, DmaPending,
       CanTransfer, DmaRequest, Channels
  <1>2. QED
    BY <1>1, Types DEF Base, IdleLine, UartRegs, LineState, TxSame, cpuVars, dmaVars, bufVars

-----------------------------------------------------------------------------
(* LineInv and the counts of RxInv. *)

TxQuiet == uart.TXBE /\ ~shifting /\ ~CanTransfer(ch[4])

ServedPcs == {"disableRx", "readNumber", "numberRx", "enableRx"} \cup SendDataPcs

(* The handler runs after the pause that ends a message, and until the next *)
(* message it has the line for itself; only an idle line of before the      *)
(* first message can call it while the board is still sending.              *)
LineInv ==
    /\ pc["isr"] # "none" \/ uart.IDLE => line.burst = 0 /\ ~line.idleNext
    /\ line.burst > 0 => line.idleNext /\ TxQuiet
    /\ line.idleNext /\ line.burst = 0 => ~hist.armed /\ line.sent = 0 /\ CanIdle
    /\ pc["isr"] \notin {"none", "enableRx"} \/ uart.IDLE => TxQuiet \/ (~hist.armed /\ CanIdle)
    /\ pc["isr"] \in {"readFlag", "rxData"} => uart.IDLE
    /\ pc["isr"] = "rxData" => uart.stsRead
    /\ pc["isr"] \in ServedPcs => ~uart.IDLE /\ ~uart.RXBNE

(* Before channel 5 is armed nothing is stored or handed on; afterwards     *)
(* what it has stored and what is in DATA is the current message.           *)
RxCounts ==
    /\ ~hist.armed =>
         /\ ~ch[5].CHEN /\ hist.stored = 0 /\ hist.handed = 0 /\ hist.skipped = 0
         /\ pc["isr"] \in SendDataPcs => frame["isr"].len = 0
    /\ hist.armed =>
         /\ hist.lost = hist.skipped
         /\ pc["isr"] \in {"none", "readFlag", "rxData", "disableRx"}
              => ch[5].CHEN /\ ch[5].pos = hist.stored
         /\ pc["isr"] = "none" /\ ~uart.IDLE
              => hist.stored + (IF uart.RXBNE THEN 1 ELSE 0) = line.burst
         /\ pc["isr"] # "none" \/ uart.IDLE => ~uart.RXBNE
         /\ uart.RXBNE => rdr = line.sent
    /\ pc["isr"] \in SendDataPcs \cup {"enableRx"} => hist.stored = 0

MessageInv == LineInv /\ RxCounts

LEMMA MessageInit == Init => MessageInv
  BY DEF Init, MessageInv, LineInv, RxCounts, ServedPcs, SendDataPcs, Actors, Channels,
     ResetChannel

(* Until main is in its loop there is no message. *)
LEMMA MainEffect ==
    ASSUME Base, Boot \/ SendData("main")
    PROVE  /\ pc["main"] # "loop" /\ pc["isr"] = "none" /\ pc'["isr"] = "none"
           /\ ~uart'.IDLE /\ ~uart'.RXBNE /\ uart'.TXBE /\ ~shifting' /\ wire' = << >>
           /\ line'.burst = 0 /\ line'.sent = 0 /\ (line'.idleNext => CanIdle)
           /\ ~hist'.armed /\ hist'.stored = 0 /\ hist'.handed = 0 /\ hist'.skipped = 0
           /\ hist'.lost = 0 /\ hist' = hist /\ ~ch'[5].CHEN
           /\ UNCHANGED uart_rx_buf
  <1>1. pc["main"] # "loop" /\ pc["isr"] = "none" /\ pc'["isr"] = "none"
    BY Types DEF Base, Boot, Main_COMInit, Main_EnableDMA, Main_EnableInterrupt,
       Main_EnableIRQRequest, ConfigDma_EnableClock, ConfigDma_ResetCHCFG, ConfigDma_ResetRegs,
       ConfigDma_ReadCHCFG, ConfigDma_WriteCHCFG, ConfigDma_Number, ConfigDma_PeripheralAddr,
       ConfigDma_Addr, SendData, SendData_Memcpy, SendData_Poll, SendData_Disable,
       SendData_Number, SendData_Enable, At, GoTo
  <1>2. /\ ~uart.IDLE /\ ~uart.RXBNE /\ uart.TXBE /\ ~shifting /\ wire = << >>
        /\ line.burst = 0 /\ line.sent = 0 /\ (line.idleNext => CanIdle)
        /\ ~hist.armed /\ hist.stored = 0 /\ hist.handed = 0 /\ hist.skipped = 0 /\ hist.lost = 0
        /\ ~ch[5].CHEN
    BY <1>1 DEF Base, ConserveInv, QuietInv, SetupInv, QuietTx
  <1>3. CASE Boot
    <2>1. ConserveInv' /\ SetupInv' /\ pc'["main"] # "loop"
      BY <1>3, SetupBoot, ConserveBoot, Types DEF Base, Boot, Main_COMInit, Main_EnableDMA,
         Main_EnableInterrupt, Main_EnableIRQRequest, ConfigDma_EnableClock,
         ConfigDma_ResetCHCFG, ConfigDma_ResetRegs, ConfigDma_ReadCHCFG, ConfigDma_WriteCHCFG,
         ConfigDma_Number, ConfigDma_PeripheralAddr, ConfigDma_Addr, GoTo
    <2>2. hist' = hist /\ uart_rx_buf' = uart_rx_buf
      BY <1>3 DEF Boot, Main_COMInit, Main_EnableDMA,
         Main_EnableInterrupt, Main_EnableIRQRequest, ConfigDma_EnableClock,
         ConfigDma_ResetCHCFG, ConfigDma_ResetRegs, ConfigDma_ReadCHCFG, ConfigDma_WriteCHCFG,
         ConfigDma_Number, ConfigDma_PeripheralAddr, ConfigDma_Addr, bufVars
    <2>3. QED
      BY <1>1, <1>2, <2>1, <2>2 DEF ConserveInv, QuietInv, SetupInv, QuietTx
  <1>4. CASE SendData("main")
    <2>1. /\ line' = line /\ hist' = hist /\ ch'[5] = ch[5] /\ shifting' = shifting /\ wire' = wire
          /\ uart'.IDLE = uart.IDLE /\ uart'.RXBNE = uart.RXBNE /\ uart'.TXBE = uart.TXBE
          /\ uart_rx_buf' = uart_rx_buf
      BY <1>4, Types DEF Base, SendData, SendData_Memcpy, SendData_Poll, SendData_Disable,
         SendData_Number, SendData_Enable, WriteChannel, dmaVars, uartVars, bufVars,
         AfterReadSTS, UartRegs
    <2>2. QED
      BY <1>1, <1>2, <2>1
  <1>5. QED
    BY <1>3, <1>4

LEMMA MessageMain ==
    ASSUME Base, MessageInv, Boot \/ SendData("main") PROVE MessageInv'
  BY MainEffect DEF MessageInv, LineInv, RxCounts, ServedPcs, SendDataPcs

(* The handler, outside send_data. *)
LEMMA MessageIsr == ASSUME Base, MessageInv, Isr PROVE MessageInv'
  <1>0. hist.stored \in Nat /\ line.burst \in Nat /\ hist.handed \in Nat
    BY Types DEF Base, History, LineState
  <1>1. CASE Isr_Enter
    <2>1. LineInv'
      BY <1>1, EnterEffect DEF MessageInv, LineInv, TxQuiet, TxSame, RxSame, ServedPcs, SendDataPcs
    <2>2. RxCounts'
      BY <1>1, EnterEffect DEF MessageInv, RxCounts, RxSame, SendDataPcs
    <2>3. QED BY <2>1, <2>2 DEF MessageInv
  <1>2. CASE Isr_ReadIntFlag
    <2>1. LineInv'
      BY <1>2, ReadIntFlagEffect DEF MessageInv, LineInv, TxQuiet, TxSame, RxSame, ServedPcs, SendDataPcs
    <2>2. RxCounts'
      BY <1>2, ReadIntFlagEffect DEF MessageInv, LineInv, RxCounts, RxSame, SendDataPcs
    <2>3. QED BY <2>1, <2>2 DEF MessageInv
  <1>3. CASE Isr_RxData
    <2>1. LineInv'
      BY <1>3, RxDataEffect DEF MessageInv, LineInv, TxQuiet, TxSame, ServedPcs, SendDataPcs
    <2>2. RxCounts'
      BY <1>3, RxDataEffect DEF MessageInv, LineInv, RxCounts, SendDataPcs
    <2>3. QED BY <2>1, <2>2 DEF MessageInv
  <1>4. CASE Isr_DisableRx
    <2>1. LineInv'
      BY <1>4, DisableRxEffect DEF MessageInv, LineInv, TxQuiet, TxSame, ServedPcs, SendDataPcs
    <2>2. RxCounts'
      BY <1>4, DisableRxEffect DEF MessageInv, LineInv, RxCounts, SendDataPcs
    <2>3. QED BY <2>1, <2>2 DEF MessageInv
  <1>5. CASE Isr_ReadNumber
    <2>1. LineInv'
      BY <1>5, ReadNumberEffect DEF MessageInv, LineInv, TxQuiet, TxSame, RxSame, ServedPcs, SendDataPcs
    <2>2. RxCounts'
      BY <1>5, ReadNumberEffect DEF MessageInv, LineInv, RxCounts, RxSame, SendDataPcs
    <2>3. QED BY <2>1, <2>2 DEF MessageInv
  <1>6. CASE Isr_NumberRx
    <2>1. LineInv'
      BY <1>6, NumberRxEffect DEF MessageInv, LineInv, TxQuiet, TxSame, ServedPcs, SendDataPcs
    <2>2. RxCounts'
      BY <1>0, <1>6, NumberRxEffect DEF MessageInv, LineInv, RxCounts, SendDataPcs
    <2>3. QED BY <2>1, <2>2 DEF MessageInv
  <1>7. CASE Isr_EnableRx
    <2>1. LineInv'
      BY <1>7, EnableRxEffect DEF MessageInv, LineInv, TxQuiet, TxSame, ServedPcs, SendDataPcs
    <2>2. RxCounts'
      BY <1>0, <1>7, EnableRxEffect DEF MessageInv, LineInv, RxCounts, ServedPcs, SendDataPcs
    <2>3. QED BY <2>1, <2>2 DEF MessageInv
  <1>8. QED
    BY <1>1, <1>2, <1>3, <1>4, <1>5, <1>6, <1>7 DEF Isr

(* send_data leaves the line and channel 5 alone. *)
LEMMA MessageSendIsr ==
    ASSUME Base, MessageInv, SendData("isr") PROVE MessageInv'
  <1>1. CASE SendData_Memcpy("isr")
    <2>1. LineInv'
      BY <1>1, MemcpyEffect DEF MessageInv, LineInv, TxQuiet, TxSame, RxSame, ServedPcs, SendDataPcs
    <2>2. RxCounts'
      BY <1>1, MemcpyEffect DEF MessageInv, RxCounts, RxSame, SendDataPcs
    <2>3. QED BY <2>1, <2>2 DEF MessageInv
  <1>2. CASE SendData_Poll("isr")
    <2>1. LineInv'
      BY <1>2, PollEffect DEF MessageInv, LineInv, TxQuiet, TxSame, RxSame, ServedPcs, SendDataPcs
    <2>2. RxCounts'
      BY <1>2, PollEffect DEF MessageInv, RxCounts, RxSame, SendDataPcs
    <2>3. QED BY <2>1, <2>2 DEF MessageInv
  <1>3. CASE SendData_Disable("isr")
    <2>1. LineInv'
      BY <1>3, DisableTxEffect DEF MessageInv, LineInv, TxQuiet, CanTransfer, RxSame, ServedPcs,
         SendDataPcs
    <2>2. RxCounts'
      BY <1>3, DisableTxEffect DEF MessageInv, RxCounts, RxSame, SendDataPcs
    <2>3. QED BY <2>1, <2>2 DEF MessageInv
  <1>4. CASE SendData_Number("isr")
    <2>1. LineInv'
      BY <1>4, NumberTxEffect DEF MessageInv, LineInv, TxQuiet, CanTransfer, RxSame, ServedPcs,
         SendDataPcs
    <2>2. RxCounts'
      BY <1>4, NumberTxEffect DEF MessageInv, RxCounts, RxSame, SendDataPcs
    <2>3. QED BY <2>1, <2>2 DEF MessageInv
  <1>5. CASE SendData_Enable("isr")
    <2>1. LineInv'
      BY <1>5, EnableTxEffect DEF MessageInv, LineInv, RxSame, ServedPcs, SendDataPcs
    <2>2. RxCounts'
      BY <1>5, EnableTxEffect DEF MessageInv, RxCounts, RxSame, SendDataPcs
    <2>3. QED BY <2>1, <2>2 DEF MessageInv
  <1>6. QED
    BY <1>1, <1>2, <1>3, <1>4, <1>5 DEF SendData

(* A host byte finds DATA empty: what channel 5 has stored and DATA holds   *)
(* of the message is shorter than the longest message, which fits.          *)
LEMMA ByteFindsRoom ==
    ASSUME Base, MaxMsg <= MAX_LEN, FastCpu, PoliteHost, MessageInv, HostByte
    PROVE  pc["isr"] = "none" /\ ~uart.IDLE /\ (hist.armed => ~uart.RXBNE)
  <1>1. pc["isr"] = "none" /\ ~uart.IDLE
    <2>1. line.burst \in Nat
      BY Types DEF Base, LineState
    <2>2. QED
      BY <2>1, HostByteEffect DEF MessageInv, LineInv
  <1>2. ASSUME hist.armed, uart.RXBNE PROVE FALSE
    <2>1. ch[5].CHEN /\ hist.stored + 1 = line.burst
      BY <1>1, <1>2 DEF MessageInv, RxCounts
    <2>2. ~(ch[5].CHNDATA > 0) /\ line.burst < MaxMsg
      BY <1>2, <2>1, HostByteEffect
    <2>3. ch[5].CHNDATA \in Nat /\ hist.stored \in Nat /\ line.burst \in Nat
          /\ ch[5].CHNDATA + hist.stored = MAX_LEN
      BY Types, LoopFacts DEF Base, LoopStep, ChannelRegs, History, LineState
    <2>4. QED
      BY <2>1, <2>2, <2>3, Sizes
  <1>3. QED
    BY <1>1, <1>2

(* The same when the line falls idle. *)
LEMMA PauseFindsNothing ==
    ASSUME Base, MaxMsg <= MAX_LEN, FastCpu, MessageInv, IdleLine
    PROVE  pc["isr"] = "none" /\ ~uart.IDLE /\ (hist.armed => ~uart.RXBNE)
  <1>1. pc["isr"] = "none" /\ ~uart.IDLE
    BY IdleLineEffect DEF MessageInv, LineInv
  <1>2. ASSUME hist.armed, uart.RXBNE PROVE FALSE
    <2>1. ch[5].CHEN /\ hist.stored + 1 = line.burst
      BY <1>1, <1>2 DEF MessageInv, RxCounts
    <2>2. ~(ch[5].CHNDATA > 0)
      BY <1>2, <2>1, IdleLineEffect
    <2>3. ch[5].CHNDATA \in Nat /\ hist.stored \in Nat /\ line.burst \in 0..MaxMsg
          /\ ch[5].CHNDATA + hist.stored = MAX_LEN
      BY Types, LoopFacts DEF Base, LoopStep, ChannelRegs, History, LineState
    <2>4. QED
      BY <2>1, <2>2, <2>3, Sizes
  <1>3. QED
    BY <1>1, <1>2

(* The hardware and the host. *)
LEMMA MessageHardware ==
    ASSUME Base, MaxMsg <= MAX_LEN, FastCpu, PoliteHost, MessageInv,
           TxDma \/ RxDma \/ Load \/ ShiftDone \/ HostByte \/ IdleLine
    PROVE  MessageInv'
  <1>0. /\ hist.stored \in Nat /\ line.burst \in Nat /\ hist.handed \in Nat /\ line.sent \in Nat
        /\ ch[5].pos \in Nat
    BY Types DEF Base, History, LineState, ChannelRegs
  <1>1. CASE TxDma
    <2>1. LineInv'
      BY <1>1, TxDmaEffect DEF MessageInv, LineInv, TxQuiet, CanTransfer, RxSame, ServedPcs,
         SendDataPcs
    <2>2. RxCounts'
      BY <1>1, TxDmaEffect DEF MessageInv, RxCounts, RxSame, SendDataPcs
    <2>3. QED BY <2>1, <2>2 DEF MessageInv
  <1>2. CASE RxDma
    <2>1. hist.armed /\ pc["isr"] = "none" /\ ~uart.IDLE
      BY <1>2, RxDmaEffect DEF MessageInv, RxCounts
    <2>2. LineInv'
      BY <1>2, <2>1, RxDmaEffect DEF MessageInv, LineInv, TxQuiet, TxSame, ServedPcs, SendDataPcs
    <2>3. /\ ch[5].pos = hist.stored /\ hist.stored + 1 = line.burst
          /\ hist.lost = hist.skipped
      BY <1>2, <2>1, RxDmaEffect DEF MessageInv, RxCounts
    <2>4. /\ ch'[5].pos = hist'.stored /\ hist'.stored = line'.burst /\ hist'.lost = hist'.skipped
          /\ ch'[5].CHEN /\ ~uart'.RXBNE /\ ~uart'.IDLE /\ hist'.armed /\ pc'["isr"] = "none"
      BY <1>0, <1>2, <2>1, <2>3, RxDmaEffect
    <2>5. hist'.stored \in Nat
      BY <1>0, <1>2, RxDmaEffect
    <2>6. RxCounts'
      BY <2>4, <2>5 DEF RxCounts, SendDataPcs
    <2>7. QED BY <2>2, <2>6 DEF MessageInv
  <1>3. CASE Load
    <2>1. LineInv'
      BY <1>3, LoadEffect DEF MessageInv, LineInv, TxQuiet, ServedPcs, SendDataPcs
    <2>2. RxCounts'
      BY <1>3, LoadEffect DEF MessageInv, RxCounts, SendDataPcs
    <2>3. QED BY <2>1, <2>2 DEF MessageInv
  <1>4. CASE ShiftDone
    <2>1. LineInv'
      BY <1>4, ShiftDoneEffect DEF MessageInv, LineInv, TxQuiet, ServedPcs, SendDataPcs
    <2>2. RxCounts'
      BY <1>4, ShiftDoneEffect DEF MessageInv, RxCounts, SendDataPcs
    <2>3. QED BY <2>1, <2>2 DEF MessageInv
  <1>5. CASE HostByte
    <2>1. pc["isr"] = "none" /\ ~uart.IDLE /\ (hist.armed => ~uart.RXBNE)
      BY <1>5, ByteFindsRoom
    <2>2. LineInv'
      BY <1>0, <1>5, <2>1, HostByteEffect DEF MessageInv, LineInv, TxQuiet, TxSame, ServedPcs,
         SendDataPcs
    <2>3. RxCounts'
      BY <1>0, <1>5, <2>1, HostByteEffect DEF MessageInv, RxCounts, SendDataPcs
    <2>4. QED BY <2>2, <2>3 DEF MessageInv
  <1>6. CASE IdleLine
    <2>1. pc["isr"] = "none" /\ ~uart.IDLE /\ (hist.armed => ~uart.RXBNE)
      BY <1>6, PauseFindsNothing
    <2>2. LineInv'
      BY <1>0, <1>6, <2>1, IdleLineEffect DEF MessageInv, LineInv, TxQuiet, TxSame, ServedPcs,
         SendDataPcs
    <2>3. RxCounts'
      BY <1>0, <1>6, <2>1, IdleLineEffect DEF MessageInv, RxCounts, SendDataPcs
    <2>4. QED BY <2>2, <2>3 DEF MessageInv
  <1>7. QED
    BY <1>1, <1>2, <1>3, <1>4, <1>5, <1>6

(* A step of any actor. *)
LEMMA MessageNext ==
    ASSUME Base, MaxMsg <= MAX_LEN, FastCpu, PoliteHost, MessageInv, [Next]_vars
    PROVE  MessageInv'
  <1>1. CASE UNCHANGED vars
    BY <1>1 DEF vars, MessageInv, LineInv, RxCounts, TxQuiet
  <1>2. CASE Next
    BY <1>2, MessageMain, MessageIsr, MessageSendIsr, MessageHardware, NoStray
    DEF Next, Actors, Base
  <1>3. QED
    BY <1>1, <1>2

-----------------------------------------------------------------------------
(* ArmedLossless: the counts of RxInv leave a step no byte to lose. *)

LEMMA LosslessStep ==
    ASSUME Base, MaxMsg <= MAX_LEN, FastCpu, PoliteHost, MessageInv, [Next]_vars, hist.armed
    PROVE  hist'.lost = hist.lost /\ hist'.armed /\ hist'.skipped = hist.skipped
  <1>1. CASE UNCHANGED vars
    BY <1>1 DEF vars
  <1>2. CASE Boot \/ SendData("main")
    BY <1>2, MainEffect
  <1>3. CASE Isr
    <2>1. CASE Isr_RxData
      BY <2>1, RxDataEffect DEF MessageInv, RxCounts
    <2>2. CASE ~Isr_RxData
      BY <1>3, <2>2, EnterEffect, ReadIntFlagEffect, DisableRxEffect, ReadNumberEffect,
         NumberRxEffect, EnableRxEffect DEF Isr
    <2>3. QED
      BY <2>1, <2>2
  <1>4. CASE SendData("isr")
    BY <1>4 DEF SendData, SendData_Memcpy, SendData_Poll, SendData_Disable, SendData_Number,
       SendData_Enable
  <1>5. CASE TxDma \/ RxDma \/ Load \/ ShiftDone
    BY <1>5, TxDmaEffect, RxDmaEffect, LoadEffect, ShiftDoneEffect
  <1>6. CASE HostByte \/ IdleLine
    BY <1>6, HostByteEffect, ByteFindsRoom, IdleLineEffect
  <1>7. QED
    BY <1>1, <1>2, <1>3, <1>4, <1>5, <1>6, NoStray DEF Next, Actors, Base

(* The parts so far, of every behaviour. *)
LEMMA BaseInit == ASSUME QuietBoot PROVE Init => Base
  BY InitInv, RxOffInit, ConserveInit, SetupInit DEF Base

LEMMA BaseNext == Base /\ [Next]_vars => Base'
  BY NextInv, RxOffNext, ConserveNext, SetupNext DEF Base

(* For every buffer size and every message that fits the buffer: once       *)
(* channel 5 is armed, no byte of a host that waits for silence is lost.    *)
THEOREM NothingLost ==
    ASSUME QuietBoot, PoliteHost, FastCpu, MaxMsg <= MAX_LEN
    PROVE  Spec => ArmedLossless
  <1>1. Base /\ MessageInv /\ [Next]_vars => MessageInv'
    BY MessageNext
  <1>2. Base /\ MessageInv /\ [Next]_vars => [hist.armed => hist'.lost = hist.lost]_vars
    BY LosslessStep
  <1>3. QED
    BY <1>1, <1>2, BaseInit, BaseNext, MessageInit, PTL DEF Spec, ArmedLossless

-----------------------------------------------------------------------------
(* RxBytes: the bytes of the message, as stored and as handed to send_data. *)

RxBytes ==
    hist.armed =>
      /\ \A i \in Index : i < hist.stored => uart_rx_buf[i] = hist.skipped + hist.handed + i + 1
      /\ pc["isr"] \in SendDataPcs =>
            \A i \in Index : i < frame["isr"].len =>
                uart_rx_buf[i] = hist.skipped + hist.handed - frame["isr"].len + i + 1

LEMMA RxBytesInit == Init => RxBytes
  BY DEF Init, RxBytes

LEMMA RxBytesNext ==
    ASSUME Base, MaxMsg <= MAX_LEN, FastCpu, PoliteHost, MessageInv, RxBytes, [Next]_vars
    PROVE  RxBytes'
  <1>0. /\ hist.stored \in Nat /\ hist.handed \in Nat /\ hist.skipped \in Nat /\ hist.lost \in Nat
        /\ line.sent \in Nat /\ frame["isr"].len \in Nat
        /\ \A i \in Index : i \in Int /\ ~(i < 0)
    BY Types DEF Base, History, LineState, Index
  <1>1. CASE UNCHANGED vars
    BY <1>1 DEF vars, RxBytes
  <1>2. CASE Boot \/ SendData("main")
    BY <1>2, MainEffect DEF RxBytes
  <1>3. CASE Isr_Enter \/ Isr_ReadIntFlag \/ Isr_RxData \/ Isr_DisableRx \/ Isr_ReadNumber
    <2>1. /\ pc'["isr"] \notin SendDataPcs /\ uart_rx_buf' = uart_rx_buf
          /\ hist'.armed = hist.armed /\ hist'.stored = hist.stored
          /\ hist'.handed = hist.handed /\ hist'.skipped = hist.skipped
      BY <1>3, EnterEffect, ReadIntFlagEffect, RxDataEffect, DisableRxEffect, ReadNumberEffect
      DEF RxSame, SendDataPcs
    <2>2. QED
      BY <2>1 DEF RxBytes
  <1>4. CASE Isr_NumberRx
    <2>1. /\ frame'["isr"].len = hist.stored /\ hist'.stored = 0
          /\ hist'.handed = hist.handed + hist.stored /\ hist'.skipped = hist.skipped
          /\ hist'.armed = hist.armed /\ uart_rx_buf' = uart_rx_buf
      BY <1>4, NumberRxEffect
    <2>2. ASSUME hist.armed, NEW i \in Index, i < hist.stored
          PROVE  uart_rx_buf[i] = hist'.skipped + hist'.handed - frame'["isr"].len + i + 1
      BY <1>0, <2>1, <2>2 DEF RxBytes
    <2>3. QED
      BY <1>0, <2>1, <2>2 DEF RxBytes
  <1>5. CASE Isr_EnableRx
    <2>1. hist'.stored = 0 /\ pc'["isr"] = "none"
      BY <1>5, EnableRxEffect DEF MessageInv, RxCounts
    <2>2. QED
      BY <1>0, <2>1 DEF RxBytes, SendDataPcs
  <1>6. CASE SendData("isr")
    <2>1. /\ uart_rx_buf' = uart_rx_buf /\ hist' = hist /\ frame'["isr"].len = frame["isr"].len
          /\ pc["isr"] \in SendDataPcs
      BY <1>6, MemcpyEffect, PollEffect, DisableTxEffect, NumberTxEffect, EnableTxEffect
      DEF SendData, RxSame, SendDataPcs
    <2>2. QED
      BY <2>1 DEF RxBytes
  <1>7. CASE RxDma
    <2>1. /\ hist.armed /\ pc["isr"] = "none" /\ ch[5].pos = hist.stored
          /\ rdr = line.sent /\ hist.lost = hist.skipped
      BY <1>7, RxDmaEffect DEF MessageInv, RxCounts
    <2>2. rdr = hist.skipped + hist.handed + hist.stored + 1
      BY <1>0, <1>7, <2>1, RxDmaEffect DEF Base, ConserveInv, ByteConservation
    <2>3. ASSUME NEW i \in Index, i < hist.stored + 1
          PROVE  uart_rx_buf'[i] = hist.skipped + hist.handed + i + 1
      <3>1. CASE i = hist.stored
        BY <1>7, <2>1, <2>2, <3>1, RxDmaEffect
      <3>2. CASE i # hist.stored
        BY <1>0, <1>7, <2>1, <2>3, <3>2, RxDmaEffect DEF RxBytes
      <3>3. QED
        BY <3>1, <3>2
    <2>4. QED
      BY <1>7, <2>1, <2>3, RxDmaEffect DEF RxBytes, SendDataPcs
  <1>8. CASE TxDma \/ Load \/ ShiftDone \/ HostByte \/ IdleLine
    <2>1. /\ uart_rx_buf' = uart_rx_buf /\ frame' = frame /\ pc' = pc
          /\ hist'.armed = hist.armed /\ hist'.stored = hist.stored
          /\ hist'.handed = hist.handed /\ hist'.skipped = hist.skipped
      BY <1>8, TxDmaEffect, LoadEffect, ShiftDoneEffect, HostByteEffect, IdleLineEffect DEF RxSame
    <2>2. QED
      BY <2>1 DEF RxBytes
  <1>9. QED
    BY <1>1, <1>2, <1>3, <1>4, <1>5, <1>6, <1>7, <1>8, NoStray DEF Next, Isr, Actors, Base

-----------------------------------------------------------------------------
(* CopyInv: what send_data has done for the handler. *)

CopyInv ==
    /\ pc["isr"] = "numberRx" => frame["isr"].idx = 0
    /\ pc["isr"] \in SendDataPcs =>
         /\ frame["isr"].len <= hist.handed
         /\ \A i \in Index : i < frame["isr"].idx => uart_tx_buf[i] = uart_rx_buf[i]
    /\ pc["isr"] \in SendDataPcs \ {"memcpy"} => frame["isr"].idx = frame["isr"].len
    /\ pc["isr"] \in {"numberTx", "enableTx"} => ~ch[4].CHEN
    /\ pc["isr"] = "enableTx" => ch[4].CHNDATA = frame["isr"].len

LEMMA CopyInit == Init => CopyInv
  BY DEF Init, CopyInv, Actors, SendDataPcs

LEMMA CopyNext ==
    ASSUME Base, MaxMsg <= MAX_LEN, FastCpu, PoliteHost, MessageInv, CopyInv, [Next]_vars
    PROVE  CopyInv'
  <1>0. /\ hist.stored \in Nat /\ hist.handed \in Nat /\ frame["isr"].len \in Nat
        /\ frame["isr"].idx \in Nat
        /\ \A i \in Index : i \in Int /\ ~(i < 0)
    BY Types DEF Base, History, Index
  <1>1. CASE UNCHANGED vars
    BY <1>1 DEF vars, CopyInv
  <1>2. CASE Boot \/ SendData("main")
    BY <1>2, MainEffect DEF CopyInv, SendDataPcs
  <1>3. CASE Isr_Enter \/ Isr_ReadIntFlag \/ Isr_RxData \/ Isr_DisableRx \/ Isr_ReadNumber \/ Isr_EnableRx
    <2>1. /\ pc'["isr"] \notin SendDataPcs
          /\ pc'["isr"] = "numberRx" => frame'["isr"].idx = 0
      BY <1>3, EnterEffect, ReadIntFlagEffect, RxDataEffect, DisableRxEffect, ReadNumberEffect,
         EnableRxEffect DEF SendDataPcs
    <2>2. QED
      BY <2>1 DEF CopyInv, SendDataPcs
  <1>4. CASE Isr_NumberRx
    <2>1. /\ pc'["isr"] = "memcpy" /\ frame'["isr"].idx = 0 /\ frame'["isr"].len = hist.stored
          /\ hist'.handed = hist.handed + hist.stored
      BY <1>4, NumberRxEffect DEF CopyInv
    <2>2. QED
      BY <1>0, <2>1 DEF CopyInv, SendDataPcs
  <1>5. CASE SendData_Memcpy("isr")
    <2>1. pc["isr"] = "memcpy" /\ uart_rx_buf' = uart_rx_buf /\ hist' = hist
      BY <1>5, MemcpyEffect DEF RxSame
    <2>2. CASE frame["isr"].idx < frame["isr"].len
      <3>1. /\ pc'["isr"] = "memcpy" /\ frame'["isr"].len = frame["isr"].len
            /\ frame'["isr"].idx = frame["isr"].idx + 1
            /\ \A i \in Index : uart_tx_buf'[i] = IF i = frame["isr"].idx THEN uart_rx_buf[i]
                                                ELSE uart_tx_buf[i]
        BY <1>0, <1>5, <2>2, MemcpyEffect
      <3>2. ASSUME NEW i \in Index, i < frame["isr"].idx + 1 PROVE uart_tx_buf'[i] = uart_rx_buf[i]
        BY <1>0, <2>1, <3>1, <3>2 DEF CopyInv, SendDataPcs
      <3>3. QED
        BY <2>1, <3>1, <3>2 DEF CopyInv, SendDataPcs
    <2>3. CASE ~(frame["isr"].idx < frame["isr"].len)
      <3>1. /\ pc'["isr"] = "poll" /\ frame["isr"].idx = frame["isr"].len
            /\ UNCHANGED <<frame, uart_tx_buf>>
        BY <1>5, <2>3, MemcpyEffect
      <3>2. QED
        BY <2>1, <3>1 DEF CopyInv, SendDataPcs
    <2>4. QED
      BY <2>2, <2>3
  <1>6. CASE SendData_Poll("isr") \/ SendData_Disable("isr") \/ SendData_Number("isr")
    <2>1. /\ UNCHANGED <<frame, hist, uart_rx_buf, uart_tx_buf>>
          /\ pc["isr"] \in SendDataPcs \ {"memcpy"}
          /\ pc'["isr"] \in {"poll", "disableTx", "numberTx", "enableTx"}
      BY <1>6, PollEffect, DisableTxEffect, NumberTxEffect DEF RxSame, SendDataPcs
    <2>2. /\ pc'["isr"] \in {"numberTx", "enableTx"} => ~ch'[4].CHEN
          /\ pc'["isr"] = "enableTx" => ch'[4].CHNDATA = frame["isr"].len
      BY <1>6, PollEffect, DisableTxEffect, NumberTxEffect DEF CopyInv
    <2>3. QED
      BY <2>1, <2>2 DEF CopyInv, SendDataPcs
  <1>7. CASE SendData_Enable("isr")
    BY <1>7, EnableTxEffect DEF CopyInv, SendDataPcs
  <1>8. CASE TxDma
    BY <1>8, TxDmaEffect DEF CopyInv, RxSame
  <1>9. CASE RxDma
    <2>1. pc'["isr"] = "none"
      BY <1>9, RxDmaEffect DEF MessageInv, RxCounts
    <2>2. QED
      BY <2>1 DEF CopyInv, SendDataPcs
  <1>10. CASE Load \/ ShiftDone \/ HostByte \/ IdleLine
    <2>1. /\ UNCHANGED <<pc, frame, uart_rx_buf, uart_tx_buf>> /\ ch'[4] = ch[4]
          /\ hist'.handed = hist.handed
      BY <1>10, LoadEffect, ShiftDoneEffect, HostByteEffect, IdleLineEffect DEF TxSame
    <2>2. QED
      BY <2>1 DEF CopyInv
  <1>11. QED
    BY <1>1, <1>2, <1>3, <1>4, <1>5, <1>6, <1>7, <1>8, <1>9, <1>10, NoStray
    DEF Next, Isr, SendData, Actors, Base

-----------------------------------------------------------------------------
(* TxInv: the wire, DATA and what channel 4 has left to fetch are one       *)
(* sequence, b bytes of the banner and then the host's bytes in order.      *)

InData == IF uart.TXBE THEN 0 ELSE 1
Left == IF ch[4].CHEN THEN ch[4].CHNDATA ELSE 0

(* How many of the host's bytes channel 4 has been given. *)
Given == IF pc["isr"] \in SendDataPcs THEN hist.handed - frame["isr"].len ELSE hist.handed

(* The k-th byte that goes out, after skipped bytes of the host were missed. *)
Outgoing(b, skipped, k) == IF k <= b THEN MaxBytes + k ELSE skipped + (k - b)

TxWith(b) ==
    /\ \A k \in 1..Len(wire) : wire[k] = Outgoing(b, hist.skipped, k)
    /\ ~uart.TXBE => tdr = Outgoing(b, hist.skipped, Len(wire) + 1)
    /\ ch[4].CHEN => \A i \in 0..MAX_LEN : i < ch[4].CHNDATA =>
          uart_tx_buf[ch[4].pos + i] = Outgoing(b, hist.skipped, Len(wire) + InData + i + 1)
    /\ Len(wire) + InData + Left = b + Given

BannerSizes == IF CanIdle THEN 0..BannerLen ELSE {BannerLen}

TxInv == pc["main"] = "loop" => \E b \in BannerSizes : TxWith(b)

(* The numbers in it. *)
LEMMA TxTypes ==
    ASSUME Base, CopyInv
    PROVE  /\ Len(wire) \in Nat /\ InData \in {0, 1} /\ Left \in Nat /\ Given \in Nat
           /\ hist.skipped \in Nat /\ hist.handed \in Nat /\ hist.lost \in Nat
           /\ ch[4].CHNDATA \in 0..MAX_LEN /\ ch[4].pos \in 0..MAX_LEN
           /\ ch[4].CHEN => ch[4].pos + ch[4].CHNDATA <= MAX_LEN
           /\ frame["isr"].len \in 0..MAX_LEN
           /\ BannerSizes \subseteq Nat
           /\ \A b \in BannerSizes : b <= BannerLen
  <1>1. Len(wire) \in Nat
    BY Types DEF Base
  <1>2. /\ ch[4].CHNDATA \in 0..MAX_LEN /\ ch[4].pos \in 0..MAX_LEN
        /\ frame["isr"].len \in 0..MAX_LEN
        /\ hist.skipped \in Nat /\ hist.handed \in Nat /\ hist.lost \in Nat
    BY Types DEF Base, ChannelRegs, History
  <1>3. ch[4].CHEN => ch[4].pos + ch[4].CHNDATA <= MAX_LEN
    BY Types DEF Base, Inv, DmaInv, InBuffer
  <1>4. Given \in Nat
    BY <1>2, Sizes DEF Given, CopyInv
  <1>5. InData \in {0, 1} /\ Left \in Nat
    BY <1>2, Sizes DEF InData, Left
  <1>6. BannerSizes \subseteq Nat /\ \A b \in BannerSizes : b <= BannerLen
    BY Sizes DEF BannerSizes
  <1>7. QED
    BY <1>1, <1>2, <1>3, <1>4, <1>5, <1>6

(* A step that leaves the transmit side and what it has been given alone. *)
LEMMA TxUnchanged ==
    ASSUME NEW b, TxWith(b), TxSame, uart_tx_buf' = uart_tx_buf,
           hist'.skipped = hist.skipped, Given' = Given
    PROVE  TxWith(b)'
  BY DEF TxWith, TxSame, Outgoing, InData, Left

LEMMA TxInit == Init => TxInv
  BY DEF Init, TxInv, Actors

(* main starts channel 4 on the banner. *)
LEMMA TxMain ==
    ASSUME Base, CopyInv', Base', SendData("main") PROVE TxInv'
  <1> SUFFICES ASSUME pc'["main"] = "loop" PROVE TxInv'
    BY DEF TxInv
  <1>1. SendData_Enable("main")
    BY Types DEF Base, SendData, SendData_Memcpy, SendData_Poll, SendData_Disable,
       SendData_Number, At, GoTo
  <1>2. /\ pc["main"] = "enableTx" /\ dmaClk /\ ~ch[4].CHEN /\ ch[4].CHNDATA = BannerLen
        /\ \A i \in Index : i < BannerLen => uart_tx_buf[i] = BannerByte(i)
        /\ uart_tx_buf' = uart_tx_buf
    BY <1>1 DEF Base, SendData_Enable, At, ConserveInv, QuietInv, SetupInv, QuietTx, BannerInv,
       SendDataPcs, EarlyPcs, bufVars
  <1>3. ch'[4] = DMA_Enable(ch[4])
    BY <1>1, <1>2, WriteFour, Types DEF Base, SendData_Enable, Inv
  <1>4. ch'[4].CHEN /\ ch'[4].pos = 0 /\ ch'[4].CHNDATA = BannerLen
    BY <1>2, <1>3, DriverFields, Types DEF Base
  <1>5. /\ uart'.TXBE /\ wire' = << >> /\ pc'["isr"] = "none" /\ hist'.handed = 0
    BY MainEffect
  <1>6. Len(wire') = 0 /\ InData' = 0 /\ Left' = BannerLen /\ Given' = 0
    BY <1>4, <1>5 DEF InData, Left, Given, SendDataPcs
  <1>7. BannerLen \in BannerSizes
    BY Sizes DEF BannerSizes
  <1>8. TxWith(BannerLen)'
    <2>1. \A k \in 1..Len(wire') : wire'[k] = Outgoing(BannerLen, hist'.skipped, k)
      BY <1>6
    <2>2. ASSUME NEW i \in 0..MAX_LEN, i < BannerLen
          PROVE  uart_tx_buf'[0 + i] = Outgoing(BannerLen, hist'.skipped, Len(wire') + InData' + i + 1)
      <3>1. i \in Index /\ 0 + i = i /\ i \in Nat
        BY <2>2, Sizes DEF Index
      <3>2. uart_tx_buf'[i] = MaxBytes + 1 + i
        BY <1>2, <2>2, <3>1 DEF BannerByte
      <3>3. Outgoing(BannerLen, hist'.skipped, Len(wire') + InData' + i + 1) = MaxBytes + (i + 1)
        BY <1>6, <2>2, <3>1, Sizes DEF Outgoing
      <3>4. QED
        BY <3>1, <3>2, <3>3, Sizes
    <2>3. Len(wire') + InData' + Left' = BannerLen + Given'
      BY <1>6, Sizes
    <2>4. QED
      BY <1>4, <1>5, <2>1, <2>2, <2>3 DEF TxWith
  <1>9. QED
    BY <1>7, <1>8 DEF TxInv

(* The handler outside send_data. *)
LEMMA TxIsr ==
    ASSUME Base, MessageInv, CopyInv, NEW b \in BannerSizes, TxWith(b), Isr PROVE TxWith(b)'
  <1>0. /\ hist.stored \in Nat /\ hist.handed \in Nat
    BY Types DEF Base, History
  <1>1. CASE Isr_Enter \/ Isr_ReadIntFlag \/ Isr_RxData \/ Isr_DisableRx \/ Isr_ReadNumber
    <2>1. /\ pc["isr"] \notin SendDataPcs /\ pc'["isr"] \notin SendDataPcs
          /\ hist'.handed = hist.handed /\ hist'.skipped = hist.skipped
          /\ TxSame /\ uart_tx_buf' = uart_tx_buf
      BY <1>1, EnterEffect, ReadIntFlagEffect, RxDataEffect, DisableRxEffect, ReadNumberEffect
      DEF SendDataPcs
    <2>2. Given' = Given
      BY <2>1 DEF Given
    <2>3. QED
      BY <2>1, <2>2, TxUnchanged
  <1>2. CASE Isr_NumberRx
    <2>1. Given' = Given
      <3>1. /\ pc["isr"] \notin SendDataPcs /\ pc'["isr"] \in SendDataPcs
            /\ hist'.handed = hist.handed + hist.stored /\ frame'["isr"].len = hist.stored
        BY <1>2, NumberRxEffect DEF SendDataPcs
      <3>2. QED
        BY <1>0, <3>1 DEF Given
    <2>2. QED
      BY <1>2, <2>1, NumberRxEffect, TxUnchanged
  <1>3. CASE Isr_EnableRx
    <2>1. Given' = Given
      BY <1>3, EnableRxEffect DEF Given, SendDataPcs
    <2>2. CASE hist.armed
      BY <1>3, <2>1, <2>2, EnableRxEffect, TxUnchanged
    <2>3. CASE ~hist.armed
      <3>1. Given = 0
        BY <1>3, <2>3, EnableRxEffect DEF Given, MessageInv, RxCounts, SendDataPcs
      <3>2. Len(wire) + InData + Left = b
        BY <3>1, TxTypes DEF TxWith
      <3>3. /\ wire' = wire /\ uart'.TXBE = uart.TXBE /\ tdr' = tdr /\ ch'[4] = ch[4]
            /\ uart_tx_buf' = uart_tx_buf /\ InData' = InData /\ Left' = Left
        BY <1>3, EnableRxEffect DEF TxSame, InData, Left
      <3>4. ASSUME NEW k \in Nat, k <= b
            PROVE  Outgoing(b, hist'.skipped, k) = Outgoing(b, hist.skipped, k)
        BY <3>4 DEF Outgoing
      <3>5. \A k \in 1..Len(wire') : wire'[k] = Outgoing(b, hist'.skipped, k)
        <4>1. ASSUME NEW k \in 1..Len(wire) PROVE wire[k] = Outgoing(b, hist'.skipped, k)
          <5>1. k \in Nat /\ k <= b
            BY <3>2, <4>1, TxTypes
          <5>2. QED
            BY <3>4, <5>1 DEF TxWith
        <4>2. QED
          BY <3>3, <4>1
      <3>6. ~uart'.TXBE => tdr' = Outgoing(b, hist'.skipped, Len(wire') + 1)
        <4>1. ASSUME ~uart.TXBE PROVE Len(wire) + 1 \in Nat /\ Len(wire) + 1 <= b
          BY <3>2, <4>1, TxTypes DEF InData
        <4>2. QED
          BY <3>3, <3>4, <4>1 DEF TxWith
      <3>7. ASSUME ch[4].CHEN, NEW i \in 0..MAX_LEN, i < ch[4].CHNDATA
            PROVE  uart_tx_buf[ch[4].pos + i] = Outgoing(b, hist'.skipped, Len(wire) + InData + i + 1)
        <4>1. Len(wire) + InData + i + 1 \in Nat /\ Len(wire) + InData + i + 1 <= b
          <5>1. Left = ch[4].CHNDATA
            BY <3>7 DEF Left
          <5>2. QED
            BY <3>2, <3>7, <5>1, TxTypes, SMTT(20)
        <4>2. uart_tx_buf[ch[4].pos + i] = Outgoing(b, hist.skipped, Len(wire) + InData + i + 1)
          BY <3>7 DEF TxWith
        <4>3. QED
          BY <3>4, <4>1, <4>2
      <3>8. QED
        BY <2>1, <3>3, <3>5, <3>6, <3>7 DEF TxWith
    <2>4. QED
      BY <2>2, <2>3
  <1>4. QED
    BY <1>1, <1>2, <1>3 DEF Isr

(* send_data called by the handler.  Disabling channel 4 while it still     *)
(* sends the banner cuts the banner short: the only step that changes b.    *)
LEMMA TxSendIsr ==
    ASSUME Base, MessageInv, RxBytes, CopyInv, NEW b \in BannerSizes, TxWith(b), SendData("isr"),
           CopyInv', Base'
    PROVE  \E c \in BannerSizes : TxWith(c)'
  <1>1. CASE SendData_Memcpy("isr")
    <2>1. Given' = Given
      BY <1>1, MemcpyEffect DEF Given, SendDataPcs
    <2>2. CASE uart_tx_buf' = uart_tx_buf
      BY <1>1, <2>1, <2>2, MemcpyEffect, TxUnchanged
    <2>3. CASE uart_tx_buf' # uart_tx_buf
      <3>1. pc["isr"] = "memcpy" /\ frame["isr"].idx < frame["isr"].len /\ frame["isr"].idx \in Nat
        BY <1>1, <2>3, MemcpyEffect, Types DEF Base
      <3>2. hist.armed
        BY <3>1, Sizes, TxTypes, SMTT(20) DEF MessageInv, RxCounts, SendDataPcs
      <3>3. ~CanTransfer(ch[4])
        BY <3>1, <3>2 DEF MessageInv, LineInv, TxQuiet
      <3>4. /\ wire' = wire /\ uart'.TXBE = uart.TXBE /\ tdr' = tdr /\ ch'[4] = ch[4]
            /\ InData' = InData /\ Left' = Left /\ hist' = hist
        BY <1>1, MemcpyEffect DEF TxSame, InData, Left
      <3>5. ch[4].CHEN => \A i \in 0..MAX_LEN : ~(i < ch[4].CHNDATA)
        BY <3>3, TxTypes, Sizes DEF CanTransfer
      <3>6. TxWith(b)'
        BY <2>1, <3>4, <3>5 DEF TxWith
      <3>7. QED
        BY <3>6
    <2>4. QED
      BY <2>2, <2>3
  <1>2. CASE SendData_Poll("isr")
    <2>1. Given' = Given
      BY <1>2, PollEffect DEF Given, SendDataPcs
    <2>2. QED
      BY <1>2, <2>1, PollEffect, TxUnchanged
  <1>3. CASE SendData_Disable("isr")
    <2>1. /\ pc["isr"] = "disableTx" /\ ~ch'[4].CHEN
          /\ UNCHANGED <<uart, tdr, wire, frame, hist, uart_tx_buf>>
      BY <1>3, DisableTxEffect
    <2>2. Given' = Given /\ InData' = InData /\ Left' = 0
      BY <1>3, <2>1, DisableTxEffect DEF Given, InData, Left, SendDataPcs
    <2>3. CASE Left = 0
      <3>1. TxWith(b)'
        BY <2>1, <2>2, <2>3 DEF TxWith
      <3>2. QED
        BY <3>1
    <2>4. CASE Left # 0
      <3>1. CanTransfer(ch[4])
        BY <2>4, TxTypes DEF Left, CanTransfer
      <3>2. ~hist.armed /\ CanIdle
        BY <2>1, <3>1 DEF MessageInv, LineInv, TxQuiet
      <3>3. Given = 0
        BY <2>1, <3>2 DEF Given, MessageInv, RxCounts, SendDataPcs
      <3>0. PICK c \in Nat : c = Len(wire) + InData
        BY TxTypes
      <3>4. c \in Nat /\ c <= b /\ b \in Nat /\ b <= BannerLen /\ c \in BannerSizes
        <4>1. c \in Nat /\ c + Left = b /\ b \in Nat /\ b <= BannerLen
          BY <3>0, <3>3, TxTypes DEF TxWith
        <4>2. c \in Nat /\ c <= b /\ b \in Nat /\ b <= BannerLen
          BY <4>1, TxTypes
        <4>3. QED
          BY <3>2, <4>2, Sizes DEF BannerSizes
      <3>5. \A k \in Nat : k <= c =>
               Outgoing(c, hist.skipped, k) = Outgoing(b, hist.skipped, k)
        BY <3>4 DEF Outgoing
      <3>6. ASSUME NEW k \in 1..Len(wire) PROVE wire[k] = Outgoing(c, hist.skipped, k)
        <4>1. k \in Nat /\ k <= c
          BY <3>0, <3>6, TxTypes
        <4>2. QED
          BY <3>5, <4>1 DEF TxWith
      <3>7. ASSUME ~uart.TXBE PROVE tdr = Outgoing(c, hist.skipped, Len(wire) + 1)
        <4>1. Len(wire) + 1 \in Nat /\ Len(wire) + 1 <= c
          BY <3>0, <3>7, TxTypes DEF InData
        <4>2. QED
          BY <3>5, <3>7, <4>1 DEF TxWith
      <3>8. Len(wire) + InData + 0 = c + Given
        BY <3>0, <3>3, TxTypes
      <3>9. TxWith(c)'
        BY <2>1, <2>2, <3>6, <3>7, <3>8 DEF TxWith
      <3>10. QED
        BY <3>4, <3>9
    <2>5. QED
      BY <2>3, <2>4
  <1>4. CASE SendData_Number("isr")
    <2>1. /\ ~ch[4].CHEN /\ ~ch'[4].CHEN
          /\ UNCHANGED <<uart, tdr, wire, frame, hist, uart_tx_buf>>
      BY <1>4, NumberTxEffect DEF CopyInv
    <2>2. Given' = Given /\ InData' = InData /\ Left' = Left
      BY <1>4, <2>1, NumberTxEffect DEF Given, InData, Left, SendDataPcs
    <2>3. TxWith(b)'
      BY <2>1, <2>2 DEF TxWith
    <2>4. QED
      BY <2>3
  <1>5. CASE SendData_Enable("isr")
    <2>1. /\ pc["isr"] = "enableTx" /\ pc'["isr"] = "enableRx" /\ ~ch[4].CHEN /\ ch'[4].CHEN
          /\ ch'[4].pos = 0 /\ ch'[4].CHNDATA = frame["isr"].len
          /\ frame["isr"].idx = frame["isr"].len
          /\ UNCHANGED <<uart, tdr, wire, frame, hist, uart_tx_buf>>
      BY <1>5, EnableTxEffect DEF CopyInv, SendDataPcs
    <2>2. /\ Given' = hist.handed /\ Given = hist.handed - frame["isr"].len /\ InData' = InData
          /\ Left' = frame["isr"].len /\ Left = 0
      BY <2>1 DEF Given, InData, Left, SendDataPcs
    <2>3. Len(wire) + InData = b + Given
      BY <2>2, TxTypes DEF TxWith
    <2>4. Len(wire) + InData + Left' = b + Given'
      BY <2>2, <2>3, TxTypes
    <2>5. ASSUME NEW i \in 0..MAX_LEN, i < frame["isr"].len
          PROVE  uart_tx_buf[0 + i] = Outgoing(b, hist.skipped, Len(wire) + InData + i + 1)
      <3>1. i \in Index /\ 0 + i = i /\ i \in Nat /\ frame["isr"].len # 0
        BY <2>5, TxTypes, Sizes, SMTT(20) DEF Index
      <3>2. hist.armed
        BY <2>1, <3>1 DEF MessageInv, RxCounts, SendDataPcs
      <3>3. uart_tx_buf[i] = uart_rx_buf[i]
        BY <2>1, <2>5, <3>1 DEF CopyInv, SendDataPcs
      <3>4. uart_rx_buf[i] = hist.skipped + hist.handed - frame["isr"].len + i + 1
        BY <2>1, <2>5, <3>1, <3>2 DEF RxBytes, SendDataPcs
      <3>5. Outgoing(b, hist.skipped, Len(wire) + InData + i + 1) = hist.skipped + (Given + i + 1)
        BY <2>3, <3>1, TxTypes DEF Outgoing
      <3>6. QED
        BY <2>2, <3>1, <3>3, <3>4, <3>5, TxTypes, SMTT(20)
    <2>6. TxWith(b)'
      BY <2>1, <2>2, <2>4, <2>5 DEF TxWith
    <2>7. QED
      BY <2>6
  <1>6. QED
    BY <1>1, <1>2, <1>3, <1>4, <1>5 DEF SendData

(* The hardware and the host. *)
LEMMA TxHardware ==
    ASSUME Base, FastCpu, PoliteHost, CopyInv, NEW b \in BannerSizes, TxWith(b),
           TxDma \/ RxDma \/ Load \/ ShiftDone \/ HostByte \/ IdleLine
    PROVE  TxWith(b)'
  <1>1. Given' = Given /\ hist'.skipped = hist.skipped
    BY TxDmaEffect, RxDmaEffect, LoadEffect, ShiftDoneEffect, HostByteEffect, IdleLineEffect
    DEF Given
  <1>2. CASE RxDma \/ HostByte \/ IdleLine
    BY <1>1, <1>2, RxDmaEffect, HostByteEffect, IdleLineEffect, TxUnchanged
  <1>3. CASE ShiftDone
    BY <1>1, <1>3, ShiftDoneEffect DEF TxWith, InData, Left
  <1>4. CASE TxDma
    <2>1. /\ ch[4].CHEN /\ ch[4].CHNDATA > 0 /\ uart.TXBE /\ ~uart'.TXBE
          /\ ch'[4].CHEN /\ ch'[4].CHNDATA = ch[4].CHNDATA - 1 /\ ch'[4].pos = ch[4].pos + 1
          /\ tdr' = uart_tx_buf[ch[4].pos] /\ wire' = wire /\ uart_tx_buf' = uart_tx_buf
      BY <1>4, TxDmaEffect
    <2>2. InData = 0 /\ InData' = 1 /\ Left = ch[4].CHNDATA /\ Left' = ch[4].CHNDATA - 1
      BY <2>1 DEF InData, Left
    <2>3. tdr' = Outgoing(b, hist.skipped, Len(wire) + 1)
      <3>1. uart_tx_buf[ch[4].pos + 0] = Outgoing(b, hist.skipped, Len(wire) + InData + 0 + 1)
        BY <2>1, ConstantFacts DEF TxWith
      <3>2. ch[4].pos + 0 = ch[4].pos /\ Len(wire) + InData + 0 + 1 = Len(wire) + 1
        <4>1. ch[4].pos \in Nat /\ Len(wire) \in Nat
          BY TxTypes, Sizes
        <4>2. QED
          BY <2>2, <4>1
      <3>3. QED
        BY <2>1, <3>1, <3>2
    <2>4. ASSUME NEW i \in 0..MAX_LEN, i < ch[4].CHNDATA - 1
          PROVE  uart_tx_buf[(ch[4].pos + 1) + i]
                   = Outgoing(b, hist.skipped, Len(wire) + 1 + i + 1)
      <3>1. i + 1 \in 0..MAX_LEN /\ i + 1 < ch[4].CHNDATA
        <4>1. ch[4].CHNDATA \in 0..MAX_LEN /\ MAX_LEN \in Nat
          BY TxTypes, Sizes
        <4>2. QED
          BY <2>4, <4>1
      <3>2. uart_tx_buf[ch[4].pos + (i + 1)]
              = Outgoing(b, hist.skipped, Len(wire) + InData + (i + 1) + 1)
        BY <2>1, <3>1 DEF TxWith
      <3>3. /\ ch[4].pos + (i + 1) = (ch[4].pos + 1) + i
            /\ Len(wire) + InData + (i + 1) + 1 = Len(wire) + 1 + i + 1
        <4>1. ch[4].pos \in Nat /\ Len(wire) \in Nat /\ i \in Nat
          BY TxTypes, Sizes
        <4>2. QED
          BY <2>2, <4>1
      <3>4. QED
        BY <3>2, <3>3
    <2>5. Len(wire) + 1 + Left' = b + Given
      <3>1. Len(wire) + InData + Left = b + Given
        BY DEF TxWith
      <3>2. Len(wire) \in Nat /\ ch[4].CHNDATA \in Nat
        BY TxTypes, Sizes
      <3>3. QED
        BY <2>2, <3>1, <3>2
    <2>6. QED
      BY <1>1, <2>1, <2>2, <2>3, <2>4, <2>5 DEF TxWith
  <1>5. CASE Load
    <2>1. /\ ~uart.TXBE /\ uart'.TXBE /\ wire' = Append(wire, tdr)
          /\ ch' = ch /\ uart_tx_buf' = uart_tx_buf
      BY <1>5, LoadEffect
    <2>2. InData = 1 /\ InData' = 0 /\ Left' = Left /\ Len(wire') = Len(wire) + 1
      BY <2>1, Types DEF Base, InData, Left
    <2>3. ASSUME NEW k \in 1..(Len(wire) + 1) PROVE wire'[k] = Outgoing(b, hist.skipped, k)
      <3>1. CASE k = Len(wire) + 1
        <4>1. wire'[k] = tdr
          BY <2>1, <3>1, Types DEF Base
        <4>2. QED
          BY <2>1, <3>1, <4>1 DEF TxWith
      <3>2. CASE k # Len(wire) + 1
        <4>1. k \in 1..Len(wire)
          BY <2>3, <3>2, TxTypes
        <4>2. wire'[k] = wire[k]
          BY <2>1, <4>1, Types DEF Base
        <4>3. QED
          BY <4>1, <4>2 DEF TxWith
      <3>3. QED
        BY <3>1, <3>2
    <2>4. ASSUME ch[4].CHEN, NEW i \in 0..MAX_LEN, i < ch[4].CHNDATA
          PROVE  uart_tx_buf[ch[4].pos + i] = Outgoing(b, hist.skipped, Len(wire') + 0 + i + 1)
      <3>1. uart_tx_buf[ch[4].pos + i] = Outgoing(b, hist.skipped, Len(wire) + InData + i + 1)
        BY <2>4 DEF TxWith
      <3>2. Len(wire') + 0 + i + 1 = Len(wire) + InData + i + 1
        BY <2>2, TxTypes
      <3>3. QED
        BY <3>1, <3>2
    <2>5. Len(wire') + 0 + Left = b + Given
      BY <2>2, TxTypes DEF TxWith
    <2>6. QED
      BY <1>1, <2>1, <2>2, <2>3, <2>4, <2>5 DEF TxWith
  <1>6. QED
    BY <1>2, <1>3, <1>4, <1>5

(* A step of any actor. *)
LEMMA TxNext ==
    ASSUME Base, MaxMsg <= MAX_LEN, FastCpu, PoliteHost, MessageInv, RxBytes, CopyInv, TxInv,
           [Next]_vars
    PROVE  TxInv'
  <1>0. Base' /\ CopyInv'
    BY BaseNext, CopyNext
  <1>1. CASE UNCHANGED vars
    BY <1>1 DEF vars, TxInv, TxWith, InData, Left, Given
  <1>2. CASE Boot
    <2>1. pc'["main"] # "loop"
      BY <1>2, Types DEF Base, Boot, Main_COMInit, Main_EnableDMA,
         Main_EnableInterrupt, Main_EnableIRQRequest, ConfigDma_EnableClock,
         ConfigDma_ResetCHCFG, ConfigDma_ResetRegs, ConfigDma_ReadCHCFG, ConfigDma_WriteCHCFG,
         ConfigDma_Number, ConfigDma_PeripheralAddr, ConfigDma_Addr, GoTo
    <2>2. QED
      BY <2>1 DEF TxInv
  <1>3. CASE SendData("main")
    BY <1>0, <1>3, TxMain
  <1>4. CASE LoopStep
    <2>1. pc["main"] = "loop"
      BY <1>4, LoopFacts
    <2>2. PICK b \in BannerSizes : TxWith(b)
      BY <2>1 DEF TxInv
    <2>3. \E c \in BannerSizes : TxWith(c)'
      BY <1>0, <1>4, <2>2, TxIsr, TxSendIsr, TxHardware, NoStray DEF LoopStep, Base
    <2>4. QED
      BY <2>3 DEF TxInv
  <1>5. QED
    BY <1>1, <1>2, <1>3, <1>4 DEF Next, LoopStep, Actors

-----------------------------------------------------------------------------
(* EchoExact. *)

LEMMA BannerChoice == BannerSizes = IF BootIdle = {FALSE} THEN {BannerLen} ELSE 0..BannerLen
  <1>1. CanIdle <=> BootIdle # {FALSE}
    <2>1. ASSUME TRUE \notin BootIdle PROVE BootIdle = {FALSE}
      <3>1. ASSUME NEW x \in BootIdle PROVE x = FALSE
        <4>1. BootIdle \subseteq BOOLEAN
          BY UsartEchoAssumption
        <4>2. x \in BOOLEAN /\ x # TRUE
          BY <2>1, <4>1, Zenon
        <4>3. QED
          BY <4>2, Zenon
      <3>2. BootIdle # {}
        BY UsartEchoAssumption
      <3>3. QED
        BY <3>1, <3>2, Zenon
    <2>2. ASSUME BootIdle = {FALSE} PROVE TRUE \notin BootIdle
      BY <2>2, Zenon
    <2>3. QED
      BY <2>1, <2>2, Zenon DEF CanIdle
  <1>2. QED
    BY <1>1 DEF BannerSizes

(* The whole sequence of EchoExact, byte by byte. *)
LEMMA WholeEcho ==
    ASSUME NEW b \in 0..BannerLen, NEW s \in 0..MaxBytes
    PROVE  LET all == SubSeq(Banner, 1, b) \o HostByteIds(s)
           IN  /\ all \in Seq(Int) /\ Len(all) = b + (MaxBytes - s)
               /\ \A k \in 1..Len(all) : all[k] = Outgoing(b, s, k)
  <1> DEFINE p == SubSeq(Banner, 1, b)
             q == HostByteIds(s)
  <1>1. Banner \in Seq(Int) /\ Len(Banner) = BannerLen /\ \A k \in 1..BannerLen : Banner[k] = MaxBytes + k
    BY Sizes DEF Banner
  <1>2. p \in Seq(Int) /\ Len(p) = b /\ \A k \in 1..b : p[k] = MaxBytes + k
    BY <1>1, Sizes
  <1>3. q \in Seq(Int) /\ Len(q) = MaxBytes - s /\ \A k \in 1..(MaxBytes - s) : q[k] = s + k
    BY Sizes DEF HostByteIds
  <1> HIDE DEF p, q
  <1>4. p \o q \in Seq(Int) /\ Len(p \o q) = b + (MaxBytes - s)
    <2>1. p \o q \in Seq(Int) /\ Len(p \o q) = Len(p) + Len(q)
      BY <1>2, <1>3, ConcatProperties, Zenon
    <2>2. QED
      BY <1>2, <1>3, <2>1
  <1>5. ASSUME NEW k \in 1..Len(p \o q) PROVE (p \o q)[k] = Outgoing(b, s, k)
    <2>1. CASE k <= b
      BY <1>2, <1>3, <1>4, <1>5, <2>1 DEF Outgoing
    <2>2. CASE ~(k <= b)
      <3>1. k - b \in 1..(MaxBytes - s)
        BY <1>4, <1>5, <2>2, Sizes
      <3>2. (p \o q)[k] = q[k - b]
        BY <1>2, <1>3, <1>4, <1>5, <2>2, SMTT(20)
      <3>3. QED
        BY <1>3, <2>2, <3>1, <3>2 DEF Outgoing
    <2>3. QED
      BY <2>1, <2>2
  <1>6. QED
    BY <1>4, <1>5 DEF p, q

(* A sequence that agrees with another one as far as it goes is its prefix. *)
LEMMA Prefix ==
    ASSUME NEW w \in Seq(Int), NEW all \in Seq(Int), Len(w) <= Len(all),
           \A k \in 1..Len(w) : w[k] = all[k]
    PROVE  w = SubSeq(all, 1, Len(w))
  <1>1. SubSeq(all, 1, Len(w)) \in Seq(Int) /\ Len(SubSeq(all, 1, Len(w))) = Len(w)
        /\ \A k \in 1..Len(w) : SubSeq(all, 1, Len(w))[k] = all[k]
    OBVIOUS
  <1>2. QED
    BY <1>1

(* The whole invariant. *)
EchoInv == Base /\ MessageInv /\ RxBytes /\ CopyInv /\ TxInv

(* No more host bytes are missed or handed on than were sent. *)
LEMMA Handed ==
    ASSUME EchoInv
    PROVE  /\ hist.skipped \in Nat /\ hist.handed \in Nat /\ line.sent \in 0..MaxBytes
           /\ hist.skipped + hist.handed <= line.sent
  <1>1. /\ hist.skipped \in Nat /\ hist.handed \in Nat /\ line.sent \in 0..MaxBytes
        /\ hist.lost \in Nat /\ hist.stored \in Nat
    BY Types DEF EchoInv, Base, History, LineState
  <1>2. hist.skipped <= hist.lost
    BY <1>1 DEF EchoInv, MessageInv, RxCounts
  <1>3. line.sent = hist.lost + hist.handed + hist.stored + (IF uart.RXBNE THEN 1 ELSE 0)
    BY DEF EchoInv, Base, ConserveInv, ByteConservation
  <1>4. QED
    BY <1>1, <1>2, <1>3

LEMMA EchoInvExact == ASSUME EchoInv PROVE EchoExact
  <1>1. wire \in Seq(Int) /\ Len(wire) \in Nat
    <2>1. Byte \subseteq Int
      BY Sizes DEF Byte
    <2>2. wire \in Seq(Byte)
      BY Types DEF EchoInv, Base
    <2>3. wire \in Seq(Int)
      BY <2>1, <2>2, SeqMonotonic, Zenon
    <2>4. QED
      BY <2>3
  <1>2. hist.skipped \in 0..MaxBytes /\ hist.handed \in Nat /\ hist.skipped + hist.handed <= MaxBytes
    BY Handed, Sizes
  <1>3. PICK b \in BannerSizes : /\ Len(wire) <= b + hist.handed
                                 /\ \A k \in 1..Len(wire) : wire[k] = Outgoing(b, hist.skipped, k)
    <2>1. CASE pc["main"] = "loop"
      <3>1. PICK b \in BannerSizes : TxWith(b)
        BY <2>1 DEF EchoInv, TxInv
      <3>2. Len(wire) + InData + Left = b + Given
        BY <3>1 DEF TxWith
      <3>3. b \in Nat /\ InData \in {0, 1} /\ Left \in Nat
        BY TxTypes DEF EchoInv
      <3>4. Given <= hist.handed
        BY <1>2, TxTypes, Sizes, SMTT(20) DEF EchoInv, Given
      <3>5. Given \in Nat
        BY TxTypes DEF EchoInv
      <3>6. Len(wire) <= b + hist.handed
        BY <1>1, <1>2, <3>2, <3>3, <3>4, <3>5
      <3>7. QED
        BY <3>1, <3>6 DEF TxWith
    <2>2. CASE pc["main"] # "loop"
      <3>1. Len(wire) = 0
        BY <2>2 DEF EchoInv, Base, SetupInv, QuietTx
      <3>2. BannerLen \in BannerSizes
        BY Sizes DEF BannerSizes
      <3>3. QED
        BY <1>2, <3>1, <3>2, Sizes
    <2>3. QED
      BY <2>1, <2>2
  <1>4. b \in 0..BannerLen
    BY Sizes DEF BannerSizes
  <1> DEFINE all == SubSeq(Banner, 1, b) \o HostByteIds(hist.skipped)
  <1>5. /\ all \in Seq(Int) /\ Len(all) = b + (MaxBytes - hist.skipped)
        /\ \A k \in 1..Len(all) : all[k] = Outgoing(b, hist.skipped, k)
    BY <1>2, <1>4, WholeEcho
  <1> HIDE DEF all
  <1>6. Len(wire) <= Len(all)
    BY <1>1, <1>2, <1>3, <1>4, <1>5, Sizes
  <1>7. \A k \in 1..Len(wire) : wire[k] = all[k]
    BY <1>1, <1>3, <1>5, <1>6
  <1>8. wire = SubSeq(all, 1, Len(wire))
    BY <1>1, <1>5, <1>6, <1>7, Prefix
  <1>9. QED
    BY <1>6, <1>8, BannerChoice DEF EchoExact, all

LEMMA EchoInit == ASSUME QuietBoot PROVE Init => EchoInv
  BY BaseInit, MessageInit, RxBytesInit, CopyInit, TxInit DEF EchoInv

LEMMA EchoNext ==
    ASSUME PoliteHost, FastCpu, MaxMsg <= MAX_LEN PROVE EchoInv /\ [Next]_vars => EchoInv'
  BY BaseNext, MessageNext, RxBytesNext, CopyNext, TxNext DEF EchoInv

(* For every buffer size, banner and number of messages, each at most as    *)
(* long as the buffer, with a quiet boot, a host that waits for silence and *)
(* a CPU faster than the line: what goes out is the banner, whole unless a  *)
(* boot-time IDLE cut it short, and then the host's bytes from the first    *)
(* one after channel 5 was armed, in order, each once.                      *)
THEOREM EchoIsExact ==
    ASSUME QuietBoot, PoliteHost, FastCpu, MaxMsg <= MAX_LEN
    PROVE  Spec => []EchoExact
  <1>1. EchoInv => EchoExact
    BY EchoInvExact
  <1>2. QED
    BY <1>1, EchoInit, EchoNext, PTL DEF Spec

-----------------------------------------------------------------------------
(* The refinement of EchoService: what the host is heard to say, what it    *)
(* has closed with a pause and what is answered, step by step.              *)

(* How much of a sequence of outgoing bytes is banner. *)
LEMMA BannerCount ==
    ASSUME NEW w \in Seq(Byte), NEW b \in Nat, NEW s \in Nat, Len(w) <= b + (MaxBytes - s),
           \A k \in 1..Len(w) : w[k] = Outgoing(b, s, k)
    PROVE  Cardinality({i \in DOMAIN w : w[i] > MaxBytes}) = IF Len(w) <= b THEN Len(w) ELSE b
  <1> DEFINE n == IF Len(w) <= b THEN Len(w) ELSE b
  <1>1. Len(w) \in Nat /\ DOMAIN w = 1..Len(w)
    OBVIOUS
  <1>2. n \in Nat
    BY <1>1
  <1>3. ASSUME NEW i \in 1..Len(w) PROVE w[i] > MaxBytes <=> i \in 1..n
    <2>1. w[i] = Outgoing(b, s, i)
      OBVIOUS
    <2>2. QED
      BY <1>1, <2>1, Sizes DEF Outgoing
  <1>4. {i \in DOMAIN w : w[i] > MaxBytes} = 1..n
    <2>1. \A i \in 1..n : i \in 1..Len(w)
      BY <1>1
    <2> HIDE DEF n
    <2>2. QED
      BY <1>1, <1>3, <2>1, Zenon
  <1> HIDE DEF n
  <1>5. Cardinality(1..n) = n
    BY <1>2, FS_Interval
  <1>6. QED
    BY <1>4, <1>5 DEF n

(* What is answered are the first bytes heard, in order. *)
OutSeq(w, b, s) ==
    /\ w \in Seq(Byte) /\ b \in Nat /\ s \in Nat /\ Len(w) <= b + (MaxBytes - s)
    /\ \A k \in 1..Len(w) : w[k] = Outgoing(b, s, k)

BannerIn(w) == Cardinality({i \in DOMAIN w : w[i] > MaxBytes})
AnswerIn(w, n, s) == [i \in 1..(Len(w) - n) |-> w[n + i] - s]
FirstBytes(n, b) == [i \in 1..(IF n <= b THEN 0 ELSE n - b) |-> i]

LEMMA AnswerOrder ==
    ASSUME NEW w, NEW b, NEW s, OutSeq(w, b, s)
    PROVE  AnswerIn(w, BannerIn(w), s) = FirstBytes(Len(w), b)
  <1> USE DEF OutSeq, AnswerIn, FirstBytes
  <1> DEFINE n == BannerIn(w)
  <1>1. n = IF Len(w) <= b THEN Len(w) ELSE b
    BY BannerCount DEF BannerIn
  <1> HIDE DEF n
  <1>2. Len(w) \in Nat
    OBVIOUS
  <1>3. Len(w) - n = IF Len(w) <= b THEN 0 ELSE Len(w) - b
    BY <1>1, <1>2
  <1>4. ASSUME NEW i \in 1..(Len(w) - n) PROVE w[n + i] - s = i
    <2>1. n = b /\ n + i \in 1..Len(w) /\ ~(n + i <= b) /\ i \in Nat
      BY <1>1, <1>2
    <2>2. w[n + i] = s + ((n + i) - b)
      BY <2>1 DEF Outgoing
    <2>3. QED
      BY <2>1, <2>2
  <1>5. QED
    BY <1>3, <1>4 DEF n

(* The number of host bytes that went out never passes those handed on. *)
LEMMA WireBound ==
    ASSUME EchoInv, NEW b \in BannerSizes, TxWith(b)
    PROVE  /\ wire \in Seq(Byte) /\ Len(wire) \in Nat /\ b \in Nat
           /\ hist.skipped \in Nat /\ hist.handed \in Nat
           /\ Len(wire) + InData <= b + hist.handed
           /\ Len(wire) + InData <= b + (MaxBytes - hist.skipped)
  <1>1. /\ Len(wire) \in Nat /\ InData \in {0, 1} /\ Left \in Nat /\ Given \in Nat /\ b \in Nat
        /\ hist.skipped \in Nat /\ hist.handed \in Nat /\ frame["isr"].len \in 0..MAX_LEN
    BY TxTypes DEF EchoInv
  <1>2. Len(wire) + InData + Left = b + Given
    BY DEF TxWith
  <1>3. Given <= hist.handed
    BY <1>1, Sizes DEF Given
  <1>4. hist.skipped + hist.handed <= MaxBytes
    BY Handed, Sizes
  <1>5. wire \in Seq(Byte)
    BY Types DEF EchoInv, Base
  <1>6. QED
    BY <1>1, <1>2, <1>3, <1>4, <1>5, Sizes, SMTT(20)

LEMMA AnsweredIs ==
    ASSUME EchoInv, NEW b \in BannerSizes, TxWith(b)
    PROVE  Answered = [i \in 1..(IF Len(wire) <= b THEN 0 ELSE Len(wire) - b) |-> i]
  <1>1. /\ wire \in Seq(Byte) /\ b \in Nat /\ hist.skipped \in Nat
        /\ Len(wire) <= b + (MaxBytes - hist.skipped)
    BY WireBound, Sizes DEF InData
  <1>2. \A k \in 1..Len(wire) : wire[k] = Outgoing(b, hist.skipped, k)
    BY DEF TxWith
  <1>3. OutSeq(wire, b, hist.skipped)
    BY <1>1, <1>2 DEF OutSeq
  <1>4. QED
    BY <1>3, AnswerOrder DEF Answered, BannerSent, BannerIn, AnswerIn, FirstBytes

(* The three variables of EchoService. *)
serviceState == <<Heard, Heard - Unclosed, Answered>>

(* A step that leaves what they are made of alone. *)
LEMMA ServiceSame ==
    ASSUME wire' = wire, hist'.skipped = hist.skipped, hist'.armed = hist.armed,
           line'.sent = line.sent, line'.burst = line.burst
    PROVE  UNCHANGED serviceState
  BY DEF serviceState, Heard, Unclosed, Answered, BannerSent

LEMMA ServiceInit == Init => Service!Init
  <1> SUFFICES ASSUME Init PROVE Service!Init
    OBVIOUS
  <1>1. wire = << >> /\ hist.skipped = 0 /\ ~hist.armed
    BY DEF Init
  <1>2. Len(wire) = 0 /\ wire \in Seq(Byte)
    BY <1>1
  <1>3. Cardinality({i \in DOMAIN wire : wire[i] > MaxBytes}) = IF Len(wire) <= 0 THEN Len(wire) ELSE 0
    <2>1. /\ 0 \in Nat /\ Len(wire) <= 0 + (MaxBytes - 0)
          /\ \A k \in 1..Len(wire) : wire[k] = Outgoing(0, 0, k)
      BY <1>2, Sizes
    <2>2. QED
      BY <1>2, <2>1, BannerCount
  <1>4. BannerSent = 0
    BY <1>2, <1>3 DEF BannerSent
  <1>5. Answered = << >>
    BY <1>2, <1>4 DEF Answered
  <1>6. Heard = 0 /\ Heard - Unclosed = 0
    BY <1>1 DEF Heard, Unclosed
  <1>7. QED
    BY <1>5, <1>6 DEF Service!Init

(* Arming channel 5 is no step of the service: nothing has been handed on,  *)
(* so nothing was answered, and every byte before it is skipped.            *)
LEMMA ServiceArm ==
    ASSUME EchoInv, Isr_EnableRx, ~hist.armed PROVE UNCHANGED serviceState
  <1>1. /\ pc["isr"] = "enableRx" /\ hist'.armed /\ hist'.skipped = hist.lost
        /\ wire' = wire /\ line' = line /\ pc["main"] = "loop"
    BY EnableRxEffect, LoopFacts DEF EchoInv, TxSame, LoopStep, Isr
  <1>2. hist.stored = 0 /\ hist.handed = 0 /\ ~uart.RXBNE /\ line.burst = 0
    BY <1>1 DEF EchoInv, MessageInv, LineInv, RxCounts, ServedPcs
  <1>3. line.sent \in 0..MaxBytes /\ hist.lost \in Nat
    BY Types DEF EchoInv, Base, LineState, History
  <1>4. line.sent = hist.lost
    BY <1>2, <1>3 DEF EchoInv, Base, ConserveInv, ByteConservation
  <1>5. Heard = 0 /\ Heard - Unclosed = 0 /\ Heard' = 0 /\ (Heard - Unclosed)' = 0
    BY <1>1, <1>2, <1>3, <1>4 DEF Heard, Unclosed
  <1>6. PICK b \in BannerSizes : TxWith(b)
    BY <1>1 DEF EchoInv, TxInv
  <1>7. /\ wire \in Seq(Byte) /\ Len(wire) \in Nat /\ b \in Nat /\ Len(wire) <= b
    BY <1>2, <1>6, WireBound DEF InData
  <1>8. Answered = [i \in 1..0 |-> i]
    BY <1>6, <1>7, AnsweredIs
  <1>9. \A k \in 1..Len(wire) : wire[k] = Outgoing(b, hist.lost, k)
    BY <1>6, <1>7 DEF TxWith, Outgoing
  <1>10. Len(wire) <= b + (MaxBytes - hist.lost)
    BY <1>3, <1>4, <1>7, Sizes
  <1>11. [i \in 1..(Len(wire) - BannerSent) |-> wire[BannerSent + i] - hist.lost] = [i \in 1..0 |-> i]
    <2>1. [i \in 1..(Len(wire) - BannerSent) |-> wire[BannerSent + i] - hist.lost]
            = [i \in 1..(IF Len(wire) <= b THEN 0 ELSE Len(wire) - b) |-> i]
      <3>1. OutSeq(wire, b, hist.lost)
        BY <1>3, <1>7, <1>9, <1>10 DEF OutSeq
      <3>2. QED
        BY <3>1, AnswerOrder DEF BannerSent, BannerIn, AnswerIn, FirstBytes
    <2>2. QED
      BY <1>7, <2>1
  <1>12. BannerSent' = BannerSent
    BY <1>1 DEF BannerSent
  <1>13. Answered' = [i \in 1..0 |-> i]
    BY <1>1, <1>11, <1>12 DEF Answered
  <1>14. QED
    BY <1>5, <1>8, <1>13 DEF serviceState

(* A byte that enters the shift register is one of the banner, or the next  *)
(* answer to a message that has ended.                                      *)
LEMMA ServiceLoad ==
    ASSUME EchoInv, FastCpu, PoliteHost, Load
    PROVE  Service!Answer \/ UNCHANGED serviceState
  <1>1. /\ ~uart.TXBE /\ wire' = Append(wire, tdr) /\ hist' = hist
        /\ line'.sent = line.sent /\ line'.burst = line.burst /\ pc["main"] = "loop"
    BY LoadEffect, LoopFacts DEF EchoInv, LoopStep
  <1>2. PICK b \in BannerSizes : TxWith(b)
    BY <1>1 DEF EchoInv, TxInv
  <1>3. /\ wire \in Seq(Byte) /\ Len(wire) \in Nat /\ b \in Nat
        /\ hist.skipped \in Nat /\ hist.handed \in Nat
        /\ Len(wire) + 1 <= b + hist.handed
        /\ Len(wire) + 1 <= b + (MaxBytes - hist.skipped)
    BY <1>1, <1>2, WireBound DEF InData
  <1>4. wire' \in Seq(Byte) /\ Len(wire') = Len(wire) + 1
    <2>1. tdr \in Byte
      BY DEF EchoInv, Base, Inv, TypeOK, TypeUart
    <2>2. QED
      BY <1>1, <1>3, <2>1
  <1>5. \A k \in 1..Len(wire') : wire'[k] = Outgoing(b, hist.skipped, k)
    <2>1. TxWith(b)'
      BY <1>2, TxHardware DEF EchoInv
    <2>2. QED
      BY <1>1, <2>1 DEF TxWith
  <1>6. Answered = [i \in 1..(IF Len(wire) <= b THEN 0 ELSE Len(wire) - b) |-> i]
    BY <1>2, AnsweredIs
  <1>7. Answered' = [i \in 1..(IF Len(wire') <= b THEN 0 ELSE Len(wire') - b) |-> i]
    <2>1. Len(wire') <= b + (MaxBytes - hist.skipped)
      BY <1>3, <1>4
    <2>2. OutSeq(wire', b, hist.skipped)
      BY <1>3, <1>4, <1>5, <2>1 DEF OutSeq
    <2>3. AnswerIn(wire', BannerIn(wire'), hist.skipped) = FirstBytes(Len(wire'), b)
      BY <2>2, AnswerOrder, Zenon
    <2>4. Answered' = AnswerIn(wire', BannerIn(wire'), hist.skipped)
      BY <1>1 DEF Answered, BannerSent, BannerIn, AnswerIn
    <2>5. QED
      BY <2>3, <2>4 DEF FirstBytes
  <1>8. Heard' = Heard /\ (Heard - Unclosed)' = Heard - Unclosed
    BY <1>1 DEF Heard, Unclosed
  <1>9. CASE Len(wire) + 1 <= b
    <2>1. Answered' = Answered
      BY <1>3, <1>4, <1>6, <1>7, <1>9
    <2>2. QED
      BY <1>8, <2>1 DEF serviceState
  <1>10. CASE ~(Len(wire) + 1 <= b)
    <2> DEFINE n == Len(wire) - b
    <2>1. n \in Nat /\ n + 1 = Len(wire') - b /\ n < hist.handed
      BY <1>3, <1>4, <1>10
    <2>2. Answered = [i \in 1..n |-> i]
      BY <1>3, <1>6, <1>10, <2>1
    <2>3. Answered' = [i \in 1..(n + 1) |-> i]
      BY <1>3, <1>4, <1>7, <1>10, <2>1
    <2> HIDE DEF n
    <2>4. Len(Answered) = n
      BY <2>1, <2>2
    <2>5. Answered' = Append(Answered, Len(Answered) + 1)
      BY <2>1, <2>2, <2>3
    <2>6. hist.armed
      BY <1>3, <2>1 DEF EchoInv, MessageInv, RxCounts
    <2>7. line.burst = 0
      <3>1. line.burst \in Nat
        BY Types DEF EchoInv, Base, LineState
      <3>2. QED
        BY <1>1, <3>1 DEF EchoInv, MessageInv, LineInv, TxQuiet
    <2>8. line.sent - hist.skipped >= hist.handed
      <3>1. hist.stored \in Nat /\ line.sent \in Nat /\ hist.lost \in Nat
        BY Types DEF EchoInv, Base, LineState, History
      <3>2. hist.lost = hist.skipped
        BY <2>6 DEF EchoInv, MessageInv, RxCounts
      <3>3. line.sent = hist.lost + hist.handed + hist.stored + (IF uart.RXBNE THEN 1 ELSE 0)
        BY DEF EchoInv, Base, ConserveInv, ByteConservation
      <3>4. QED
        BY <1>3, <3>1, <3>2, <3>3
    <2>9. n < Heard - Unclosed
      <3>1. line.sent \in Nat
        BY Types DEF EchoInv, Base, LineState
      <3>2. Heard - Unclosed = line.sent - hist.skipped
        BY <1>3, <2>6, <2>7, <3>1 DEF Heard, Unclosed
      <3>3. QED
        BY <1>3, <2>1, <2>8, <3>1, <3>2
    <2>10. QED
      BY <1>8, <2>4, <2>5, <2>9 DEF Service!Answer
  <1>11. QED
    BY <1>9, <1>10

(* A byte of the host is heard once channel 5 is armed. *)
LEMMA ServiceHear ==
    ASSUME EchoInv, FastCpu, PoliteHost, HostByte
    PROVE  Service!Hear \/ UNCHANGED serviceState
  <1>1. /\ line.sent < MaxBytes /\ line'.sent = line.sent + 1 /\ line'.burst = line.burst + 1
        /\ hist'.armed = hist.armed /\ hist'.skipped = hist.skipped /\ wire' = wire
    BY HostByteEffect DEF EchoInv, TxSame
  <1>2. Answered' = Answered
    BY <1>1 DEF Answered, BannerSent
  <1>3. line.sent \in Nat /\ line.burst \in Nat /\ hist.skipped \in Nat /\ MaxBytes \in Nat
    BY Types, Sizes DEF EchoInv, Base, LineState, History
  <1>4. CASE ~hist.armed
    BY <1>1, <1>2, <1>4 DEF serviceState, Heard, Unclosed
  <1>5. CASE hist.armed
    <2>1. Heard < MaxBytes /\ Heard' = Heard + 1 /\ (Heard - Unclosed)' = Heard - Unclosed
      BY <1>1, <1>3, <1>5 DEF Heard, Unclosed
    <2>2. QED
      BY <1>2, <2>1 DEF Service!Hear
  <1>6. QED
    BY <1>4, <1>5

(* The idle line closes the message. *)
LEMMA ServicePause ==
    ASSUME EchoInv, FastCpu, IdleLine
    PROVE  Service!Pause \/ UNCHANGED serviceState
  <1>1. /\ line.idleNext /\ line'.sent = line.sent /\ line'.burst = 0
        /\ hist' = hist /\ wire' = wire
    BY IdleLineEffect DEF EchoInv, TxSame
  <1>2. Answered' = Answered /\ Heard' = Heard
    BY <1>1 DEF Answered, BannerSent, Heard
  <1>3. line.sent \in Nat /\ line.burst \in Nat /\ hist.skipped \in Nat
    BY Types, Sizes DEF EchoInv, Base, LineState, History
  <1>4. CASE ~hist.armed
    BY <1>1, <1>2, <1>4 DEF serviceState, Heard, Unclosed
  <1>5. CASE hist.armed
    <2>1. line.burst > 0
      BY <1>1, <1>3, <1>5 DEF EchoInv, MessageInv, LineInv
    <2>2. Heard - Unclosed < Heard /\ (Heard - Unclosed)' = Heard
      BY <1>1, <1>3, <1>5, <2>1 DEF Heard, Unclosed
    <2>3. QED
      BY <1>2, <2>2 DEF Service!Pause
  <1>6. QED
    BY <1>4, <1>5

(* Every step of the program, the hardware and the host is a step of the    *)
(* service or changes nothing of it.                                        *)
LEMMA ServiceStep ==
    ASSUME EchoInv, FastCpu, PoliteHost, [Next]_vars
    PROVE  [Service!Next]_serviceState
  <1>1. CASE UNCHANGED vars
    BY <1>1, ServiceSame DEF vars
  <1>2. CASE Boot \/ SendData("main")
    <2>1. /\ wire' = << >> /\ hist' = hist /\ ~hist'.armed /\ pc["main"] # "loop"
      BY <1>2, MainEffect DEF EchoInv
    <2>2. wire = << >>
      BY <2>1 DEF EchoInv, Base, SetupInv, QuietTx
    <2>3. QED
      BY <2>1, <2>2 DEF serviceState, Heard, Unclosed, Answered, BannerSent
  <1>3. CASE Isr
    <2>1. CASE Isr_EnableRx
      <3>1. CASE ~hist.armed
        BY <2>1, <3>1, ServiceArm
      <3>2. CASE hist.armed
        BY <2>1, <3>2, EnableRxEffect, ServiceSame DEF EchoInv, TxSame
      <3>3. QED
        BY <3>1, <3>2
    <2>2. CASE ~Isr_EnableRx
      <3>1. wire' = wire /\ line' = line /\ hist'.armed = hist.armed /\ hist'.skipped = hist.skipped
        BY <1>3, <2>2, EnterEffect, ReadIntFlagEffect, RxDataEffect, DisableRxEffect,
           ReadNumberEffect, NumberRxEffect DEF Isr, EchoInv, TxSame, RxSame
      <3>2. QED
        BY <3>1, ServiceSame
    <2>3. QED
      BY <2>1, <2>2
  <1>4. CASE SendData("isr")
    <2>1. wire' = wire /\ line' = line /\ hist' = hist
      BY <1>4 DEF SendData, SendData_Memcpy, SendData_Poll, SendData_Disable, SendData_Number,
         SendData_Enable
    <2>2. QED
      BY <2>1, ServiceSame
  <1>5. CASE TxDma \/ RxDma \/ ShiftDone
    <2>1. wire' = wire /\ line' = line /\ hist'.armed = hist.armed /\ hist'.skipped = hist.skipped
      BY <1>5, TxDmaEffect, RxDmaEffect, ShiftDoneEffect DEF EchoInv, TxSame, RxSame
    <2>2. QED
      BY <2>1, ServiceSame
  <1>6. CASE Load
    BY <1>6, ServiceLoad DEF Service!Next
  <1>7. CASE HostByte
    BY <1>7, ServiceHear DEF Service!Next
  <1>8. CASE IdleLine
    BY <1>8, ServicePause DEF Service!Next
  <1>9. QED
    BY <1>1, <1>2, <1>3, <1>4, <1>5, <1>6, <1>7, <1>8, NoStray DEF Next, Actors, EchoInv, Base

(* For every buffer size, banner and number of messages, each at most as    *)
(* long as the buffer, with a quiet boot, a host that waits for silence and *)
(* a CPU faster than the line, the program implements the safety of         *)
(* EchoService: no byte is answered before the pause that ends its message, *)
(* and the answers are the bytes heard, in order, each once.                *)
THEOREM EchoImplementsService ==
    ASSUME QuietBoot, PoliteHost, FastCpu, MaxMsg <= MAX_LEN
    PROVE  Spec => Service!Safe
  <1>1. EchoInv /\ [Next]_vars => [Service!Next]_serviceState
    BY ServiceStep
  <1>2. EchoInv /\ [Next]_vars => [Service!Next]_(Service!serviceVars)
    BY <1>1 DEF serviceState, Service!serviceVars
  <1>3. QED
    BY <1>2, ServiceInit, EchoInit, EchoNext, PTL DEF Spec, Service!Safe
=============================================================================
