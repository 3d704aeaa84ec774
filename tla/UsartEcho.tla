----------------------------- MODULE UsartEcho -----------------------------
(***************************************************************************)
(* The program of the repository: main.c of the USART_Interrupt example.   *)
(* USART1 receives by DMA1 channel 5 into uart_rx_buf; when the line falls *)
(* idle the interrupt handler copies what arrived into uart_tx_buf and     *)
(* sends it back by DMA1 channel 4.                                        *)
(*                                                                         *)
(* Two flows of control run code: main, and USART1_Isr, which preempts it. *)
(* Each of their steps is one access to a register or one copied byte.     *)
(* Three pieces of hardware run beside them: the receiver, the transmitter *)
(* and the two DMA channels.  The host PC is the environment.              *)
(*                                                                         *)
(* Bytes carry identities instead of values: the host's n-th byte is n,    *)
(* the banner's n-th byte is MaxBytes + n, and 0 is what the buffers hold  *)
(* after reset.                                                            *)
(***************************************************************************)
EXTENDS Dma, Sequences, FiniteSets

CONSTANTS
    MAX_LEN,     \* size of uart_tx_buf and uart_rx_buf (256 in main.c)
    BannerLen,   \* strlen(sbuf) of "start test..\r\n" (14 in main.c)
    MaxBytes,    \* bound: how many bytes the host sends in a behaviour
    MaxMsg,      \* bound: longest burst the host sends without a pause
    PoliteHost,  \* the host sends again only when the board has fallen silent
    QuietBoot,   \* nothing happens on the line before main reaches its loop
    BootIdle,    \* may the receiver see an idle line as soon as it is enabled?
    FastCpu      \* a frame on the line lasts longer than the handler runs

ASSUME UsartEchoAssumption ==
    /\ MAX_LEN \in Nat \ {0} /\ MAX_LEN < 65536
    /\ BannerLen \in 1..MAX_LEN
    /\ MaxBytes \in Nat
    /\ MaxMsg \in Nat \ {0}
    /\ BootIdle \subseteq BOOLEAN /\ BootIdle # {}
    /\ PoliteHost \in BOOLEAN /\ QuietBoot \in BOOLEAN /\ FastCpu \in BOOLEAN

VARIABLES
    pc,        \* where main and the handler are
    frame,     \* len and the copy index of each one's send_data
    cfg,       \* config_dma: the channel, and the CHEN its CHCFG access has read
    ch,        \* the registers of DMA1 channels 4 and 5
    dmaClk,    \* the AHB clock of DMA1 is on
    uart,      \* control and status bits of USART1
    rdr, tdr,  \* its receive and transmit data registers
    shifting,  \* the transmit shift register is busy
    irqOn,     \* USART1_IRQn is enabled in the NVIC
    uart_tx_buf, uart_rx_buf,
    line,      \* the receive line: bytes sent, current burst, idle detector
    wire,      \* every byte that entered the transmit shift register
    hist       \* history: bytes the DMA stored since the count was last set,
               \* bytes handed to send_data, bytes lost by the receiver, whether
               \* the handler has armed channel 5, bytes lost before it did, and
               \* whether an interrupt has fallen into config_dma

cpuVars  == <<pc, frame, cfg>>
dmaVars  == <<ch, dmaClk>>
uartVars == <<uart, rdr, tdr, shifting, irqOn>>
bufVars  == <<uart_tx_buf, uart_rx_buf>>
vars == <<pc, frame, cfg, ch, dmaClk, uart, rdr, tdr, shifting, irqOn,
          uart_tx_buf, uart_rx_buf, line, wire, hist>>

Actors   == {"main", "isr"}
Channels == {4, 5}
Addr     == {"uart_tx_buf", "uart_rx_buf"}
UartRegs == [UEN : BOOLEAN, DMAEN : BOOLEAN, IDLEIEN : BOOLEAN, TXBE : BOOLEAN,
             RXBNE : BOOLEAN, IDLE : BOOLEAN, stsRead : BOOLEAN]
Index    == 0..(MAX_LEN - 1)
Byte     == 0..(MaxBytes + BannerLen)

LineState == [sent : 0..MaxBytes, burst : 0..MaxMsg, idleNext : BOOLEAN, inFrame : BOOLEAN]
History == [stored : Nat, handed : Nat, lost : Nat, armed : BOOLEAN, skipped : Nat,
            early : BOOLEAN]

BannerByte(i) == MaxBytes + 1 + i
Banner == [i \in 1..BannerLen |-> MaxBytes + i]

SendDataPcs == {"memcpy", "poll", "disableTx", "numberTx", "enableTx"}
ConfigPcs == {"resetCfg", "resetRegs", "cfgRead", "cfgWrite", "cfgNumber", "cfgPeriph", "cfgAddr"}
Pcs == {"comInit", "enableDMA", "enableInt", "enableIRQ", "enableClk", "loop"}   \* main
       \cup ConfigPcs                                                           \* in config_dma
       \cup {"none", "readFlag", "rxData", "disableRx", "readNumber",
             "numberRx", "enableRx"}                                            \* the handler
       \cup SendDataPcs

-----------------------------------------------------------------------------
Init ==
    /\ pc = [a \in Actors |-> IF a = "main" THEN "comInit" ELSE "none"]
    /\ frame = [a \in Actors |-> [len |-> 0, idx |-> 0]]
    /\ cfg = [chan |-> 4, CHEN |-> FALSE]
    /\ ch = [c \in Channels |-> ResetChannel]
    /\ dmaClk = FALSE
    /\ uart = [UEN |-> FALSE, DMAEN |-> FALSE, IDLEIEN |-> FALSE, TXBE |-> TRUE,
               RXBNE |-> FALSE, IDLE |-> FALSE, stsRead |-> FALSE]
    /\ rdr = 0 /\ tdr = 0 /\ shifting = FALSE /\ irqOn = FALSE
    /\ uart_tx_buf = [i \in Index |-> 0]
    /\ uart_rx_buf = [i \in Index |-> 0]
    /\ line = [sent |-> 0, burst |-> 0, idleNext |-> FALSE, inFrame |-> FALSE]
    /\ wire = << >>
    /\ hist = [stored |-> 0, handed |-> 0, lost |-> 0, armed |-> FALSE, skipped |-> 0,
               early |-> FALSE]

(* The handler preempts main and runs to its end; main never preempts it.  *)
At(a, p) == pc[a] = p /\ (a = "main" => pc["isr"] = "none")
GoTo(a, p) == pc' = [pc EXCEPT ![a] = p]

(* A register of DMA1 reads as 0 and ignores writes while its clock is off. *)
WriteChannel(c, r) == ch' = IF dmaClk THEN [ch EXCEPT ![c] = r] ELSE ch

(* IDLE is cleared by a read of STS that has seen it followed by a read of *)
(* DATA, whichever bus master reads; RXBNE is cleared by a read of DATA.   *)
AfterReadSTS == [uart EXCEPT !.stsRead = uart.IDLE]
AfterReadDATA ==
    [uart EXCEPT !.RXBNE = FALSE, !.stsRead = FALSE,
                 !.IDLE = uart.IDLE /\ ~uart.stsRead]

-----------------------------------------------------------------------------
(* main(), lines 97-130. *)

(* LED, clocks, USART_Config and USART_Enable: the receiver starts to listen. *)
Main_COMInit ==
    /\ At("main", "comInit")
    /\ uart' = [uart EXCEPT !.UEN = TRUE]
    /\ \E b \in BootIdle : line' = [line EXCEPT !.idleNext = b]
    /\ GoTo("main", "enableDMA")
    /\ UNCHANGED <<cfg, frame, dmaVars, rdr, tdr, shifting, irqOn, bufVars, wire, hist>>

Main_EnableDMA ==
    /\ At("main", "enableDMA")
    /\ uart' = [uart EXCEPT !.DMAEN = TRUE]
    /\ GoTo("main", "enableInt")
    /\ UNCHANGED <<cfg, frame, dmaVars, rdr, tdr, shifting, irqOn, bufVars, line, wire, hist>>

Main_EnableInterrupt ==
    /\ At("main", "enableInt")
    /\ uart' = [uart EXCEPT !.IDLEIEN = TRUE]
    /\ GoTo("main", "enableIRQ")
    /\ UNCHANGED <<cfg, frame, dmaVars, rdr, tdr, shifting, irqOn, bufVars, line, wire, hist>>

Main_EnableIRQRequest ==
    /\ At("main", "enableIRQ")
    /\ irqOn' = TRUE
    /\ GoTo("main", "enableClk")
    /\ UNCHANGED <<cfg, frame, dmaVars, uart, rdr, tdr, shifting, bufVars, line, wire, hist>>

-----------------------------------------------------------------------------
(* config_dma(), lines 63-91; cfg.chan is the channel being configured.   *)
(* The interrupt is already enabled: the handler may run between any two   *)
(* of these steps.                                                         *)

ConfigDma_EnableClock ==
    /\ At("main", "enableClk")
    /\ dmaClk' = TRUE
    /\ GoTo("main", "resetCfg")
    /\ UNCHANGED <<cfg, frame, ch, uartVars, bufVars, line, wire, hist>>

ConfigDma_ResetCHCFG ==
    /\ At("main", "resetCfg")
    /\ WriteChannel(cfg.chan, DMA_ResetCHCFG(ch[cfg.chan]))
    /\ GoTo("main", "resetRegs")
    /\ UNCHANGED <<cfg, frame, dmaClk, uartVars, bufVars, line, wire, hist>>

ConfigDma_ResetRegs ==
    /\ At("main", "resetRegs")
    /\ WriteChannel(cfg.chan, DMA_ResetRegs(ch[cfg.chan]))
    /\ GoTo("main", "cfgRead")
    /\ UNCHANGED <<cfg, frame, dmaClk, uartVars, bufVars, line, wire, hist>>

ConfigDma_ReadCHCFG ==
    /\ At("main", "cfgRead")
    /\ cfg' = [cfg EXCEPT !.CHEN = ch[cfg.chan].CHEN]
    /\ GoTo("main", "cfgWrite")
    /\ UNCHANGED <<frame, dmaVars, uartVars, bufVars, line, wire, hist>>

ConfigDma_WriteCHCFG ==
    /\ At("main", "cfgWrite")
    /\ WriteChannel(cfg.chan,
           DMA_ConfigCHCFG(ch[cfg.chan], cfg.CHEN,
                           IF cfg.chan = 4 THEN "dst" ELSE "src", FALSE))
    /\ GoTo("main", "cfgNumber")
    /\ UNCHANGED <<cfg, frame, dmaClk, uartVars, bufVars, line, wire, hist>>

ConfigDma_Number ==
    /\ At("main", "cfgNumber")
    /\ WriteChannel(cfg.chan,
           DMA_ConfigDataNumber(ch[cfg.chan], IF cfg.chan = 4 THEN 0 ELSE MAX_LEN))
    /\ GoTo("main", "cfgPeriph")
    /\ UNCHANGED <<cfg, frame, dmaClk, uartVars, bufVars, line, wire, hist>>

ConfigDma_PeripheralAddr ==
    /\ At("main", "cfgPeriph")
    /\ WriteChannel(cfg.chan, DMA_ConfigPeripheralAddr(ch[cfg.chan], "DATA"))
    /\ GoTo("main", "cfgAddr")
    /\ UNCHANGED <<cfg, frame, dmaClk, uartVars, bufVars, line, wire, hist>>

BufferOf(c) == IF c = 4 THEN "uart_tx_buf" ELSE "uart_rx_buf"

(* A faulty variant: the second call of DMA_Config with the first one's    *)
(* memoryBaseAddr.                                                         *)
ConfigDma_AddrKept ==
    /\ At("main", "cfgAddr")
    /\ WriteChannel(cfg.chan, DMA_ConfigMemoryAddr(ch[cfg.chan], "uart_tx_buf"))
    /\ cfg' = [cfg EXCEPT !.chan = 5]
    /\ frame' = [frame EXCEPT !["main"] = [len |-> BannerLen, idx |-> 0]]
    /\ GoTo("main", IF cfg.chan = 4 THEN "resetCfg" ELSE "memcpy")
    /\ UNCHANGED <<dmaClk, uartVars, bufVars, line, wire, hist>>

(* The last write of DMA_Config; after channel 5 main calls send_data with *)
(* the banner.                                                             *)
ConfigDma_Addr ==
    /\ At("main", "cfgAddr")
    /\ WriteChannel(cfg.chan, DMA_ConfigMemoryAddr(ch[cfg.chan], BufferOf(cfg.chan)))
    /\ cfg' = [cfg EXCEPT !.chan = 5]
    /\ frame' = [frame EXCEPT !["main"] = [len |-> BannerLen, idx |-> 0]]
    /\ GoTo("main", IF cfg.chan = 4 THEN "resetCfg" ELSE "memcpy")
    /\ UNCHANGED <<dmaClk, uartVars, bufVars, line, wire, hist>>

-----------------------------------------------------------------------------
(* send_data(buf, len), lines 155-163, called by main with the banner and  *)
(* by the handler with uart_rx_buf.                                        *)

SourceByte(a, i) == IF a = "main" THEN BannerByte(i) ELSE uart_rx_buf[i]

SendData_Memcpy(a) ==
    /\ At(a, "memcpy")
    /\ \/ /\ frame[a].idx < frame[a].len
          /\ uart_tx_buf' = [uart_tx_buf EXCEPT ![frame[a].idx] = SourceByte(a, frame[a].idx)]
          /\ frame' = [frame EXCEPT ![a].idx = @ + 1]
          /\ UNCHANGED pc
       \/ /\ frame[a].idx = frame[a].len
          /\ GoTo(a, "poll")
          /\ UNCHANGED <<uart_tx_buf, frame>>
    /\ UNCHANGED <<cfg, dmaVars, uartVars, uart_rx_buf, line, wire, hist>>

(* while (USART_ReadStatusFlag(USART1, USART_FLAG_TXBE) == RESET); *)
SendData_Poll(a) ==
    /\ At(a, "poll")
    /\ uart' = AfterReadSTS
    /\ IF uart.TXBE THEN GoTo(a, "disableTx") ELSE UNCHANGED pc
    /\ UNCHANGED <<cfg, frame, dmaVars, rdr, tdr, shifting, irqOn, bufVars, line, wire, hist>>

SendData_Disable(a) ==
    /\ At(a, "disableTx")
    /\ WriteChannel(4, DMA_Disable(ch[4]))
    /\ GoTo(a, "numberTx")
    /\ UNCHANGED <<cfg, frame, dmaClk, uartVars, bufVars, line, wire, hist>>

SendData_Number(a) ==
    /\ At(a, "numberTx")
    /\ WriteChannel(4, DMA_ConfigDataNumber(ch[4], frame[a].len))
    /\ GoTo(a, "enableTx")
    /\ UNCHANGED <<cfg, frame, dmaClk, uartVars, bufVars, line, wire, hist>>

(* A faulty variant: send_data leaves channel 4 disabled. *)
SendData_NoEnable(a) ==
    /\ At(a, "enableTx")
    /\ GoTo(a, IF a = "main" THEN "loop" ELSE "enableRx")
    /\ UNCHANGED <<cfg, frame, dmaVars, uartVars, bufVars, line, wire, hist>>

SendData_Enable(a) ==
    /\ At(a, "enableTx")
    /\ WriteChannel(4, DMA_Enable(ch[4]))
    /\ GoTo(a, IF a = "main" THEN "loop" ELSE "enableRx")
    /\ UNCHANGED <<cfg, frame, dmaClk, uartVars, bufVars, line, wire, hist>>

-----------------------------------------------------------------------------
(* USART1_IRQHandler and USART1_Isr, lines 166-178. *)

IrqPending == irqOn /\ uart.IDLE /\ uart.IDLEIEN /\ pc["isr"] = "none"

Isr_Enter ==
    /\ IrqPending
    /\ hist' = IF pc["main"] \in ConfigPcs THEN [hist EXCEPT !.early = TRUE] ELSE hist
    /\ GoTo("isr", "readFlag")
    /\ UNCHANGED <<cfg, frame, dmaVars, uartVars, bufVars, line, wire>>

(* USART_ReadIntFlag: the enable bit and the status bit; reads STS. *)
Isr_ReadIntFlag ==
    /\ At("isr", "readFlag")
    /\ uart' = AfterReadSTS
    /\ GoTo("isr", IF uart.IDLE /\ uart.IDLEIEN THEN "rxData" ELSE "none")
    /\ UNCHANGED <<cfg, frame, dmaVars, rdr, tdr, shifting, irqOn, bufVars, line, wire, hist>>

(* A faulty variant: the handler does not read DATA. *)
Isr_NoRxData ==
    /\ At("isr", "rxData")
    /\ GoTo("isr", "disableRx")
    /\ UNCHANGED <<cfg, frame, dmaVars, uartVars, bufVars, line, wire, hist>>

(* USART_RxData: the read of DATA that clears IDLE takes the byte in RDR   *)
(* with it, if the DMA has not fetched it yet.                             *)
Isr_RxData ==
    /\ At("isr", "rxData")
    /\ uart' = AfterReadDATA
    /\ hist' = IF uart.RXBNE THEN [hist EXCEPT !.lost = @ + 1] ELSE hist
    /\ GoTo("isr", "disableRx")
    /\ UNCHANGED <<cfg, frame, dmaVars, rdr, tdr, shifting, irqOn, bufVars, line, wire>>

(* A faulty variant: channel 5 keeps running while the handler reads it. *)
Isr_NoDisableRx ==
    /\ At("isr", "disableRx")
    /\ GoTo("isr", "readNumber")
    /\ UNCHANGED <<cfg, frame, dmaVars, uartVars, bufVars, line, wire, hist>>

Isr_DisableRx ==
    /\ At("isr", "disableRx")
    /\ WriteChannel(5, DMA_Disable(ch[5]))
    /\ GoTo("isr", "readNumber")
    /\ UNCHANGED <<cfg, frame, dmaClk, uartVars, bufVars, line, wire, hist>>

(* Faulty variants: the length is one too large, or what is left to receive. *)
Isr_ReadNumberPlusOne ==
    /\ At("isr", "readNumber")
    /\ LET n == IF dmaClk THEN DMA_ReadDataNumber(ch[5]) ELSE 0
       IN  frame' = [frame EXCEPT !["isr"] = [len |-> U16(MAX_LEN - n + 1), idx |-> 0]]
    /\ GoTo("isr", "numberRx")
    /\ UNCHANGED <<cfg, dmaVars, uartVars, bufVars, line, wire, hist>>

Isr_ReadNumberLeft ==
    /\ At("isr", "readNumber")
    /\ frame' = [frame EXCEPT !["isr"] = [len |-> DMA_ReadDataNumber(ch[5]), idx |-> 0]]
    /\ GoTo("isr", "numberRx")
    /\ UNCHANGED <<cfg, dmaVars, uartVars, bufVars, line, wire, hist>>

(* tmp_len = MAX_LEN - DMA_ReadDataNumber(DMA1_Channel5), a u16. *)
Isr_ReadNumber ==
    /\ At("isr", "readNumber")
    /\ LET n == IF dmaClk THEN DMA_ReadDataNumber(ch[5]) ELSE 0
       IN  frame' = [frame EXCEPT !["isr"] = [len |-> U16(MAX_LEN - n), idx |-> 0]]
    /\ GoTo("isr", "numberRx")
    /\ UNCHANGED <<cfg, dmaVars, uartVars, bufVars, line, wire, hist>>

(* A faulty variant: the count is not set for the next burst. *)
Isr_NoNumberRx ==
    /\ At("isr", "numberRx")
    /\ hist' = IF ch[5].CHMADDR = NoAddr THEN hist
               ELSE [hist EXCEPT !.handed = @ + frame["isr"].len, !.stored = 0]
    /\ GoTo("isr", "memcpy")
    /\ UNCHANGED <<cfg, frame, dmaVars, uartVars, bufVars, line, wire>>

(* The count is set for the next burst, then send_data(uart_rx_buf, tmp_len). *)
Isr_NumberRx ==
    /\ At("isr", "numberRx")
    /\ WriteChannel(5, DMA_ConfigDataNumber(ch[5], MAX_LEN))
    /\ hist' = IF ch[5].CHMADDR = NoAddr THEN hist
               ELSE [hist EXCEPT !.handed = @ + frame["isr"].len, !.stored = 0]
    /\ GoTo("isr", "memcpy")
    /\ UNCHANGED <<cfg, frame, dmaClk, uartVars, bufVars, line, wire>>

(* A faulty variant: channel 5 stays disabled. *)
Isr_NoEnableRx ==
    /\ At("isr", "enableRx")
    /\ hist' = IF hist.armed \/ ch[5].CHMADDR = NoAddr THEN hist
               ELSE [hist EXCEPT !.armed = TRUE, !.skipped = hist.lost]
    /\ GoTo("isr", "none")
    /\ UNCHANGED <<cfg, frame, dmaVars, uartVars, bufVars, line, wire>>

Isr_EnableRx ==
    /\ At("isr", "enableRx")
    /\ WriteChannel(5, DMA_Enable(ch[5]))
    /\ hist' = IF hist.armed \/ ch[5].CHMADDR = NoAddr THEN hist
               ELSE [hist EXCEPT !.armed = TRUE, !.skipped = hist.lost]
    /\ GoTo("isr", "none")
    /\ UNCHANGED <<cfg, frame, dmaClk, uartVars, bufVars, line, wire>>

-----------------------------------------------------------------------------
(* The hardware: the two DMA channels serve their requests, the transmitter *)
(* moves DATA to its shift register and shifts it out.                      *)

DmaRequest(c) ==
    /\ uart.UEN /\ uart.DMAEN
    /\ IF c = 4 THEN uart.TXBE ELSE uart.RXBNE

(* A channel without a memory address reads some byte nobody sent, 0. *)
TxDma ==
    /\ CanTransfer(ch[4]) /\ DmaRequest(4) /\ ch[4].CHPADDR = "DATA"
    /\ tdr' = IF ch[4].CHMADDR = NoAddr THEN 0 ELSE uart_tx_buf[ch[4].pos]
    /\ uart' = [uart EXCEPT !.TXBE = FALSE]
    /\ ch' = [ch EXCEPT ![4] = Transfer(ch[4])]
    /\ UNCHANGED <<cpuVars, dmaClk, rdr, shifting, irqOn, bufVars, line, wire, hist>>

RxDma ==
    /\ CanTransfer(ch[5]) /\ DmaRequest(5) /\ ch[5].CHMADDR = "uart_rx_buf"
    /\ uart_rx_buf' = [uart_rx_buf EXCEPT ![ch[5].pos] = rdr]
    /\ uart' = AfterReadDATA
    /\ ch' = [ch EXCEPT ![5] = Transfer(ch[5])]
    /\ hist' = [hist EXCEPT !.stored = @ + 1]
    /\ UNCHANGED <<cpuVars, dmaClk, rdr, tdr, shifting, irqOn, uart_tx_buf, line, wire>>

(* The handler has enabled a channel that config_dma had not finished: the *)
(* access to address 0 either does nothing or is a bus error, which        *)
(* switches the channel off.  A peripheral address already written still   *)
(* makes channel 5 read DATA.                                              *)
DmaStray(c) ==
    /\ CanTransfer(ch[c]) /\ DmaRequest(c)
    /\ NoAddr = IF c = 4 THEN ch[4].CHPADDR ELSE ch[5].CHMADDR
    /\ \/ ch' = [ch EXCEPT ![c] = Transfer(ch[c])]
       \/ ch' = [ch EXCEPT ![c].CHEN = FALSE]
    /\ IF c = 5 /\ ch[5].CHPADDR = "DATA"
       THEN uart' = AfterReadDATA /\ hist' = [hist EXCEPT !.lost = @ + 1]
       ELSE UNCHANGED <<uart, hist>>
    /\ UNCHANGED <<cpuVars, dmaClk, rdr, tdr, shifting, irqOn, bufVars, line, wire>>

Load ==
    /\ ~uart.TXBE /\ ~shifting
    /\ wire' = Append(wire, tdr)
    /\ uart' = [uart EXCEPT !.TXBE = TRUE]
    /\ shifting' = TRUE
    /\ line' = [line EXCEPT !.inFrame = FALSE]
    /\ UNCHANGED <<cpuVars, dmaVars, rdr, tdr, irqOn, bufVars, hist>>

(* The two timing regimes.  At 115200 baud a frame lasts 86 us, some 6000  *)
(* cycles of the CPU: more than the whole handler takes, the copy of 256   *)
(* bytes included, unless it waits for TXBE.  With FastCpu the line moves  *)
(* only when the CPU has nothing left to do but wait for it, and the       *)
(* receiver sees at most one event in the time of one transmitted frame.   *)
Waiting ==
    \/ At("main", "loop") /\ ~IrqPending
    \/ ~uart.TXBE /\ \E a \in Actors : At(a, "poll")

DmaPending == \E c \in Channels : CanTransfer(ch[c]) /\ DmaRequest(c)

LineMayMove == FastCpu => Waiting /\ ~DmaPending /\ (uart.TXBE \/ shifting)

ShiftDone ==
    /\ shifting /\ LineMayMove
    /\ shifting' = FALSE
    /\ UNCHANGED <<cpuVars, dmaVars, uart, rdr, tdr, irqOn, bufVars, line, wire, hist>>

-----------------------------------------------------------------------------
(* The host and the receiver. *)

RxLineMayMove ==
    /\ LineMayMove
    /\ FastCpu /\ shifting => ~line.inFrame
    /\ QuietBoot => pc["main"] = "loop"

(* The board has nothing more to say. *)
Silent ==
    /\ uart.TXBE /\ ~shifting /\ ~CanTransfer(ch[4])
    /\ At("main", "loop") /\ ~uart.IDLE /\ ~line.idleNext

(* A byte that completes while DATA still holds the one before is lost. *)
HostByte ==
    /\ uart.UEN /\ RxLineMayMove
    /\ line.sent < MaxBytes /\ line.burst < MaxMsg
    /\ PoliteHost /\ line.burst = 0 => Silent
    /\ line' = [sent |-> line.sent + 1, burst |-> line.burst + 1, idleNext |-> TRUE,
                inFrame |-> FastCpu /\ shifting]
    /\ IF uart.RXBNE
       THEN hist' = [hist EXCEPT !.lost = @ + 1] /\ UNCHANGED <<uart, rdr>>
       ELSE rdr' = line.sent + 1 /\ uart' = [uart EXCEPT !.RXBNE = TRUE] /\ UNCHANGED hist
    /\ UNCHANGED <<cpuVars, dmaVars, tdr, shifting, irqOn, bufVars, wire>>

IdleLine ==
    /\ line.idleNext /\ RxLineMayMove
    /\ uart' = [uart EXCEPT !.IDLE = TRUE]
    /\ line' = [line EXCEPT !.idleNext = FALSE, !.burst = 0, !.inFrame = FastCpu /\ shifting]
    /\ UNCHANGED <<cpuVars, dmaVars, rdr, tdr, shifting, irqOn, bufVars, wire, hist>>

-----------------------------------------------------------------------------
Boot ==
    \/ Main_COMInit \/ Main_EnableDMA \/ Main_EnableInterrupt \/ Main_EnableIRQRequest
    \/ ConfigDma_EnableClock \/ ConfigDma_ResetCHCFG \/ ConfigDma_ResetRegs
    \/ ConfigDma_ReadCHCFG \/ ConfigDma_WriteCHCFG \/ ConfigDma_Number
    \/ ConfigDma_PeripheralAddr \/ ConfigDma_Addr

SendData(a) ==
    \/ SendData_Memcpy(a) \/ SendData_Poll(a) \/ SendData_Disable(a)
    \/ SendData_Number(a) \/ SendData_Enable(a)

Isr ==
    \/ Isr_Enter \/ Isr_ReadIntFlag \/ Isr_RxData \/ Isr_DisableRx
    \/ Isr_ReadNumber \/ Isr_NumberRx \/ Isr_EnableRx

Next ==
    \/ Boot \/ Isr \/ \E a \in Actors : SendData(a)
    \/ TxDma \/ RxDma \/ (\E c \in Channels : DmaStray(c))
    \/ Load \/ ShiftDone \/ HostByte \/ IdleLine

Spec == Init /\ [][Next]_vars

(* The CPU executes, the DMA and the transmitter serve what is pending and *)
(* silence is eventually an idle line; the host need not send anything.    *)
Fairness ==
    /\ WF_vars(Boot) /\ WF_vars(Isr) /\ WF_vars(SendData("main")) /\ WF_vars(SendData("isr"))
    /\ WF_vars(TxDma) /\ WF_vars(RxDma) /\ (\A c \in Channels : WF_vars(DmaStray(c)))
    /\ WF_vars(Load) /\ WF_vars(ShiftDone) /\ WF_vars(IdleLine)

FairSpec == Spec /\ Fairness

-----------------------------------------------------------------------------
(* Properties. *)

TypeCpu ==
    /\ pc \in [Actors -> Pcs]
    /\ frame \in [Actors -> [len : 0..MAX_LEN, idx : 0..MAX_LEN]]
    /\ cfg \in [chan : Channels, CHEN : BOOLEAN]
TypeDma == ch \in [Channels -> ChannelRegs(Addr, MAX_LEN)] /\ dmaClk \in BOOLEAN
TypeUart ==
    /\ uart \in UartRegs
    /\ rdr \in Byte /\ tdr \in Byte /\ shifting \in BOOLEAN /\ irqOn \in BOOLEAN
TypeBuf == uart_tx_buf \in [Index -> Byte] /\ uart_rx_buf \in [Index -> Byte]
TypeLine ==
    /\ line \in LineState
    /\ wire \in Seq(Byte)
TypeHist == hist \in History

(* The type invariant. *)
TypeOK == TypeCpu /\ TypeDma /\ TypeUart /\ TypeBuf /\ TypeLine /\ TypeHist

(* memcpy stays within uart_tx_buf, uart_rx_buf and main's sbuf, and what  *)
(* a channel has left to transfer within MAX_LEN units of its start.  That *)
(* start is the channel's own buffer, unless an interrupt has fallen into  *)
(* config_dma: the handler then enables channels that have no address yet, *)
(* their registers no longer take one, and they transfer at address 0, but *)
(* never at the other channel's buffer.                                    *)
BufferSafe ==
    /\ \A a \in Actors : frame[a].idx <= frame[a].len /\ frame[a].len <= MAX_LEN
    /\ frame["main"].len <= BannerLen
    /\ \A c \in Channels : CanTransfer(ch[c]) =>
          /\ ch[c].pos + ch[c].CHNDATA <= MAX_LEN
          /\ ch[c].CHMADDR \in {BufferOf(c), NoAddr}
          /\ ~hist.early => ch[c].CHMADDR = BufferOf(c) /\ ch[c].CHPADDR = "DATA"

(* From the moment the handler has read the count until it enables channel *)
(* 5 again, nothing changes uart_rx_buf: memcpy reads what was counted.    *)
SnapshotStable ==
    [][pc["isr"] \in {"numberRx", "enableRx"} \cup SendDataPcs
           => uart_rx_buf' = uart_rx_buf]_vars

(* Every byte of the host is accounted for exactly once: lost by the       *)
(* receiver, in DATA, stored since the count was set, or part of a length  *)
(* the handler computed as MAX_LEN - CHNDATA.                              *)
ByteConservation ==
    line.sent = hist.lost + hist.handed + hist.stored + (IF uart.RXBNE THEN 1 ELSE 0)

(* The program always comes back to its idle loop with no interrupt        *)
(* pending: boot ends, send_data does not wait for TXBE forever, and the   *)
(* handler clears the IDLE flag that called it.                            *)
ReturnsToLoop == []<>(At("main", "loop") /\ ~IrqPending)

HostByteIds(n) == [i \in 1..(MaxBytes - n) |-> n + i]

(* What goes out is the banner, whole unless a boot-time IDLE cut it short, *)
(* and then the host's bytes from the first one after channel 5 was armed,  *)
(* in order, each once.                                                     *)
EchoExact ==
    \E b \in (IF BootIdle = {FALSE} THEN {BannerLen} ELSE 0..BannerLen) :
        LET all == SubSeq(Banner, 1, b) \o HostByteIds(hist.skipped)
        IN  Len(wire) <= Len(all) /\ wire = SubSeq(all, 1, Len(wire))

(* Once channel 5 is armed no byte of the host is lost. *)
ArmedLossless == [][hist.armed => hist'.lost = hist.lost]_vars

OnWire(n) == \E i \in DOMAIN wire : wire[i] = n

(* The board as an EchoService: the messages are those that start after    *)
(* channel 5 was armed, and the banner is no answer.                       *)
Heard == IF hist.armed THEN line.sent - hist.skipped ELSE 0
Unclosed == IF hist.armed THEN line.burst ELSE 0
BannerSent == Cardinality({i \in DOMAIN wire : wire[i] > MaxBytes})
Answered == [i \in 1..(Len(wire) - BannerSent) |-> wire[BannerSent + i] - hist.skipped]

Service == INSTANCE EchoService
               WITH MaxHeard <- MaxBytes, heard <- Heard, closed <- Heard - Unclosed,
                    answer <- Answered

(* With a host that waits for silence, the program of the two flows of     *)
(* control, two DMA channels and one UART implements EchoService, its      *)
(* liveness included: every message after the arming one is answered.      *)
ImplementsService == Service!Service

(* "if it receives a message from the PC For the data, the MCU will return *)
(* the same data": every byte the host sends is eventually sent back.      *)
MessageEchoed == \A n \in 1..MaxBytes : (line.sent >= n) ~> OnWire(n)
=============================================================================
