# A verification project for the USART idle-interrupt DMA echo and its SDK

The repository is one program, an echo server over USART1 that receives by DMA
until the line falls idle, together with the vendor SDK (APM32F10x SDK V1.8) it
is built from. This directory models the program, the drivers it uses and the
parts of the SDK with protocols of their own (flash, Ethernet, USB device, USB
host) in TLA+, checks the models with TLC and proves the main safety properties
of the program and of the drivers, for every size of buffer, ring or packet, with
TLAPS. Paths below are relative to `APM32F10x_SDK_V1.8/`.

## Inventory

| Part | State it keeps | Operations | Why it is hard |
|---|---|---|---|
| Echo program, `Examples/USART/USART_Interrupt/Source/main.c` | `uart_tx_buf`, `uart_rx_buf`, `tmp_len` | `main`, `config_dma`, `send_data`, `USART1_Isr` | the handler preempts `main`; two DMA channels and the UART work beside both; a burst of any length at any time |
| DMA driver, `apm32f10x_dma.c` | registers of 7 + 5 channels, one flag register per controller | reset, configure, enable, disable, count, flags | flag registers shared by all channels; registers that ignore writes while the channel is on |
| USART driver, `apm32f10x_usart.c` | control and status registers | configure, enable, read status, read and write data | status bits cleared by a sequence of two reads |
| Board support, `Boards/Board_APM32F103_MINI` | pins and clocks | `APM_MINI_COMInit`, LEDs, buttons | order of initialisation |
| NVIC helper, `apm32f10x_misc.c` | interrupt enables | `NVIC_EnableIRQRequest` | when the interrupt is let in |
| Start-up, `system_apm32f10x.c` | clock tree | `SystemInit`, `SystemClockXXM` | a wait with a timeout, waits without one |
| Flash controller, `apm32f10x_fmc.c` | control bits, lock, option bytes | erase, program, protect | timeouts, bits left set on error paths |
| Ethernet driver, `apm32f10x_eth.c` | two rings of DMA descriptors, MII, PHY and MAC settings | receive, transmit, release, `ETH_Config`, loop-back | ownership shared with the DMA engines; waits on a PHY that may never answer |
| USB device library, `USB_Device_Lib` | control-transfer stage, endpoint buffers, BOT and SCSI state | setup, in, out, reset, commands | a host that gives up, retries or resets at any stage; a storage that fails |
| USB OTG library, `USB_OTG_Lib` | host and device state machines, channels | enumeration, class requests, sending, interrupts | polling loop against interrupts, lost handshakes, disconnection |
| Other peripheral drivers | none of their own | one register field each | not hard |
| Middlewares | FreeRTOS, RTX5, RT-Thread, FatFs, lwIP | third party, not linked | left out |

How the parts of the program meet: `main` calls `APM_MINI_COMInit` (the
receiver listens from here on), enables the UART's DMA requests and its IDLE
interrupt, opens the NVIC, and only then configures the two DMA channels and
sends the banner through `send_data`. From then on everything happens in
`USART1_Isr`: it clears IDLE by reading STS and DATA, stops channel 5, computes
the length from the count that is left, sets the count again, calls `send_data`
and starts channel 5.

What makes the program correct: no access outside the buffers; the length the
handler uses is the number of bytes that are in the buffer; the buffer does not
change while it is copied; the program always comes back to its loop; and every
message is sent back, once, in order, unchanged. Of the other parts: a flash
call that reports success has done its work and leaves no mode selected; a
descriptor ring is a queue of whole frames; MAC and PHY agree; an answer to a
control request carries its own data; a status wrapper tells the truth; a host
never runs ahead of its device and notices when it is gone; what a host sends is
received once.

The parts other than the program share nothing at run time: the repository links
none of them together. They are therefore modelled each with its own caller and
its own hardware, and composed only where one uses another (`UsartEcho` uses
`Dma`, the control and the bulk part of USB share the interrupt handler's order).

## Modules

**`Dma`** gives each function of the DMA driver as an operator on one channel's
registers, and the hardware's `Transfer` of one unit. A write to the count or
to an address is ignored while the channel is enabled, as the hardware does it.

**`UsartEcho`** is the program. A step of `main` or of the handler is one
register access or one byte of `memcpy`; the program counters `pc["main"]` and
`pc["isr"]` name the next one. `At` is the scheduling rule: the handler may
start between any two steps of `main` once `irqOn`, IDLEIEN and IDLE are all
set, and `main` does not move until it returns. The read-modify-writes of
`DMA_Config` on CHCFG are one read step and one write step, so that the handler
can run in between. `tmp_len` is taken modulo 2^16. Bytes carry identities: the
host's n-th byte is `n`, the banner's are `MaxBytes + 1` and up, 0 is what no one
sent.

The hardware is external code, modelled from what the program relies on: TXBE
and RXBNE raise DMA requests; reading STS and then DATA clears IDLE, whoever
reads; a byte that completes while RXBNE is set is lost; CHEN reloads the
pointer. A channel enabled by the handler before `config_dma` had given it its
addresses (`DmaStray`) either counts down without effect or is switched off by a
bus error; that is the harm of opening the NVIC before `config_dma`. `hist.early`
remembers that the handler has run inside `config_dma`, and `BufferSafe` uses it to say
that nothing else brings a channel to another place than its own buffer.

Parameters that choose an environment:

| Constant | Meaning |
|---|---|
| `MAX_LEN`, `BannerLen` | 256 and 14 in the code |
| `MaxBytes`, `MaxMsg` | bounds: bytes the host sends, longest burst |
| `PoliteHost` | the host starts a message only when the board has fallen silent |
| `QuietBoot` | nothing happens on the line before `main` reaches its loop |
| `BootIdle` | whether enabling the receiver on an idle line raises IDLE once (a set: both cases may be allowed) |
| `FastCpu` | a frame on the line lasts longer than the handler runs |

`FastCpu` is what holds at 115200 baud and 72 MHz: a frame is about 6000
cycles. With it the line moves only while the CPU waits, in the loop or for
TXBE, and at most one receiver event falls into one transmitted frame. Without
it there is no timing at all.

**`EchoService`** is the abstract specification: bytes are heard, a pause closes
a message, closed bytes are answered in order. `UsartEcho` instantiates it with
`Heard`, `Heard - Unclosed` and `Answered`; the messages counted are those after
channel 5 was armed.

**`DmaFlags`** models the flag registers of both controllers with one driver per
channel that prepares, starts, polls and acknowledges transfers.

**`Fmc`** is the flash driver with its caller, the flash controller and resets.
A driver function runs from one `FMC_WaitForLastOperation` to the next: `pc`
names the step that follows the wait, `wait` says where the wait is, and one
poll is one step, so the controller can finish between any two polls, after the
last one, or never. Functions with the same shape share actions: `Erase_*` are
`FMC_ErasePage` and `FMC_EraseAllPage`, `Program_*` `FMC_ProgramWord` and
`FMC_ProgramHalfWord`, `ReadOut_*` `FMC_EraseOptionBytes` and the two functions
for read-out protection, `Option_*` `FMC_ProgramOptionByteData` and
`FMC_ConfigUserOptionByte`, `Protect_*` `FMC_EnableWriteProtection`. Each path
clears the mode bits that the code clears on it, and no others. Interrupts are
masked as in the `APM32F10X_HD` build the project is configured for. The
controller is external: a half-word or an option byte that is not erased cannot
be programmed (PEF), a protected page cannot be changed (WPEF), the protection
bytes take effect at the next reset, an operation that a reset interrupts has or
has not happened, and when STA finds two erase modes selected either may be
carried out. Data are abstract: a half-word holds data or not, a user option
byte is written or erased. Disabling read protection also mass-erases the flash
on the device; that is left out. The caller calls the functions unlocked. The
history `obeLeft` says that the last erase of the option bytes since the reset timed
out, or was that of `FMC_EraseOptionBytes` and failed.

| Constant | Meaning |
|---|---|
| `Pages`, `ByteOf` | pages, and the WRP byte of each |
| `Limit` | polls of a wait, `0x000B0000` in the code |
| `Ops` | the functions the caller uses |
| `MaxCalls`, `MaxResets` | bounds |

**`EthTx`** and **`EthRx`** are the two descriptor rings with the driver functions
that walk them, their callers, and the DMA engine. A descriptor is the bits of
its status word the code uses and the part of a frame in its buffer; filling one
descriptor, or evaluating the driver's conditions on one, is a step, because the
engine looks at nothing but OWN. The transmit engine fetches a descriptor it does
not own and suspends itself some cycles later, with the driver in between. Both
instantiate **`FrameQueue`**, the abstract specification: a bounded queue of whole
frames. `EthRx` has both ways of reading a frame, polled and from the interrupt,
and `info` (segment count, first and last descriptor) is kept between calls as
in the code. `CallerChecks` says that the caller of `EthTx` looks at OWN itself
before it fills the buffers, because the driver's own test never holds.

**`EthPhy`** is `ETH_Config` step by step (reset, link, negotiation, result, MAC),
the MII accesses with their timeouts, and the loop-back functions; `Limit` is the
number of polls, `MiiTimely` whether an access ends within them, `Forced` the
settings without negotiation.

**`UsbControl`** is endpoint 0 of the USB device library: one iteration of the
interrupt handler is a step, bytes are known by request and offset, so that data
of another request are told apart. The host gives transfers up, retries and
resets. The installed class handler (CDC, HID, MSC or none) is chosen at the start;
each is modelled with all its branches, those that answer nothing and those that stall
included, and `vendorReqHandler` is NULL as `USBD_InitParamStructInit` leaves it.
`FastIsr` says that an IN completion is handled before the next SETUP arrives (a
full-speed frame is 1 ms). `ProperRequests` says what the USB and class
specifications make of a request: its direction and data stage, no number 5 other than
SET_ADDRESS (line 139 of `usbd_core.c` tests the number alone), and that a host asks for
the whole of an answer of fixed length and for no more line coding than there is (the
code cuts only descriptors to `wLength`, and `usbd_class_cdc.c:61` sends `wLength`
bytes of its eight).

**`UsbMsc`** is the bulk-only transport with the SCSI commands. The device is a
record that each function of the code maps to the next; the host sends commands,
takes data and status, clears halts, and resets the transport when nothing moves.
The variables are `bot` (`g_BOTInfo`, the SCSI variables and the two endpoints),
`done` (transfers the interrupt handler has still to serve) and `peer` (the host).
`Word` stands for 2^32, `MayFail` names the storage callbacks that may fail,
`AppClears` says that the application handles CLEAR_FEATURE as the library's
`USBD_MSV_BOT_ClearFeatureHandler` is meant to be used, and `FastBulk` is the
`FastIsr` of the bulk endpoint. `Conforming` collects what runs and theorems assume:
these two, a medium whose bytes a word counts, and commands as hosts send them
(`ConformingCommand`): a command that answers from memory asks for data,
READ(10) for at least one byte, VERIFY(10) and START STOP UNIT carry none, a range
does not pass 2^32, and with a storage that may fail to write, a write is one packet.
(If the storage fails earlier, `usbd_msc_bot.c:86` sends the status wrapper while the host still
sends data; the next packet is taken for an invalid command and the device hears
nothing until a reset.)

**`UsbHost`** is the host of the OTG library: `USBH_PollingProcess` with its
states, the enumeration, the control transfer machine with `s_curXferState` and
`s_preXferState`, the requests a CDC, HID or MSC device gets first, and the
interrupt handlers. The handlers of the table `ENUM_CoreHandler` have one shape,
as have those of the classes, so one action is a step of any of them (`StartRequest`,
`StartStage`, `ArmStage`, `WaitStage`, `EnumCompleted`, `ClassCompleted`, `Failed`);
`EnumNext` and `ClassNext` hold their order. Starting a stage is two steps, because
`urbStatus` is cleared after the channel is enabled. A transaction ends in two
interrupts, one that notes what happened and halts the channel, and one when it is
halted. The device completes a request when its status stage is through, and
remembers which (`dev.done`).

The application and the devices are a record `setup` from the constant `Setups`,
chosen once; `MaxFaults` and `MaxPlugs` are bounds.

| Field (operator) | Meaning |
|---|---|
| `class`, `serial`, `refused` (`Class`, `HasSerial`, `Refused`) | the device: its class, whether it has a serial number, requests it always stalls |
| `slow` (`SlowCpu`) | a transaction may end before the code that started it goes on |
| `anyUnplug` (`AnyUnplug`) | the cable is pulled at any time, not only between transfers |
| `nak` (`NakStatus`) | the device may answer an OUT status stage with NAK |

**`UsbCdcSend`** is what follows for CDC: `CDC_SendData`, `USBH_CDCProcessSend`,
`USBH_BulkOutData` and the bulk part of the OUT interrupt handler, with a device
that has its own data toggle. Packets and handshakes are lost, NAKs and stalls
answered, devices exchanged. The history `sent` holds what the messages before
the current one consist of (`before`), the number of messages and the length of
the last, so that what a device should have is written without a sum over all
messages (`BytesUpTo`).

**`UsartEchoProofs`**, **`DmaFlagsProofs`**, **`FmcProofs`**, **`EthProofs`**,
**`UsbControlProofs`**, **`UsbMscProofs`**, **`UsbHostProofs`** and
**`UsbCdcSendProofs`** hold the proofs, **`MCUsartEcho`**, **`MCDmaFlags`**,
**`MCFmc`**, **`MCEth`**, **`MCUsbDevice`** and **`MCUsbHost`** the instances for
TLC. The last three choose a *scenario* in their initial state and keep it, so that
one run covers, say, an MII in time and a silent one without the product of
their states. `MCEth`, `MCUsbDevice` and `MCUsbHost` extend the parts they check:
in a behaviour one part moves and the others stay as they begin, so the properties of
such a run are the parts' own. `ConfigEnds` and `ProperAnswered` name the scenario
in which a property of a part is claimed, `EthTypeOK`, `UsbTypeOK` and
`UsbHostTypeOK` are the conjunctions of the parts' type invariants.

## Runs

| Run | Environment | Shows |
|---|---|---|
| `echo_any` | any timing, interrupts during boot, `MAX_LEN` 2, 2 bytes | `BufferSafe` (which channel transfers where, also after an interrupt inside `config_dma`); `ReturnsToLoop` |
| `echo_running` | quiet boot, any timing, `MAX_LEN` 2, 4 bytes, bursts of 3 | `ByteConservation`, `SnapshotStable`, also for bursts longer than the buffer |
| `echo_polite` | quiet boot, polite host, `FastCpu`, `MAX_LEN` 3, 6 bytes | `EchoExact`, `ArmedLossless`, and `ImplementsService`, the refinement of `EchoService` with its liveness |
| `echo_first_message` | as above, no IDLE at boot | violation: the first message is not answered |
| `dma_flags` | three users on two controllers, one that calls `DMA_Reset` alone on its controller | `TrueCompletion`, `EveryTransferSeen`: flags reach the right user, every completion is seen |
| `dma_reset_flags` | two users that reset their channels, on one controller | violation: `DMA_Reset` leaves its own flags set |
| `fmc` | all functions in any order, three calls and a reset, a controller that may be late or never finish, erases of the option bytes that fail | `CompleteMeansDone`, `StartsClean`, `MainModesReleased`, `ProtectionKept`, `EraseSelectsOne`, `CallReturns` |
| `eth` | transmit ring of 3 (frames of up to 2 buffers), receive ring of 3 (up to 4 segments, so that a frame can be cut off by the full ring), PHY with a timely and a silent MII | both rings implement `FrameQueue` (`ImplementsQueue`, `RxImplementsQueue`); `EarlierFramesLeave`, `EveryFrameRead`; `MacAgrees`, `LoopBackOnly`, `ConfigEnds` |
| `eth_tx_own` | a caller that relies on `ETH_Transmit_Descriptors` | violation: descriptors the engine owns are overwritten |
| `eth_phy_forced` | settings without negotiation | violation: MAC and PHY differ |
| `usb_device` | control transfers; proper, awkward and sense scenarios of mass storage | `DataExact`, `AddressAgreed`, `RetryAnswered`; `CswTrue`, `ReadyForNext`, `SenseCurrent`, `ProperAnswered` |
| `usb_host` | HID with any timing and any unplugging; CDC and MSC with polite unplugging; MSC that refuses its requests; sending to CDC | `StagesDone`, `ChannelsAddressDevice`, `UnplugNoticed`, `DeviceReady`, `SendExact`, `SendEnds` |

The bounds. Two bytes and two bursts are enough for a handler run at every
point of the boot sequence, for two handler runs in one boot, and for an answer
that is stopped by another; with `MAX_LEN` 2 the buffer is full, over-full and
partly full. Four bytes add bursts longer than the buffer with a message before
or after. Six bytes in messages of at most three give the polite host several
messages after the one that arms the channel, with every split. Deadlock is not
checked there: when the host has sent its last byte the board really does
nothing more. For the flash, three calls are a call that leaves something behind
(a bit, a flag, a running operation), one that meets it, and one more; two pages
in different WRP bytes make `FMC_EnableWriteProtection` write two bytes; a limit
of 2 gives a wait that ends early, on its last poll, and after it.

A ring of three descriptors has a free, a busy and a partly filled state with
frames of two, and is smaller than a frame of four; five frames go round it more
than once. Packets of two bytes with answers of 4, 5 and 6 bytes against a
`wLength` of 5 and 0 give the answer that is too long, exact, short, and the empty
packet at the end. Four commands are a failing one, the request for its sense, a
reset and one more; ten are needed for the ring of four sense codes to go round.
In `usb_host` two devices and two faults give a fault in each of two tries, or a
retry that fails too, before and after an exchange of devices; messages of 0, 1, 2
and 5 bytes with packets of two give the empty, the short, the exact and the
split message, and three losses can hit one packet every time or different ones.

An OBE that is left set. After a timeout all three `ReadOut` functions leave OBE set, and
`FMC_EraseOptionBytes` leaves it set after a failed erase too, because its error
path (line 227) clears OBP instead. The next erase of the main flash then finds two
modes selected, and may erase the option bytes while it reports `FMC_STATUS_COMPLETE`.
The run has these behaviours: `EraseSelectsOne` and `CompleteMeansDone` hold with that
one exception and fail without it. `FMC_ProgramOptionByteData` (352) and
`FMC_ConfigUserOptionByte` (549) clear OBP only after a timeout, so it stays set
after success; their siblings clear it unless there was a timeout. The models keep
all of this as it is.

A channel without an address. With an interrupt inside `config_dma` the handler enables
channels that are half configured: an enabled channel takes no address any more and
transfers at address 0, channel 5 for good if the interrupt comes before its address is
written. The run `echo_any` has these behaviours; `BufferSafe` says that a channel never
transfers in the other channel's buffer, nor beyond `MAX_LEN` units, and in its own buffer
unless such an interrupt has occurred. Without this exception it fails.

Fairness. The CPU goes on executing (weak fairness of each flow of control: the
handler cannot be preempted, and `main` runs whenever the handler does not), the
DMA serves a pending request, the transmitter shifts, and silence becomes an
idle line. The host is never obliged to send. In `Fmc` only the processor is
fair: `CallReturns` holds with a controller that never finishes. In `eth` driver and engines are fair, and an MII only when it
is timely; `ConfigEnds` needs the driver alone. In `usb_device` the interrupt
handler and the host are fair: a host that has started a transfer goes on with it
or resets. In `usb_host` the main loop, the interrupt handler and the bus
controller are fair (it carries out the transaction of an enabled channel, or
reports that nobody answered); faults and the hand at the plug owe nothing.

Deadlock is checked in `fmc` only: the other systems rest when their environment has
nothing more to send.

Assumptions that are not the code's. Some properties hold only in an environment
the code relies on without a word; each is a constant, and what happens without
it is known:

* `FastIsr`, `FastBulk` (usb_device): without it SETUP is handled before the completion of the
  packet before, and an OUT before an IN completion of the same endpoint
  (`usbd_interrupt.c:134`, `158`); `DataExact`, `AddressAgreed` and `CswTrue` fail.
* `AppClears` (usb_device): the library itself answers CLEAR_FEATURE without
  telling the mass storage class; a failed command is then never followed by its
  status wrapper.
* `SlowCpu` (usb_host): if a transaction ends before `urbStatus` is cleared
  (`usbh_dataXfer.c:120`, `150`, `179`) its completion is lost and the host waits
  forever. `USBH_BulkOutData` was changed (line 257) and `SendEnds` needs no such
  assumption.
* `AnyUnplug` (usb_host): `USBH_DevDetachedHandler` leaves `s_curXferState`, so
  that after an unplugging in the middle of a transfer the next enumeration waits
  for a `urbStatus` nobody sets; `USBH_CDC_ClassDeInitHandler` leaves
  `s_classReqState`, so that the next CDC device can miss its first request. With
  HID the safety properties hold with any unplugging.
* `NakStatus` (usb_host): only OUT data are repeated after a NAK
  (`usbh_dataXfer.c:537`).
* `CallerChecks` (eth): see `eth_tx_own` below.

Further behaviour met while modelling, kept as it is: a device that stalls an
enumeration request is asked again without end; a STALLed bulk endpoint is never
cleared; an unplugging before the port is enabled is not noticed; `status` of the bulk-only transport stays RECOVERY
after a reset; a byte address of the mass storage commands wraps at 4 GiB after
the range check; after an answer was given up, `packNum` and `pBuf` of the long
one follow a short one (the host takes no more after its short packet); the last
frame handed to the transmit ring can stay there until the next call; a
MSC device with several logical units makes the host start over without freeing
its two bulk channels (this path is not modelled).

Requests on endpoint 0 that are never answered (`Unanswered`, all of them in the run):
SET_FEATURE and standard numbers the library does not know; every vendor request, as no
callback is installed (`usbd_core.c:77`); every class request without a class handler
(`usbd_core.c:70`); with CDC an IN request of length 0, for which the code opens the OUT
direction while the host waits for an IN packet (`usbd_class_cdc.c:50`), and an unknown
number with data (line 67); with HID an unknown number (`usbd_class_hid.c:60`).
`RetryAnswered` says that exactly these never end and that every other request ends with its
status stage or a stall, also after unanswered ones.

In `usb_host` a packet may be lost, and the handshake of an OUT packet after it was taken;
the host's acknowledgement of an IN packet always arrives. (A device that misses the
acknowledgement of the status stage of SET_ADDRESS keeps its old address while the host
goes on with the new one and repeats its next request there. The loss is between host
controller and device, with no line of the library in it; `ChannelsAddressDevice` is
claimed for devices that get it.)

## What the violation runs show

*First message.* Nothing enables channel 5 before the end of the first handler
run. If the receiver reports no idle line on its own after power-on, the first
message is lost and answered by nothing. If it does report one
(`BootIdle = {TRUE}`), channel 5 is armed in time, but that handler run calls
`send_data` with length 0 and stops the banner: `EchoExact` therefore allows a
shortened banner in that case only.

*Flags.* The masks in `DMA_Reset` are the complement of the channel's nibble.
`DmaFlags` with two users on one controller also violates `EveryTransferSeen`:
one user's reset clears the flag the other is polling for.

*OWN.* `(Status & ETH_DMATXDESC_OWN) == SET` compares bit 31 with 1 and never
holds: a caller that goes by `ETH_ERROR` overwrites descriptors not yet sent. With
a caller that looks itself the ring is a queue (`ImplementsQueue`).

*Forced settings.* `ETH_Config` shifts the speed to the duplex bit and the mode to
the speed bit: 100 Mbit/s half duplex sets the PHY to 10 Mbit/s full duplex, while
the MAC is set as asked.

Not a run, but a consequence of `send_data` that `PoliteHost` excludes: TXBE tells
that DATA is empty, not that channel 4 is done, so a message that ends while the
last answer is being sent cuts that answer off.

## Proofs

Each theorem holds for every value of the constants that satisfies the named
assumption of its module, and the bounds on calls, frames, losses and resets are
constants too: no number of them is singled out.

| Module | Theorem | States | Hypothesis besides the module's assumption |
|---|---|---|---|
| `UsartEchoProofs` | `TypeCorrect`, `BuffersSafe` | `[]TypeOK`, `[]BufferSafe` | none |
| | `SnapshotsStable` | `SnapshotStable` | none |
| | `BytesConserved` | `[]ByteConservation` | `QuietBoot` |
| | `NothingLost`, `EchoIsExact` | `ArmedLossless`, `[]EchoExact` | `QuietBoot`, `PoliteHost`, `FastCpu`, `MaxMsg <= MAX_LEN` |
| | `EchoImplementsService` | `Service!Safe`, the refinement of `EchoService` without its fairness | the same |
| `DmaFlagsProofs` | `FlagIsOwnCompletion` | `[]TrueCompletion` | none |
| `FmcProofs` | `FmcTypeCorrect`, `FmcMainModesReleased` | `[]TypeOK`, `[]MainModesReleased` | none |
| | `FmcProtectionKept`, `FmcStartsClean` | `[]ProtectionKept`, `StartsClean` | none |
| | `FmcCompleteMeansDone`, `FmcEraseSelectsOne` | `[]CompleteMeansDone`, `[]EraseSelectsOne` | none |
| `EthProofs` | `PhyTypeCorrect`, `LoopBackChangesOneBit` | `[]PhyTypeOK`, `LoopBackOnly` | none |
| | `MacAgreesWithPhy` | `[]MacAgrees` | `Straight` |
| | `TxTypeCorrect`, `OwnedLeftAlone` | `[]TypeOK`, `OwnedUntouched` | `CallerChecks` |
| | `RingIsQueue` | `ImplementsQueue`, the refinement of `FrameQueue` | `CallerChecks` |
| | `RxTypeCorrect` | `[]RxTypeOK` | none |
| | `RxRingIsQueue` | `RxImplementsQueue`, the refinement of `FrameQueue` | none |
| `UsbControlProofs` | `ControlTypeCorrect` | `[]TypeOK` | none |
| | `AddressesAgree`, `TransfersExact` | `[]AddressAgreed`, `[]DataExact` | `FastIsr`, `ProperRequests` |
| `UsbMscProofs` | `MscTypeCorrect`, `StatusTrue` | `[]BotTypeOK`, `[]CswTrue` | `Conforming` |
| | `ReadyAfterAnswer`, `SenseReported` | `[]ReadyForNext`, `SenseCurrent` | `Conforming` |
| `UsbHostProofs` | `HostTypeCorrect` | `[]HostTypeOK` | `CdcGentle` |
| | `NeverAhead`, `RightAddress` | `[]StagesDone`, `[]ChannelsAddressDevice` | `CdcGentle` |
| `UsbCdcSendProofs` | `SendTypeCorrect`, `EveryByteOnce` | `[]SendTypeOK`, `[]SendExact` | none |

**The echo program** (`MAX_LEN` from 1 to 65535, `BannerLen` at most `MAX_LEN`).

* `TypeCorrect` and `BuffersSafe` are one induction (`Inv`): the
  pointer of a channel stays in range because pointer plus count fits the
  buffer, and that sum stays put because a transfer moves one from the count to
  the pointer, enabling starts the pointer at 0, and a new count reaches only a
  disabled channel. This is shown once per driver function
  (`EnableOK`, `ConfigDataNumberOK`, `TransferOK`, ...); the induction itself has
  one step per action. For the addresses `BuffersSafe` adds `AddressInv`: as long as the
  handler has not run inside `config_dma`, no channel is enabled there, so that each takes
  its addresses, and `main` is past the writing of both when it leaves.
* `SnapshotsStable` rests on `RxOffInv`: from the
  disabling of channel 5 to its enabling the channel is off, because `main` is
  preempted and no hardware step enables a channel; before the clock of DMA1 is
  on no write reaches a channel, so none is enabled.
* `BytesConserved` needs `ConserveInv`: until `main` reaches its loop the handler has
  not run and channel 5 is being set up by `main` alone (`QuietInv`); from then
  on what channel 5 has left and what it has stored fill the buffer, and the
  length the handler has computed is what is stored (`CountInv`). `QuietBoot` is
  needed: a handler run inside `config_dma` can leave channel 5 with a count that is
  not the room in `uart_rx_buf`.
* `EchoIsExact` follows a byte through both buffers. `SetupInv` is what `main` has
  configured and copied; `MessageInv` that the handler runs in the pause of a message,
  with nothing left to send, and how much of the message channel 5 holds
  (`NothingLost` follows from it); `RxBytes` which bytes these are; `CopyInv` what
  `send_data` has copied of them; `TxInv` that the wire, DATA and what channel 4 has
  left are together one sequence, the banner and then the host's bytes. The hypotheses
  are those of the run `echo_polite`, and each is needed: a message that
  ends while an answer is being sent cuts it off, a longer one overruns the buffer.
* `EchoImplementsService` reads the same invariant as a mapping: the bytes on the wire
  after the banner are the service's answers (their number is a cardinality, so that
  nothing is summed), and a frame shifted out is the service's answer step.

**The flag registers.** `FlagIsOwnCompletion` has two halves: what the steps of a
user do with its own channel and flag (`UserOK`: off and clear until it is enabled,
the flag set only with the count at zero), and that a step for another channel
never sets this one's flag. Clearing by others is harmless to this property (it is what
`EveryTransferSeen` is about).

**The flash driver** (any finite set of pages, any limit, any choice of functions;
nothing is assumed of the controller).

* `FmcTypeCorrect`, by the invariant `TypeInv`: types, and which function each
  label belongs to (`PcOp`), without which the value written to RDP and the
  half-word written next would have no type.
* `FmcMainModesReleased`, by `MainInv`: each main flash mode bit is set only at
  the label whose function clears it.
* `FmcProtectionKept`, by `ProtectInv`: besides the protection byte itself the
  operation under way must not bring 0xA5, which needs that the `rdtemp` of a
  running `FMC_EraseOptionBytes` agrees with the protection loaded at boot.
* `FmcStartsClean`, by `CleanInv`: what a wait that returned
  `FMC_STATUS_COMPLETE` saw is still true when the function goes on, because an
  idle controller does nothing by itself.
* `FmcCompleteMeansDone` and `FmcEraseSelectsOne`, by `DoneInv`: the invariants
  above, which modes are selected at each label (`ModeInv`), and what is done or
  under way at each label (`WorkInv`): after a start either the operation runs with
  the function's work in it, or it has ended with an error flag, or the flash holds
  the work. OBE is selected only while an option erase is under way or `obeLeft` holds;
  only an erase of the main flash started then may run another operation than its own.

**The PHY.** The processor, the MII and the PHY run on their own. With an MII in time
the processor goes on only when no access is under way (`Prompt`), so that the
access it waits for is the one it started, and what it read is still what the
register holds when it is used (`Reads`). `Straight` says that a forced setting has
equal speed and duplex bits, because `ETH_Config` shifts each to the other's place
(`eth_phy_forced` shows the rest).

**The transmit ring.** `TxInv` says that there is a number m such that the engine owns
exactly the m descriptors from its position to the one the driver fills next
(`Window`), that they carry parts of frames handed over, rightly marked as first and last
(`Marked`), that these parts follow each other without a gap (`Chain`), and
that the first is the one the engine sends next (`Place`). A call under way has
free descriptors ahead of it (`CallInv`); that is where `CallerChecks` is needed, as
the driver's own test never holds. `RingIsQueue` then takes the actions one by one:
filling the first descriptor of a frame is the queue's put (`FillPuts`), sending its
last part the queue's take (`SendTakes`), every other step a stutter (`OthersKeep`).

**The receive ring.** The driver owns the descriptors it has stepped over or not yet given
back, and behind them the u unread ones up to the engine's position (`RxWindow`).
Witnesses J and P in the invariant give each unread descriptor its frame and part; along the
ring they follow each other without a gap, from the part the driver looks at
next to the part the engine stores next (`RxChain`). `info`, which is kept between calls,
says how many parts of the next frame were stepped over (`CpuInv`, `SteppedInv`): a count
left by an interrupted scan is therefore right when the next call goes on, and a frame that a full ring
cut off was never put into the queue. No hypothesis on the caller is needed.

**Endpoint 0.** The handler leaves most of an abandoned transfer in `g_usbDev`. The
invariant `ControlInv` says why that does no harm: at most one packet is offered, asked for or
waiting for the handler (`FlowInv`), and if so the request under way is the host's
(`ReqInv`); between the status stage of SET_ADDRESS and its handling the host is
ahead by the value in the request (`AddrInv`). `TransferInv` adds what is left to
send or receive, with the number of packets (`Rest`), for any packet size; the
lemmas on division (`QuotientFacts`, `PacketsFacts`, `FullFacts`) are proved from the
definition of the quotient.
`ControlTypeCorrect` needs neither of the two hypotheses of the other theorems (`FastIsr`
and `ProperRequests`, explained above): its induction is over the type alone.

**Mass storage.** Device, flags and host are always together in one of fourteen
phases (`Phases`: between commands, sent, answering, reading, writing, stalled, mute, status, ...),
and each action leads from a phase to a phase (one lemma per phase). A phase
records what makes the status wrapper true: of a read or a write the
blocks done so far are the first of the command, the residue is the rest, and what the
host has got is what was read (`Progress`, `Truthful`). It also records the ring of four
sense codes: it is empty, or its reader stands at the code of the failure the host has
not asked about (`Even`, `Behind`, `Owed`). A failed read, whose status wrapper the host
takes for data, and invalid wrappers end in the phase `Mute`, which only a reset leaves.
`Conforming` is explained above.

**The USB host.** What the host takes for done it has seen as `urbStatus` only. `HostInv`
follows an answer from the device to there: `PortInv` says when the host can be wrong about
which device is at the port, `PlaceInv` which requests and stages belong to which state of
the host, `ChanInv` that one channel at most is at work and for the current stage, so that an
interrupt is never taken for that of another stage, `DevInv` that an acknowledged stage
is one the device has carried out, for the same request, `AddrInv` where the device's address, the
host's and the channels' can differ: from the device's answer to the status stage of
SET_ADDRESS to the host's next poll, when no channel runs (`Moving`). `UnplugInv`
is for devices pulled between transfers. All timings are covered (`SlowCpu`), also those in which a
completion is lost and the host waits forever: it then still takes nothing for done. `CdcGentle`
says that a CDC device is not pulled during its requests, because
`USBH_CDC_ClassDeInitHandler` leaves `s_classReqState` and the next device would miss the
first of them.

**Sending to CDC.** `SendInv` is the alternating bit: the toggle of the host differs
from that of the device exactly while the device has taken a packet the host does not
know of; the packet sent again is then the same one (`PacketInv`), and the device drops it.

Only model-checked:

* what is liveness, out of the prover's reach: `ReturnsToLoop`,
  `EveryTransferSeen`, `CallReturns`, `EarlierFramesLeave`, `EveryFrameRead`,
  `ConfigEnds`, `RetryAnswered`, `ProperAnswered`, `UnplugNoticed`,
  `DeviceReady`, `SendEnds`, and the fairness in `ImplementsService`;
* `EthTypeOK`, `UsbTypeOK` and `UsbHostTypeOK` as conjunctions; each conjunct is proved for
  its own part.

Every other property of a passing run is a theorem.

## Not modelled

See `components` in `PROJECT.json`. The repository is a vendor SDK of some 150000
lines, most of them register definitions, functions that write one register field,
generated tables and third-party middleware; the models cover the parts that keep
state of their own and meet another actor.

* In the program: `Delay` and the fault handlers, which nothing calls or which only
  loop; framing, parity and noise errors; power loss (the echo program persists
  nothing). Overrun is modelled as the loss of the new byte; the ORE flag itself is
  not read by the code.
* Start-up (`SystemInit`, `SystemClockXXM`) and the baud-rate arithmetic of
  `USART_Config`: sequential code that runs once, alone.
* Ethernet: flags, filters, power management and statistics, one register field
  each.
* USB device library: suspend and resume, the cutting of bulk transfers into
  packets, the HID and CDC classes beyond their requests on endpoint 0.
* USB OTG library: FIFO contents, low- and high-speed ports, interrupt and
  isochronous transfers, receiving by CDC, the MSC commands of the host (their
  sources are not in the repository), the error path of `USBH_ClassReqHandler`, and
  the OTG device core, which repeats the device library.
* Other peripheral drivers, CMSIS, middlewares: no state of their own, or third
  party and not linked.

## Plan

The modules planned at the start are written, and their safety properties are
proved. What could follow:

1. `UsbHostProofs` without `CdcGentle`, if `USBH_CDC_ClassDeInitHandler` is changed
   to set `s_classReqState` back; `DeviceReady` for a cable pulled at any time, if
   `USBH_DevDetachedHandler` sets `s_curXferState` back.
2. `UsbMsc` with writes of several packets to a storage that fails, once the
   code stalls the OUT endpoint at `usbd_msc_bot.c:86` instead of waiting for a command.
3. The receive path of CDC in the host, beside `UsbCdcSend`.
