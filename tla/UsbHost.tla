------------------------------ MODULE UsbHost ------------------------------
(***************************************************************************)
(* The USB host stack (USB_OTG_Lib/Core_Host): the polled state machine of *)
(* usbh_core.c, the enumeration of usbh_enum.c, the control transfers of   *)
(* usbh_dataXfer.c, the start requests of the CDC, HID and MSC classes,    *)
(* and the interrupt handlers that report to them, with a device that may  *)
(* stall, delay or garble a transaction and may be unplugged.              *)
(*                                                                         *)
(* Three actors: the main loop that calls USBH_PollingProcess, the         *)
(* interrupt handler, and the bus.  A pending interrupt is served before   *)
(* the main loop goes on, as on the device; what the bus does falls        *)
(* between any two steps.  The port is a full-speed one.                   *)
(***************************************************************************)
EXTENDS Integers, FiniteSets

CONSTANTS
    Setups,      \* the applications and devices, as below
    MaxFaults,   \* bound: transactions that the device or the line spoils
    MaxPlugs     \* bound: devices plugged in

VARIABLES
    setup,  \* one of Setups, the same for a whole behaviour
    host,   \* g_usbHost: curHostState, connectedFlag, portEnable
    ctl,    \* g_usbHost.control, the statics of usbh_dataXfer.c, the class's state
    pipe,   \* xferPipe of the two control channels: urbStatus and pipeState
    chan,   \* their registers: enabled, what is sent, address, interrupt flag
    irq,    \* interrupts enabled, DEDIS unmasked, port events pending
    dev,    \* the device and the port
    pc,     \* the main loop: between polls, or inside a handler
    left    \* faults and devices left

vars == <<host, ctl, pipe, chan, irq, dev, pc, left>>

Class == setup.class           \* that the application registered: "CDC", "HID" or "MSC"
HasSerial == setup.serial      \* the device's iSerialNumber is not 0
Refused == setup.refused       \* the requests the device always stalls
SlowCpu == setup.slow          \* a transaction may end before the code that started it goes on
AnyUnplug == setup.anyUnplug   \* the cable is pulled at any time, not only between transfers
NakStatus == setup.nak         \* the device may answer an OUT status stage with NAK

-----------------------------------------------------------------------------
(* The requests, in the order of the two handler tables. *)
EnumNext == [
    ENUM_IDLE |-> "GET_DEV_DESC", GET_DEV_DESC |-> "SET_ADDR",
    SET_ADDR |-> "GET_FULL_DEV_DESC", GET_FULL_DEV_DESC |-> "GET_CFG_DESC",
    GET_CFG_DESC |-> "GET_FULL_CFG_DESC", GET_FULL_CFG_DESC |-> "GET_MFC_STRING",
    GET_MFC_STRING |-> "GET_PRODUCT_STRING", GET_PRODUCT_STRING |-> "GET_SERIALNUM_STRING",
    GET_SERIALNUM_STRING |-> "SET_CONFIGURATION", SET_CONFIGURATION |-> "CONFIGURED_OK"]

ClassNext == [
    SET_LINE_CODING |-> "GET_LINE_CODING", GET_LINE_CODING |-> "SET_CONTROL_LINE_STATE",
    SET_CONTROL_LINE_STATE |-> "CDC_CONFIGURED_OK",
    HID_IDLE |-> "GET_HID_DESC", GET_HID_DESC |-> "GET_REPORT_DESC",
    GET_REPORT_DESC |-> "SET_IDLE", SET_IDLE |-> "SET_PROTOCOL",
    SET_PROTOCOL |-> "HID_IDLE", BOT_RESET |-> "GET_MAX_LUN"]

FirstClassReq == [CDC |-> "SET_LINE_CODING", HID |-> "HID_IDLE", MSC |-> "GET_MAX_LUN"]

Reads == {"GET_DEV_DESC", "GET_FULL_DEV_DESC", "GET_CFG_DESC", "GET_FULL_CFG_DESC",
          "GET_MFC_STRING", "GET_PRODUCT_STRING", "GET_SERIALNUM_STRING",
          "GET_LINE_CODING", "GET_HID_DESC", "GET_REPORT_DESC", "GET_MAX_LUN"}
Writes == {"SET_LINE_CODING"}
NoData == {"SET_ADDR", "SET_CONFIGURATION", "SET_CONTROL_LINE_STATE", "SET_IDLE",
           "SET_PROTOCOL", "BOT_RESET", "CTRL_ERROR"}   \* CTRL_ERROR sends CLEAR_FEATURE
Requests == Reads \cup Writes \cup NoData

UsbHostAssumption ==
    /\ Setups \subseteq [class : {"CDC", "HID", "MSC"}, serial : BOOLEAN,
                         refused : SUBSET Requests, slow : BOOLEAN, anyUnplug : BOOLEAN,
                         nak : BOOLEAN]
    /\ MaxFaults \in Nat /\ MaxPlugs \in Nat

(* The stage that follows a stage of a control transfer. *)
After(stage, r) ==
    CASE stage = "SETUP" /\ r \in Reads  -> "DATA_IN"
      [] stage = "SETUP" /\ r \in Writes -> "DATA_OUT"
      [] stage = "DATA_IN"               -> "STATUS_OUT"
      [] OTHER                           -> "STATUS_IN"

Statuses == {"STATUS_IN", "STATUS_OUT"}
ChanOf(stage) == IF stage \in {"DATA_IN", "STATUS_IN"} THEN "in" ELSE "out"
Chans == {"out", "in"}

FreePipe == [urb |-> "IDLE", state |-> "OK"]
ClosedChan == [on |-> FALSE, kind |-> "SETUP", addr |-> 0, flag |-> "none"]
OpenAt(addr) == [c \in Chans |-> [ClosedChan EXCEPT !.addr = addr]]

(* The device after a reset of the port. *)
Fresh(d) == [d EXCEPT !.addr = 0, !.phase = "none", !.done = {}]

Init ==
    /\ setup \in Setups
    /\ host = [state |-> "IDLE", conn |-> FALSE, port |-> FALSE]
    /\ ctl = [enum |-> "ENUM_IDLE", class |-> FirstClassReq[Class], back |-> "GET_MAX_LUN",
              reset |-> TRUE, stall |-> 0, xfer |-> "START", ctrl |-> "SETUP",
              cur |-> "SETUP", pre |-> "SETUP", req |-> "GET_DEV_DESC", addr |-> 0]
    /\ pipe = [c \in Chans |-> FreePipe]
    /\ chan = OpenAt(0)
    /\ irq = [on |-> TRUE, dedis |-> FALSE, pend |-> {}]
    /\ dev = [present |-> FALSE, enabled |-> FALSE, addr |-> 0, phase |-> "none",
              req |-> "GET_DEV_DESC", done |-> {}]
    /\ pc = "poll" /\ left = [faults |-> MaxFaults, plugs |-> MaxPlugs]

-----------------------------------------------------------------------------
(* The interrupt handler.                                                  *)
Unmasked == irq.pend \cap ({"connect", "pen"} \cup IF irq.dedis THEN {"dedis"} ELSE {})
Pending == irq.on /\ (Unmasked # {} \/ \E c \in Chans : chan[c].flag # "none")

(* USBH_HostPortIsrHandler, then USBH_DisconnectIsrHandler: the first      *)
(* unmasks DEDIS when the port has been enabled, the second turns every    *)
(* interrupt off until the main loop has noticed.                          *)
PortIsr ==
    /\ irq.on /\ Unmasked # {}
    /\ LET mask == irq.dedis \/ ("pen" \in irq.pend /\ dev.enabled)
           gone == mask /\ "dedis" \in irq.pend
       IN  /\ host' = [host EXCEPT
                !.conn = ~gone /\ (@ \/ "connect" \in irq.pend),
                !.port = IF "pen" \in irq.pend THEN dev.enabled ELSE @]
           /\ irq' = [on |-> ~gone, dedis |-> mask /\ ~gone,
                      pend |-> IF gone THEN {} ELSE irq.pend \cap {"dedis"}]
    /\ UNCHANGED <<ctl, pipe, chan, dev, pc, left>>

PipeState == [done |-> "OK", stall |-> "STALL", err |-> "XACTERR", nak |-> "NAK"]

(* The first interrupt of a transaction notes what happened and halts the  *)
(* channel; an IN channel that met a NAK is enabled again instead.         *)
ChannelEventIsr(c) ==
    /\ irq.on /\ chan[c].flag \in DOMAIN PipeState
    /\ pipe' = [pipe EXCEPT ![c].state = PipeState[chan[c].flag]]
    /\ chan' = IF chan[c].flag = "nak" /\ c = "in"
               THEN [chan EXCEPT ![c].flag = "none", ![c].on = TRUE]
               ELSE [chan EXCEPT ![c].flag = "halted"]
    /\ UNCHANGED <<host, ctl, irq, dev, pc, left>>

UrbOf == [OK |-> "OK", STALL |-> "STALL", XACTERR |-> "ERROR", NAK |-> "NOREADY"]

(* TSFCMPAN: the channel is halted, and what was noted becomes urbStatus.  *)
ChannelHaltedIsr(c) ==
    /\ irq.on /\ chan[c].flag = "halted"
    /\ chan' = [chan EXCEPT ![c].flag = "none"]
    /\ pipe' = [pipe EXCEPT ![c].urb = UrbOf[pipe[c].state]]
    /\ UNCHANGED <<host, ctl, irq, dev, pc, left>>

Isr == PortIsr \/ \E c \in Chans : ChannelEventIsr(c) \/ ChannelHaltedIsr(c)

-----------------------------------------------------------------------------
(* The main loop.                                                          *)
(* USBH_PollingProcess: the state whose handler it calls. *)
PolledInClassOnly ==
    IF ~(host.conn \/ host.port) /\ host.state = "CLASS" THEN "DETACHED" ELSE host.state
PolledState ==
    IF ~(host.conn \/ host.port) /\ host.state # "IDLE" THEN "DETACHED" ELSE host.state

In(state) == pc = "poll" /\ ~Pending /\ PolledState = state

(* USBH_IdleHandler *)
Idle ==
    /\ In("IDLE") /\ host.conn
    /\ host' = [host EXCEPT !.state = "ATTACHED"]
    /\ UNCHANGED <<ctl, pipe, chan, irq, dev, pc, left>>

(* USBH_DevAttachedHandler up to the reset of the port, which enables it   *)
(* when a device is there, and after it. *)
AttachedReset ==
    /\ In("ATTACHED")
    /\ dev' = [Fresh(dev) EXCEPT !.enabled = dev.present]
    /\ irq' = [irq EXCEPT !.pend = IF dev.present THEN @ \cup {"pen"} ELSE @]
    /\ pc' = "open"
    /\ UNCHANGED <<host, ctl, pipe, chan, left>>

AttachedOpen ==
    /\ pc = "open" /\ ~Pending
    /\ chan' = OpenAt(0)
    /\ host' = [host EXCEPT !.state = "ENUM"]
    /\ ctl' = [ctl EXCEPT !.enum = "ENUM_IDLE"]
    /\ pc' = "poll"
    /\ UNCHANGED <<pipe, irq, dev, left>>

(* The class's part of USBH_DeInit: CDC leaves s_classReqState alone. *)
ClassDeInit(c) ==
    IF Class = "CDC" THEN c
    ELSE [c EXCEPT !.class = FirstClassReq[Class], !.back = "GET_MAX_LUN",
                   !.reset = TRUE, !.stall = 0]

(* USBH_DevDetachedHandler: everything but s_curXferState and              *)
(* s_preXferState starts again; a device that is back raises a connect.    *)
CoreResetKeepsAddr(c) ==
    [ClassDeInit(c) EXCEPT !.enum = "ENUM_IDLE", !.xfer = "START", !.ctrl = "SETUP"]
CoreReset(c) ==
    [ClassDeInit(c) EXCEPT !.enum = "ENUM_IDLE", !.xfer = "START", !.ctrl = "SETUP", !.addr = 0]

Detached ==
    /\ In("DETACHED")
    /\ host' = [host EXCEPT !.state = "IDLE"]
    /\ ctl' = CoreReset(ctl)
    /\ pipe' = [c \in Chans |-> FreePipe]
    /\ chan' = OpenAt(0)
    /\ irq' = [on |-> TRUE, dedis |-> FALSE,
               pend |-> IF dev.present THEN {"connect"} ELSE {}]
    /\ dev' = [Fresh(dev) EXCEPT !.enabled = FALSE]
    /\ UNCHANGED <<pc, left>>

(* The handler of the current request, in the enumeration or in the class: *)
(* fill in reqData, then poll USBH_ControlXferHandler.                     *)
Stage == IF host.state = "ENUM" THEN ctl.enum ELSE ctl.class
Requesting == (In("ENUM") \/ In("CLASS_REQ")) /\ Stage \in Requests
Skipped == Stage = "GET_SERIALNUM_STRING" /\ ~HasSerial

StartRequest ==
    /\ Requesting /\ ~Skipped /\ ctl.xfer = "START"
    /\ ctl' = [ctl EXCEPT !.req = Stage, !.ctrl = "SETUP", !.xfer = "WAITING"]
    /\ UNCHANGED <<host, pipe, chan, irq, dev, pc, left>>

(* USBH_CtrlXferSetup and its siblings enable the channel ... *)
StartStage ==
    /\ Requesting /\ ~Skipped /\ ctl.xfer = "WAITING" /\ ctl.cur # "WAIT_URB"
    /\ chan' = [chan EXCEPT ![ChanOf(ctl.cur)] = [@ EXCEPT !.on = TRUE, !.kind = ctl.cur]]
    /\ ctl' = [ctl EXCEPT !.ctrl = ctl.cur]
    /\ pc' = "arm"
    /\ UNCHANGED <<host, pipe, irq, dev, left>>

(* ... and clear urbStatus when the channel already runs. *)
NoClearUrb(p) == p
ClearUrb(p) == [p EXCEPT ![ChanOf(ctl.cur)].urb = "IDLE"]

ArmStage ==
    /\ pc = "arm" /\ ~Pending
    /\ pipe' = ClearUrb(pipe)
    /\ ctl' = [ctl EXCEPT !.pre = ctl.cur, !.cur = "WAIT_URB"]
    /\ pc' = "poll"
    /\ UNCHANGED <<host, chan, irq, dev, left>>

(* USBH_CtrlXferWaitUrbState.  URB_ERROR falls into URB_STALL, so that     *)
(* errCnt decides nothing; only an OUT data stage is repeated after a NAK. *)
NakNotRepeated(c, urb) ==
    CASE urb = "OK" /\ c.pre \in Statuses    -> [c EXCEPT !.cur = "SETUP", !.ctrl = "COMPLETE"]
      [] urb = "OK" /\ c.pre \notin Statuses -> [c EXCEPT !.cur = After(c.pre, c.req)]
      [] urb \in {"ERROR", "STALL"}          -> [c EXCEPT !.cur = "SETUP", !.ctrl = "STALL"]
      [] OTHER                               -> c
USBH_CtrlXferWaitUrbState(c, urb) ==
    CASE urb = "OK" /\ c.pre \in Statuses    -> [c EXCEPT !.cur = "SETUP", !.ctrl = "COMPLETE"]
      [] urb = "OK" /\ c.pre \notin Statuses -> [c EXCEPT !.cur = After(c.pre, c.req)]
      [] urb \in {"ERROR", "STALL"}          -> [c EXCEPT !.cur = "SETUP", !.ctrl = "STALL"]
      [] urb = "NOREADY" /\ c.pre = "DATA_OUT" -> [c EXCEPT !.cur = "DATA_OUT"]
      [] OTHER                               -> c

Waited == USBH_CtrlXferWaitUrbState(ctl, pipe[ChanOf(ctl.pre)].urb)
Waiting == Requesting /\ ~Skipped /\ ctl.xfer = "WAITING" /\ ctl.cur = "WAIT_URB"

WaitStage ==
    /\ Waiting /\ Waited.ctrl \notin {"COMPLETE", "STALL"} /\ Waited # ctl
    /\ ctl' = Waited
    /\ UNCHANGED <<host, pipe, chan, irq, dev, pc, left>>

(* The ENUM handlers on USBH_CTRL_COMPLETE. *)
EnumCompleted ==
    /\ Waiting /\ Waited.ctrl = "COMPLETE" /\ host.state = "ENUM"
    /\ ctl' = [Waited EXCEPT !.xfer = "START", !.enum = EnumNext[@],
                             !.addr = IF ctl.enum = "SET_ADDR" THEN 1 ELSE @]
    /\ chan' = CASE ctl.enum = "GET_DEV_DESC" -> OpenAt(ctl.addr)
                 [] ctl.enum = "SET_ADDR" -> [c \in Chans |-> [chan[c] EXCEPT !.addr = 1]]
                 [] OTHER -> chan
    /\ host' = IF ctl.enum = "SET_CONFIGURATION"
               THEN [host EXCEPT !.state = "USER_INPUT"] ELSE host
    /\ UNCHANGED <<pipe, irq, dev, pc, left>>

(* The steps of the enumeration that send nothing. *)
EnumSkip ==
    /\ In("ENUM") /\ (ctl.enum = "ENUM_IDLE" \/ Skipped)
    /\ ctl' = [ctl EXCEPT !.enum = EnumNext[@], !.xfer = IF Skipped THEN "START" ELSE @]
    /\ UNCHANGED <<host, pipe, chan, irq, dev, pc, left>>

(* The class handlers on USBH_CTRL_COMPLETE; MSC_GetMaxLunHandler goes on  *)
(* at once (the device has one logical unit).                              *)
ClassCompleted ==
    /\ Waiting /\ Waited.ctrl = "COMPLETE" /\ host.state = "CLASS_REQ"
    /\ ctl' = [Waited EXCEPT !.xfer = IF ctl.class = "GET_MAX_LUN" THEN "START" ELSE "OK",
                             !.stall = IF ctl.class = "CTRL_ERROR" THEN @ ELSE 0,
                             !.reset = @ /\ ctl.class # "GET_MAX_LUN"]
    /\ host' = IF ctl.class = "GET_MAX_LUN" THEN [host EXCEPT !.state = "CLASS"] ELSE host
    /\ UNCHANGED <<pipe, chan, irq, dev, pc, left>>

(* The branches for USBH_XFER_OK. *)
ClassNextRequest ==
    /\ In("CLASS_REQ") /\ ctl.class \in Requests /\ ctl.xfer = "OK"
    /\ ctl' = [ctl EXCEPT !.xfer = "START",
                          !.class = IF @ = "CTRL_ERROR" THEN ctl.back ELSE ClassNext[@]]
    /\ host' = IF ctl.class = "SET_PROTOCOL" THEN [host EXCEPT !.state = "CLASS"] ELSE host
    /\ UNCHANGED <<pipe, chan, irq, dev, pc, left>>

(* HID_REQ_IdleHandler, and the last call of USBH_CDC_ClassReqHandler. *)
ClassSkip ==
    /\ In("CLASS_REQ") /\ ctl.class \in {"HID_IDLE", "CDC_CONFIGURED_OK"}
    /\ ctl' = [ctl EXCEPT !.class = IF @ = "HID_IDLE" THEN ClassNext[@] ELSE "SET_LINE_CODING"]
    /\ host' = IF ctl.class = "HID_IDLE" THEN host ELSE [host EXCEPT !.state = "CLASS"]
    /\ UNCHANGED <<pipe, chan, irq, dev, pc, left>>

USBH_MSC_SATLL_RETRY_CNT == 3

(* A request that failed starts again.  MSC clears the halt first, and     *)
(* gives the request up after three times.                                 *)
GivesUpLate == ctl.stall > USBH_MSC_SATLL_RETRY_CNT
GivesUp == ctl.stall >= USBH_MSC_SATLL_RETRY_CNT

Failed ==
    /\ Waiting /\ Waited.ctrl = "STALL"
    /\ IF host.state = "CLASS_REQ" /\ ctl.class \in {"BOT_RESET", "GET_MAX_LUN"}
       THEN IF GivesUp
            THEN /\ ctl' = [Waited EXCEPT !.xfer = "START", !.stall = 0, !.reset = FALSE]
                 /\ host' = [host EXCEPT !.state = "CLASS"]
            ELSE /\ ctl' = [Waited EXCEPT !.xfer = "START", !.stall = @ + 1,
                                          !.back = ctl.class, !.class = "CTRL_ERROR"]
                 /\ UNCHANGED host
       ELSE ctl' = [Waited EXCEPT !.xfer = "START"] /\ UNCHANGED host
    /\ UNCHANGED <<pipe, chan, irq, dev, pc, left>>

(* USBH_UserInputHandler once the user agrees: the class's init handler.   *)
UserInput ==
    /\ In("USER_INPUT")
    /\ host' = [host EXCEPT !.state = IF Class = "MSC" THEN "CLASS" ELSE "CLASS_REQ"]
    /\ ctl' = [ctl EXCEPT !.reset = TRUE, !.stall = IF Class = "MSC" THEN 0 ELSE @]
    /\ UNCHANGED <<pipe, chan, irq, dev, pc, left>>

(* MSC_ResetBotHandler *)
ResetBot ==
    /\ In("CLASS") /\ Class = "MSC" /\ ctl.reset
    /\ host' = [host EXCEPT !.state = "CLASS_REQ"]
    /\ ctl' = [ctl EXCEPT !.class = "BOT_RESET"]
    /\ UNCHANGED <<pipe, chan, irq, dev, pc, left>>

Main ==
    \/ Idle \/ AttachedReset \/ AttachedOpen \/ Detached
    \/ StartRequest \/ StartStage \/ ArmStage \/ WaitStage \/ Failed
    \/ EnumSkip \/ EnumCompleted \/ UserInput
    \/ ClassSkip \/ ClassCompleted \/ ClassNextRequest \/ ResetBot

-----------------------------------------------------------------------------
(* The bus and the device.                                                 *)
Running(c) ==
    /\ chan[c].on /\ chan[c].flag = "none" /\ (SlowCpu \/ pc # "arm")
Reaches(c) == dev.present /\ dev.enabled /\ chan[c].addr = dev.addr

Accepted(kind) ==
    CASE kind = "SETUP" -> [dev EXCEPT !.phase = After("SETUP", ctl.req), !.req = ctl.req]
      [] kind \in Statuses ->
            [dev EXCEPT !.phase = "none", !.done = @ \cup {dev.req},
                        !.addr = IF dev.req = "SET_ADDR" THEN 1 ELSE @]
      [] OTHER -> [dev EXCEPT !.phase = After(kind, dev.req)]

Ends(c, flag) == chan' = [chan EXCEPT ![c].on = FALSE, ![c].flag = flag]
Willing(kind) == kind = "SETUP" \/ (dev.phase = kind /\ dev.req \notin Refused)

Answer(c) ==
    /\ Running(c) /\ Reaches(c)
    /\ IF Willing(chan[c].kind)
       THEN Ends(c, "done") /\ dev' = Accepted(chan[c].kind)
       ELSE Ends(c, "stall") /\ dev' = [dev EXCEPT !.phase = "none"]
    /\ UNCHANGED <<host, ctl, pipe, irq, pc, left>>

(* A stall, a NAK, or an error on the line; of an OUT packet only the      *)
(* handshake may be lost.                                                  *)
Fault(c) ==
    LET kind == chan[c].kind IN
    /\ Running(c) /\ Reaches(c) /\ left.faults > 0
    /\ \/ kind # "SETUP" /\ Ends(c, "stall") /\ dev' = [dev EXCEPT !.phase = "none"]
       \/ Ends(c, "err") /\ dev' \in {dev} \cup IF c = "out" /\ Willing(kind)
                                                THEN {Accepted(kind)} ELSE {}
       \/ /\ kind # "SETUP" /\ (kind = "STATUS_OUT" => NakStatus)
          /\ Ends(c, "nak") /\ UNCHANGED dev
    /\ left' = [left EXCEPT !.faults = @ - 1]
    /\ UNCHANGED <<host, ctl, pipe, irq, pc>>

(* Nobody answers. *)
NoAnswer(c) ==
    /\ Running(c) /\ ~Reaches(c) /\ Ends(c, "err")
    /\ UNCHANGED <<host, ctl, pipe, irq, dev, pc, left>>

Plug ==
    /\ ~dev.present /\ left.plugs > 0
    /\ dev' = [Fresh(dev) EXCEPT !.present = TRUE]
    /\ irq' = [irq EXCEPT !.pend = @ \cup {"connect"}]
    /\ left' = [left EXCEPT !.plugs = @ - 1]
    /\ UNCHANGED <<host, ctl, pipe, chan, pc>>

BetweenTransfers == irq.dedis /\ ctl.cur = "SETUP" /\ pc = "poll" /\ host.state # "CLASS_REQ"

Unplug ==
    /\ dev.present /\ (AnyUnplug \/ BetweenTransfers)
    /\ dev' = [Fresh(dev) EXCEPT !.present = FALSE, !.enabled = FALSE]
    /\ irq' = [irq EXCEPT !.pend = @ \cup {"dedis"} \cup IF dev.enabled THEN {"pen"} ELSE {}]
    /\ UNCHANGED <<host, ctl, pipe, chan, pc, left>>

Bus == \E c \in Chans : Answer(c) \/ NoAnswer(c)
Next ==
    /\ Main \/ Isr \/ Bus \/ (\E c \in Chans : Fault(c)) \/ Plug \/ Unplug
    /\ UNCHANGED setup

(* The main loop polls forever, interrupts are served, and the controller  *)
(* carries out the transactions it is given.  Faults and the hand at the   *)
(* plug owe nothing.                                                       *)
Fairness == WF_vars(Main) /\ WF_vars(Isr) /\ WF_vars(Bus)
Spec == Init /\ [][Next]_<<setup, vars>> /\ Fairness

-----------------------------------------------------------------------------
Stages == {"SETUP", "DATA_IN", "DATA_OUT"} \cup Statuses

(* Type invariant. *)
HostType == [state : {"IDLE", "ATTACHED", "ENUM", "USER_INPUT", "CLASS_REQ", "CLASS"},
             conn : BOOLEAN, port : BOOLEAN]
EnumStates == DOMAIN EnumNext \cup {"CONFIGURED_OK"}
ClassStates == DOMAIN ClassNext \cup {"CTRL_ERROR", "GET_MAX_LUN", "CDC_CONFIGURED_OK"}
CtlType == [enum : EnumStates, class : ClassStates, back : {"BOT_RESET", "GET_MAX_LUN"},
            reset : BOOLEAN, stall : 0..USBH_MSC_SATLL_RETRY_CNT,
            xfer : {"START", "WAITING", "OK"}, ctrl : Stages \cup {"COMPLETE", "STALL"},
            cur : Stages \cup {"WAIT_URB"}, pre : Stages, req : Requests, addr : {0, 1}]
PipeType == [urb : {"IDLE", "OK", "STALL", "ERROR", "NOREADY"},
             state : {"OK", "STALL", "XACTERR", "NAK"}]
ChanType == [on : BOOLEAN, kind : Stages, addr : {0, 1},
             flag : {"none", "done", "stall", "err", "nak", "halted"}]
IrqType == [on : BOOLEAN, dedis : BOOLEAN, pend : SUBSET {"connect", "pen", "dedis"}]
DevType == [present : BOOLEAN, enabled : BOOLEAN, addr : {0, 1}, phase : Stages \cup {"none"},
            req : Requests, done : SUBSET Requests]
LeftType == [faults : 0..MaxFaults, plugs : 0..MaxPlugs]
HostTypeOK ==
    /\ setup \in Setups /\ host \in HostType /\ ctl \in CtlType /\ pipe \in [Chans -> PipeType]
    /\ chan \in [Chans -> ChanType] /\ irq \in IrqType /\ dev \in DevType
    /\ pc \in {"poll", "open", "arm"} /\ left \in LeftType

(* The order of the requests, by the two handler tables. *)
EnumRank == [
    ENUM_IDLE |-> 0, GET_DEV_DESC |-> 1, SET_ADDR |-> 2, GET_FULL_DEV_DESC |-> 3,
    GET_CFG_DESC |-> 4, GET_FULL_CFG_DESC |-> 5, GET_MFC_STRING |-> 6, GET_PRODUCT_STRING |-> 7,
    GET_SERIALNUM_STRING |-> 8, SET_CONFIGURATION |-> 9, CONFIGURED_OK |-> 10]
CdcRank == [SET_LINE_CODING |-> 0, GET_LINE_CODING |-> 1, SET_CONTROL_LINE_STATE |-> 2,
            CDC_CONFIGURED_OK |-> 3]
HidRank == [HID_IDLE |-> 0, GET_HID_DESC |-> 1, GET_REPORT_DESC |-> 2, SET_IDLE |-> 3,
            SET_PROTOCOL |-> 4]
Before(rank, s) == {r \in DOMAIN rank : rank[r] < rank[s]}

(* What the host takes for done when it is where it is.  (Of the mass      *)
(* storage requests it may have given up each.)                            *)
EnumTaken ==
    CASE host.state = "ENUM" -> Before(EnumRank, ctl.enum)
      [] host.state \in {"USER_INPUT", "CLASS_REQ", "CLASS"} -> DOMAIN EnumRank
      [] OTHER -> {}
ClassTaken ==
    CASE host.state = "CLASS_REQ" /\ Class = "CDC" -> Before(CdcRank, ctl.class)
      [] host.state = "CLASS_REQ" /\ Class = "HID" -> Before(HidRank, ctl.class)
      [] host.state = "CLASS" /\ Class = "CDC" -> DOMAIN CdcRank
      [] host.state = "CLASS" /\ Class = "HID" -> DOMAIN HidRank
      [] OTHER -> {}
TakenForDone ==
    ((EnumTaken \cup ClassTaken) \cap Requests) \ IF HasSerial THEN {} ELSE {"GET_SERIALNUM_STRING"}

(* The device that was attached is still the one at the port. *)
SameDevice == host.conn /\ dev.present /\ "dedis" \notin irq.pend

(* The host never runs ahead of the device: every request it takes for     *)
(* done (usbh_enum.c and the class handlers, which see only urbStatus) has *)
(* been completed by the device that is plugged in now, status stage       *)
(* included, whatever was stalled, garbled or unplugged before.            *)
StagesDone == SameDevice => TakenForDone \subseteq dev.done

(* A running control channel uses the address the device has, across       *)
(* SET_ADDRESS, its retries and a new device (usbh_enum.c, usbh_core.c).   *)
ChannelsAddressDevice ==
    SameDevice /\ dev.enabled =>
        \A c \in Chans : chan[c].on /\ chan[c].flag = "none" => chan[c].addr = dev.addr

(* A device pulled out after its port was enabled is noticed: the stack    *)
(* goes back to USBH_HOST_IDLE, whatever transfer was running.             *)
UnplugNoticed == ("dedis" \in irq.pend /\ irq.dedis) ~> host.state = "IDLE"

(* A device that stays plugged in is brought to the class handler, also    *)
(* after another one was pulled out between two transfers, when            *)
(* transactions fail, or MSC requests are always refused.                  *)
Ready == host.state = "CLASS" /\ (Class = "MSC" => ~ctl.reset)
Gentle == ~SlowCpu /\ ~AnyUnplug /\ ~NakStatus
DeviceReady == (Gentle /\ dev.present) ~> (Ready \/ ~dev.present)
=============================================================================
