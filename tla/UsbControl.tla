----------------------------- MODULE UsbControl -----------------------------
(***************************************************************************)
(* Control transfers on endpoint 0 of the USB device library               *)
(* (USB_Device_Lib: usbd_core.c, usbd_stdReq.c, the class handlers and the *)
(* endpoint 0 part of usbd_interrupt.c), against a host that may give a    *)
(* transfer up at any point, retry it, or reset the bus.                   *)
(*                                                                         *)
(* One iteration of the interrupt handler is one step: the handler is not  *)
(* re-entered, and what the bus does meanwhile the next iteration sees.    *)
(* A byte is known by its request and its offset in the answer, so that a  *)
(* packet is [id, off, len].                                               *)
(***************************************************************************)
EXTENDS Integers

CONSTANTS
    MPS,         \* USB_EP0_PACKET_SIZE
    Requests,    \* the requests the host makes: [type, dir, bRequest, wLength, size, ok]
    ClassHandlers, \* what may be installed as classReqHandler, "none" for NULL
    MaxAborts,   \* bound: transfers the host gives up for another one
    MaxResets,   \* bound: resets of the bus
    FastIsr      \* an IN packet is handled before the next SETUP arrives

ASSUME UsbControlAssumption ==
    /\ MPS \in Nat \ {0} /\ MaxAborts \in Nat /\ MaxResets \in Nat
    /\ FastIsr \in BOOLEAN /\ ClassHandlers \subseteq {"none", "CDC", "HID", "MSC"}
    /\ \A r \in Requests : r.wLength \in Nat /\ r.size \in Nat /\ r.ok \in BOOLEAN

VARIABLES
    dev,     \* g_usbDev for endpoint 0, the endpoint's status and packet, the address
    irq,     \* what the interrupt handler will find: CTR of IN, of OUT or SETUP, RST
    host,    \* the host's transfer: stage, request, bytes so far
    budget   \* aborts and resets left

vars == <<dev, irq, host, budget>>

Min(a, b) == IF a <= b THEN a ELSE b
Packets(n) == (n + MPS - 1) \div MPS

(* type and dir are fields of bmRequestType.  bRequest is the number, under *)
(* the name its type gives it; 5 is "SET_ADDRESS" whatever the type.  size  *)
(* is the length of what is asked for, for SET_ADDRESS the address, and ok  *)
(* the outcome of the tests the code makes of wValue and the recipient.     *)
ToHost(r) == r.dir = "in"
NoRequest == [type |-> "none", dir |-> "out", bRequest |-> "none", wLength |-> 0,
              size |-> 0, ok |-> TRUE]
Id(r) == <<r.type, r.bRequest, r.size>>
NoId == Id(NoRequest)
SetsAddress(r) == r.type = "standard" /\ r.bRequest = "SET_ADDRESS"

HidSet == {"SET_IDLE", "SET_PROTOCOL"}
HidGet == {"GET_IDLE", "GET_PROTOCOL"}

(* What the USB specification and those of the classes make of a request:  *)
(* its direction, its data stage, no number 5 but SET_ADDRESS.  A host asks *)
(* for the whole of an answer of fixed length, and for no more line coding  *)
(* than there is.                                                           *)
ProperRequest(r) ==
    /\ r.bRequest \in {"GET_DESCRIPTOR", "GET_STATUS", "GET_CONFIGURATION", "GET_INTERFACE",
                       "SYNCH_FRAME", "0x21", "GET_MAX_LUN"} \cup HidGet => ToHost(r)
    /\ r.bRequest \in {"SET_ADDRESS", "SET_CONFIGURATION", "BOT_RESET"} \cup HidSet
           => ~ToHost(r) /\ r.wLength = 0
    /\ r.bRequest \in {"0x20", "0x22"} => ~ToHost(r)
    /\ r.bRequest = "SET_ADDRESS" => r.type = "standard"
    /\ r.bRequest \in {"GET_STATUS", "GET_CONFIGURATION"} => r.size <= r.wLength
    /\ r.bRequest \in HidGet \cup {"GET_MAX_LUN"} => r.size = 1 /\ r.wLength >= 1
    /\ r.bRequest = "0x21" => r.wLength <= r.size
ProperRequests == \A r \in Requests : ProperRequest(r)

-----------------------------------------------------------------------------
Load(d, id, off, len) ==
    [d EXCEPT !.pkt = [id |-> id, off |-> off, len |-> len], !.tx = "VALID"]

(* USBD_CtrlInData: the first packet of an answer, or the IN status stage. *)
(* The short branch and the empty one leave packNum and bufLen alone, and  *)
(* no branch clears zeroPackFill.                                          *)
USBD_CtrlInData(d, len) ==
    LET next == IF ToHost(d.req) THEN "DATA_IN" ELSE "WAIT_STATUS_IN"
        zero == IF len > 0 /\ len < d.req.wLength /\ len % MPS = 0 THEN TRUE ELSE d.zeroPackFill
        id == IF len = 0 THEN NoId ELSE Id(d.req)
    IN  IF len >= MPS
        THEN [Load(d, id, 0, MPS) EXCEPT
                !.bufLen = len - MPS, !.pBuf = [id |-> id, off |-> MPS],
                !.packNum = Packets(len - MPS), !.zeroPackFill = zero, !.ctrlState = "DATA_IN"]
        ELSE [Load(d, id, 0, len) EXCEPT !.zeroPackFill = zero, !.ctrlState = next]

(* USBD_CtrlOutData *)
USBD_CtrlOutData(d, len) ==
    IF len > 0
    THEN [d EXCEPT !.outLen = len, !.outPack = Packets(len), !.rx = "VALID",
                   !.ctrlState = "DATA_OUT"]
    ELSE [d EXCEPT !.rx = "VALID", !.ctrlState = "WAIT_STATUS_OUT"]

Stall(d) == [d EXCEPT !.tx = "STALL", !.rx = "STALL"]

(* A faulty variant: the address is taken at once. *)
SetAddressEarly(d) == [USBD_CtrlInData(d, 0) EXCEPT !.addr = d.req.size]

(* The standard requests the library carries out; r.ok stands for the      *)
(* tests each of them makes.  Only descriptors are cut to wLength.         *)
USBD_StandardGetDescriptor(d) == USBD_CtrlInData(d, Min(d.req.wLength, d.req.size))
USBD_StandardGetConfiguration(d) == USBD_CtrlInData(d, d.req.size)
USBD_StandardGetStatus(d) == USBD_CtrlInData(d, d.req.size)
USBD_StandardSetAddress(d) == USBD_CtrlInData(d, 0)
USBD_StandardSetConfiguration(d) == USBD_CtrlInData(d, 0)

(* Done, says the code, and sends nothing. *)
USBD_StandardSetFeature(d) == d

(* USBD_StandardReqeust.  Refused: a request whose tests fail, and those   *)
(* that always return an error (GET_INTERFACE, SET_DESCRIPTOR,             *)
(* SET_INTERFACE, CLEAR_FEATURE).  A code it does not know counts as done. *)
USBD_StandardReqeust(d) ==
    CASE d.req.bRequest = "GET_DESCRIPTOR" /\ d.req.ok -> USBD_StandardGetDescriptor(d)
      [] d.req.bRequest = "GET_CONFIGURATION" /\ d.req.ok -> USBD_StandardGetConfiguration(d)
      [] d.req.bRequest = "GET_STATUS" /\ d.req.ok -> USBD_StandardGetStatus(d)
      [] d.req.bRequest = "SET_ADDRESS" /\ d.req.ok -> USBD_StandardSetAddress(d)
      [] d.req.bRequest = "SET_CONFIGURATION" /\ d.req.ok -> USBD_StandardSetConfiguration(d)
      [] d.req.bRequest = "SET_FEATURE" -> USBD_StandardSetFeature(d)
      [] d.req.bRequest = "SYNCH_FRAME" -> d
      [] OTHER -> Stall(d)

(* The class handlers.  CDC: without data the status stage, of the wrong   *)
(* direction for an IN request; with data by the number alone, and nothing *)
(* for another number.                                                     *)
CDC_ClassHandler(d) ==
    CASE d.req.wLength = 0 /\ ~ToHost(d.req) -> USBD_CtrlInData(d, 0)
      [] d.req.wLength = 0 /\ ToHost(d.req) -> USBD_CtrlOutData(d, 0)
      [] d.req.wLength > 0 /\ d.req.bRequest \in {"0x20", "0x22"} ->
             USBD_CtrlOutData(d, d.req.wLength)
      [] d.req.wLength > 0 /\ d.req.bRequest = "0x21" -> USBD_CtrlInData(d, d.req.wLength)
      [] OTHER -> d

(* HID: one byte or the status stage; nothing for another number. *)
HID_ClassHandler(d) ==
    CASE d.req.bRequest \in HidSet -> USBD_CtrlInData(d, 0)
      [] d.req.bRequest \in HidGet -> USBD_CtrlInData(d, 1)
      [] OTHER -> d

(* Mass storage; what BOT_RESET does to the transport is in UsbMsc. *)
USBD_MSC_ClassHandler(d) ==
    CASE d.req.bRequest = "GET_MAX_LUN" /\ d.req.ok /\ d.req.wLength = 1 /\ ToHost(d.req) ->
             USBD_CtrlInData(d, 1)
      [] d.req.bRequest = "BOT_RESET" /\ d.req.ok /\ d.req.wLength = 0 /\ ~ToHost(d.req) ->
             USBD_CtrlInData(d, 0)
      [] OTHER -> Stall(d)

classReqHandler(d) ==
    CASE d.classReqHandler = "CDC" -> CDC_ClassHandler(d)
      [] d.classReqHandler = "HID" -> HID_ClassHandler(d)
      [] d.classReqHandler = "MSC" -> USBD_MSC_ClassHandler(d)
      [] OTHER -> d

(* USBD_SetupProcess: the request is copied, then handled by its type.     *)
(* vendorReqHandler is NULL, as USBD_InitParamStructInit leaves it: a      *)
(* vendor request is not answered.  A SETUP packet is never empty.         *)
USBD_SetupProcess(d) ==
    LET e == [d EXCEPT !.req = d.pma, !.outGot = 0]
    IN  CASE e.req.type = "standard" -> USBD_StandardReqeust(e)
          [] e.req.type = "class" -> classReqHandler(e)
          [] e.req.type = "vendor" -> e
          [] OTHER -> Stall(e)

(* A faulty variant: the buffer pointer stays. *)
SendMoreSame(d) ==
    LET n == Min(d.bufLen, MPS)
    IN  [Load(d, d.pBuf.id, d.pBuf.off, n) EXCEPT !.bufLen = @ - n, !.packNum = @ - 1]

SendMore(d) ==
    LET n == Min(d.bufLen, MPS)
    IN  [Load(d, d.pBuf.id, d.pBuf.off, n) EXCEPT
            !.pBuf.off = @ + n, !.bufLen = @ - n, !.packNum = @ - 1]

(* A faulty variant: the end of the packets is not noticed. *)
CtrlInEndless(d) == IF d.ctrlState = "DATA_IN" THEN SendMore(d) ELSE d

(* A faulty variant: no zero packet after an answer of full packets. *)
CtrlInNoZero(d) ==
    CASE d.ctrlState = "DATA_IN" /\ d.packNum > 0 -> SendMore(d)
      [] d.ctrlState = "DATA_IN" /\ d.packNum = 0 ->
             [d EXCEPT !.ctrlState = "WAIT_STATUS_OUT", !.rx = "VALID"]
      [] d.ctrlState = "WAIT_STATUS_IN" /\ d.req.bRequest = "SET_ADDRESS" ->
             [d EXCEPT !.addr = d.req.size]
      [] OTHER -> d

(* USBD_CtrlInProcess: the host has taken a packet. *)
USBD_CtrlInProcess(d) ==
    CASE d.ctrlState = "DATA_IN" /\ d.packNum > 0 -> SendMore(d)
      [] d.ctrlState = "DATA_IN" /\ d.packNum = 0 /\ d.zeroPackFill ->
             [Load(d, NoId, 0, 0) EXCEPT !.zeroPackFill = FALSE]
      [] d.ctrlState = "DATA_IN" /\ d.packNum = 0 /\ ~d.zeroPackFill ->
             [d EXCEPT !.ctrlState = "WAIT_STATUS_OUT", !.rx = "VALID"]
      [] d.ctrlState = "WAIT_STATUS_IN" /\ d.req.bRequest = "SET_ADDRESS" ->
             [d EXCEPT !.addr = d.req.size]
      [] OTHER -> d

(* USBD_CtrlOutProcess: the host has sent a packet. *)
USBD_CtrlOutProcess(d) ==
    LET n == Min(d.outLen, MPS)
        e == [d EXCEPT !.outLen = @ - n, !.outGot = @ + n, !.outPack = @ - 1]
    IN  CASE d.ctrlState = "DATA_OUT" /\ d.outPack > 1 -> USBD_CtrlOutData(e, e.outLen)
          [] d.ctrlState = "DATA_OUT" /\ d.outPack = 1 -> USBD_CtrlInData(e, 0)
          [] d.ctrlState = "DATA_OUT" /\ d.outPack = 0 -> USBD_CtrlInData(d, 0)
          [] OTHER -> d

-----------------------------------------------------------------------------
Init ==
    /\ \E c \in ClassHandlers : dev = [
              ctrlState |-> "WAIT_SETUP", req |-> NoRequest, pma |-> NoRequest,
              classReqHandler |-> c, pBuf |-> [id |-> NoId, off |-> 0], bufLen |-> 0, packNum |-> 0,
              zeroPackFill |-> FALSE, outLen |-> 0, outPack |-> 0, outGot |-> 0,
              tx |-> "NAK", rx |-> "VALID", pkt |-> [id |-> NoId, off |-> 0, len |-> 0], addr |-> 0]
    /\ irq = [tx |-> FALSE, rx |-> FALSE, setup |-> FALSE, rst |-> FALSE]
    /\ host = [stage |-> "idle", req |-> NoRequest, got |-> 0, bad |-> FALSE, addr |-> 0]
    /\ budget = [aborts |-> MaxAborts, resets |-> MaxResets]

(* USBD_LowPriorityProc, one iteration for endpoint 0: both directions are *)
(* set to NAK; DIR says OUT or SETUP whenever that flag is set.            *)
Nak(d) == [d EXCEPT !.tx = "NAK", !.rx = "NAK"]

Isr_In ==
    /\ irq.tx /\ ~irq.rx
    /\ irq' = [irq EXCEPT !.tx = FALSE]
    /\ dev' = USBD_CtrlInProcess(Nak(dev))
    /\ UNCHANGED <<host, budget>>

Isr_Setup ==
    /\ irq.rx /\ irq.setup
    /\ irq' = [irq EXCEPT !.rx = FALSE, !.setup = FALSE]
    /\ dev' = USBD_SetupProcess(Nak(dev))
    /\ UNCHANGED <<host, budget>>

Isr_Out ==
    /\ irq.rx /\ ~irq.setup
    /\ irq' = [irq EXCEPT !.rx = FALSE]
    /\ dev' = USBD_CtrlOutProcess(Nak(dev))
    /\ UNCHANGED <<host, budget>>

(* USBD_ResetIsrHandler.  The buffers of endpoint 0 are not touched. *)
USBD_ResetIsrHandler(d) ==
    [d EXCEPT !.ctrlState = "WAIT_SETUP", !.tx = "NAK", !.rx = "VALID", !.addr = 0]

(* The handler looks at RST after CTR. *)
Isr_Reset ==
    /\ irq.rst /\ ~irq.tx /\ ~irq.rx
    /\ irq' = [irq EXCEPT !.rst = FALSE]
    /\ dev' = USBD_ResetIsrHandler(dev)
    /\ UNCHANGED <<host, budget>>

Isr == Isr_In \/ Isr_Setup \/ Isr_Out \/ Isr_Reset

-----------------------------------------------------------------------------
Active == host.stage \in {"dataIn", "dataOut", "statusIn", "statusOut"}

FirstStage(r) ==
    CASE ToHost(r) /\ r.wLength > 0 -> "dataIn"
      [] ~ToHost(r) /\ r.wLength > 0 -> "dataOut"
      [] OTHER -> "statusIn"

(* A SETUP packet is always taken, unless another packet waits; the        *)
(* endpoint then answers NAK until the handler has run.                    *)
SendSetup(r) ==
    /\ ~irq.rx /\ ~irq.rst /\ (FastIsr => ~irq.tx)
    /\ host' = [host EXCEPT !.stage = FirstStage(r), !.req = r, !.got = 0, !.bad = FALSE]
    /\ dev' = [Nak(dev) EXCEPT !.pma = r]
    /\ irq' = [irq EXCEPT !.rx = TRUE, !.setup = TRUE]

Start(r) == ~Active /\ SendSetup(r) /\ UNCHANGED budget

Abort(r) ==
    /\ Active /\ budget.aborts > 0
    /\ SendSetup(r)
    /\ budget' = [budget EXCEPT !.aborts = @ - 1]

(* The status the host meets in its stage. *)
Met == IF host.stage \in {"dataIn", "statusIn"} THEN dev.tx ELSE dev.rx

(* Nothing has moved for long: the host tries the same request again. *)
Timeout ==
    /\ Active /\ Met = "NAK" /\ ~irq.tx /\ ~irq.rx /\ ~irq.rst
    /\ SendSetup(host.req)
    /\ UNCHANGED budget

HostIn ==
    /\ host.stage \in {"dataIn", "statusIn"} /\ dev.tx = "VALID" /\ ~irq.rst
    /\ LET p == dev.pkt
           got == host.got + p.len
           last == p.len < MPS \/ got >= host.req.wLength
           good == (host.stage = "dataIn" /\ p.len > 0)
                       => (p.id = Id(host.req) /\ p.off = host.got)
       IN  host' = IF host.stage = "dataIn"
                   THEN [host EXCEPT !.got = got, !.bad = @ \/ ~good,
                                     !.stage = IF last THEN "statusOut" ELSE "dataIn"]
                   ELSE [host EXCEPT !.stage = "done", !.bad = @ \/ p.len # 0,
                                     !.addr = IF SetsAddress(host.req) THEN host.req.size ELSE @]
    /\ dev' = [dev EXCEPT !.tx = "NAK"]
    /\ irq' = [irq EXCEPT !.tx = TRUE]
    /\ UNCHANGED budget

HostOut ==
    /\ host.stage \in {"dataOut", "statusOut"} /\ dev.rx = "VALID" /\ ~irq.rst
    /\ LET sent == Min(host.req.wLength, host.got + MPS)
       IN  host' = IF host.stage = "dataOut"
                   THEN [host EXCEPT !.got = sent,
                                     !.stage = IF sent = host.req.wLength THEN "statusIn" ELSE @]
                   ELSE [host EXCEPT !.stage = "done"]
    /\ dev' = [dev EXCEPT !.rx = "NAK"]
    /\ irq' = [irq EXCEPT !.rx = TRUE]
    /\ UNCHANGED budget

HostStalled ==
    /\ Active /\ Met = "STALL"
    /\ host' = [host EXCEPT !.stage = "stalled"]
    /\ UNCHANGED <<dev, irq, budget>>

(* The endpoints are disabled and the address is 0 until the handler runs; *)
(* the CTR flags survive.                                                  *)
BusReset ==
    /\ budget.resets > 0 /\ ~irq.rst
    /\ host' = [host EXCEPT !.stage = "idle", !.req = NoRequest, !.addr = 0]
    /\ dev' = [dev EXCEPT !.tx = "DIS", !.rx = "DIS", !.addr = 0]
    /\ irq' = [irq EXCEPT !.rst = TRUE]
    /\ budget' = [budget EXCEPT !.resets = @ - 1]

Host == HostIn \/ HostOut \/ HostStalled \/ Timeout

Next == Isr \/ Host \/ BusReset \/ \E r \in Requests : Start(r) \/ Abort(r)

Spec == Init /\ [][Next]_vars /\ WF_vars(Isr) /\ WF_vars(Host)

-----------------------------------------------------------------------------
(* The type of the state. *)
TypeOK ==
    /\ dev.ctrlState \in {"WAIT_SETUP", "DATA_IN", "DATA_OUT", "WAIT_STATUS_IN",
                          "WAIT_STATUS_OUT"}
    /\ {dev.tx, dev.rx} \subseteq {"NAK", "VALID", "STALL", "DIS"}
    /\ {dev.req, dev.pma, host.req} \subseteq Requests \cup {NoRequest}
    /\ dev.bufLen \in Nat /\ dev.packNum \in Nat /\ dev.outLen \in Nat /\ dev.outPack \in Nat
    /\ irq \in [tx : BOOLEAN, rx : BOOLEAN, setup : BOOLEAN, rst : BOOLEAN]
    /\ host.got \in Nat /\ host.bad \in BOOLEAN

(* A transfer that ended well has carried exactly its own bytes: what the  *)
(* host read is the answer to its request, cut at wLength, and what the    *)
(* device read is all the host sent, whatever transfers were given up      *)
(* before (USBD_CtrlInData leaves most of their state behind).             *)
DataExact ==
    host.stage = "done" =>
        /\ ~host.bad
        /\ ToHost(host.req) => host.got = Min(host.req.wLength, host.req.size)
        /\ ~ToHost(host.req) => dev.outGot = host.req.wLength

(* The device answers to the address the host uses: it changes with the    *)
(* status stage of SET_ADDRESS, neither before nor without it, and with a  *)
(* reset.                                                                  *)
AddressAgreed == (~irq.tx /\ ~irq.rst) => dev.addr = host.addr

(* The requests for which the code returns without loading or stalling the *)
(* endpoint in the direction the host waits for: SET_FEATURE and a number  *)
(* USBD_StandardReqeust does not know, every vendor request, and of the    *)
(* class requests an IN request without data and an unknown one with data  *)
(* (CDC), an unknown one (HID), all of them (no handler).                  *)
Unanswered(r) ==
    \/ r.type = "standard" /\ r.bRequest \in {"SET_FEATURE", "SYNCH_FRAME"}
    \/ r.type = "vendor"
    \/ /\ r.type = "class"
       /\ \/ dev.classReqHandler = "none"
          \/ dev.classReqHandler = "HID" /\ r.bRequest \notin HidSet \cup HidGet
          \/ dev.classReqHandler = "CDC" /\ r.wLength = 0 /\ ToHost(r)
          \/ dev.classReqHandler = "CDC" /\ r.wLength > 0 /\ r.bRequest \notin {"0x20", "0x21", "0x22"}

(* A host that retries is answered unless the code leaves its request      *)
(* without an answer: those requests never end, and every other one ends   *)
(* with its status stage or a stall, however many transfers, unanswered    *)
(* ones included, were given up before.                                    *)
RetryAnswered ==
    /\ [](host.stage \in {"done", "stalled"} => ~Unanswered(host.req))
    /\ (Active /\ ~Unanswered(host.req)) ~> (~Active \/ Unanswered(host.req))
=============================================================================
