--------------------------- MODULE UsbHostProofs ---------------------------
(***************************************************************************)
(* The USB host stack, for every class, device and number of faults and of *)
(* devices plugged in, with interrupts and pulled cables between any two   *)
(* steps: the host never runs ahead of the device, and a running channel   *)
(* uses the device's address.                                              *)
(*                                                                         *)
(* Neither is inductive alone.  What the host takes for done it has seen   *)
(* as urbStatus only, so the invariant follows an answer from the device   *)
(* through the channel's flag and the pipe to urbStatus:                   *)
(*   PortInv    when the host can be wrong about which device is there;    *)
(*   UnplugInv  a cable pulled between transfers is noticed first;         *)
(*   PlaceInv   which requests and stages belong to which host state;      *)
(*   ChanInv    one channel at most works, for the current stage;          *)
(*   DevInv     an acknowledged stage is one the device has carried out;   *)
(*   AddrInv    the device's address, the host's and the channels'.        *)
(***************************************************************************)
EXTENDS UsbHost, TLAPS

Busy(c) == chan[c].on \/ chan[c].flag # "none"
BeforeReset == host.state \in {"IDLE", "ATTACHED"} /\ pc # "open"
Bound == SameDevice /\ ~BeforeReset      \* to the device at the port, since its reset
Urb == pipe[ChanOf(ctl.pre)].urb
Addressing == {"ENUM_IDLE", "GET_DEV_DESC", "SET_ADDR"}
MscReqs == {"BOT_RESET", "GET_MAX_LUN", "CTRL_ERROR"}
Configured == {"USER_INPUT", "CLASS_REQ", "CLASS"}

(* USBH_CDC_ClassDeInitHandler leaves s_classReqState: a CDC device that   *)
(* is pulled out during its requests leaves the next one the rest of them. *)
CdcGentle == \A s \in Setups : s.class = "CDC" => ~s.anyUnplug

(* The port: when the host can be wrong about the device. *)
PortInv ==
    /\ ~irq.on => ~host.conn
    /\ irq.on /\ ~host.conn => host.state = "IDLE"
    /\ host.conn \/ "connect" \in irq.pend => dev.present \/ "dedis" \in irq.pend
    /\ BeforeReset => irq.on /\ ~irq.dedis /\ "pen" \notin irq.pend /\ ~dev.enabled
    /\ irq.dedis => irq.on /\ (dev.enabled \/ "dedis" \in irq.pend)
    /\ Bound => dev.enabled

(* A cable pulled between transfers is noticed before anything else. *)
UnplugInv ==
    ~AnyUnplug =>
        /\ "dedis" \in irq.pend =>
               /\ irq.on /\ irq.dedis /\ "pen" \in irq.pend /\ ~dev.enabled
               /\ host.state # "CLASS_REQ" /\ pc = "poll"
        /\ ~irq.on => ~host.port /\ host.state # "CLASS_REQ" /\ pc = "poll"

(* Where the host stands in the enumeration and in the class. *)
PlaceInv ==
    /\ pc = "open" => host.state = "ATTACHED"
    /\ pc = "arm" => host.state \in {"ENUM", "CLASS_REQ"} /\ ctl.cur # "WAIT_URB"
                     /\ ctl.xfer = "WAITING"
    /\ host.state \in {"IDLE", "ATTACHED"} => ctl.enum = "ENUM_IDLE" /\ ctl.xfer = "START"
    /\ host.state \in Configured <=> ctl.enum = "CONFIGURED_OK"
    /\ ctl.enum \in Addressing => ctl.addr = 0
    /\ ctl.xfer = "WAITING" =>
           host.state \in {"ENUM", "CLASS_REQ"} /\ ctl.req = Stage /\ ~Skipped /\ ctl.ctrl \in Stages
    /\ ctl.xfer = "OK" => host.state = "CLASS_REQ" /\ ctl.class \in Requests \ {"GET_MAX_LUN"}
    /\ Class = "CDC" => ctl.class \in DOMAIN CdcRank
    /\ Class = "HID" => ctl.class \in DOMAIN HidRank
    /\ Class = "MSC" => ctl.class \in MscReqs
    /\ Class # "MSC" /\ host.state # "CLASS_REQ" => ctl.class = FirstClassReq[Class]

(* One channel at most is at work, for the current stage. *)
ChanInv ==
    /\ \A c \in Chans : chan[c].on => chan[c].flag = "none"
    /\ \A c \in Chans : Busy(c) =>
           /\ ctl.xfer = "WAITING"
           /\ \/ pc = "arm" /\ c = ChanOf(ctl.cur) /\ chan[c].kind = ctl.cur
              \/ /\ ctl.cur = "WAIT_URB" /\ c = ChanOf(ctl.pre) /\ chan[c].kind = ctl.pre
                 /\ pipe[c].urb = "IDLE"
    /\ ctl.cur = "WAIT_URB" /\ ctl.xfer # "WAITING" => \A c \in Chans : pipe[c].urb = "IDLE"
    /\ host.state \in {"IDLE", "ATTACHED"} =>
           \A c \in Chans : pipe[c].urb = "IDLE" /\ chan[c].addr = 0

(* The device has carried out a stage of the host's request. *)
CarriedOut(stage) ==
    /\ dev.req = ctl.req
    /\ IF stage \in Statuses THEN ctl.req \in dev.done ELSE dev.phase = After(stage, ctl.req)

Acked(c) == chan[c].flag = "done" \/ (chan[c].flag = "halted" /\ pipe[c].state = "OK")

(* Device and host are at the same request, unless the next packet is SETUP. *)
DevInv ==
    Bound =>
        /\ ctl.xfer # "WAITING" => ctl.cur = "SETUP" \/ dev.phase = "none"
        /\ ctl.xfer = "WAITING" /\ ctl.cur \notin {"SETUP", "WAIT_URB"} =>
               dev.phase = "none" \/ dev.req = ctl.req
        /\ ctl.xfer = "WAITING" /\ ctl.cur = "WAIT_URB" /\ ctl.pre # "SETUP" =>
               dev.phase = "none" \/ dev.req = ctl.req
        /\ \A c \in Chans : Acked(c) => CarriedOut(chan[c].kind)
        /\ ctl.cur = "WAIT_URB" /\ Urb = "OK" => CarriedOut(ctl.pre)
        /\ ctl.xfer = "OK" => ctl.class \in dev.done

(* The device has the new address and the host does not know it yet. *)
Moving ==
    /\ \A c \in Chans : ~chan[c].on
    /\ \/ pc = "arm" /\ ctl.cur = "STATUS_IN"
       \/ ctl.cur = "WAIT_URB" /\ ctl.pre = "STATUS_IN" /\ pipe["in"].urb \in {"IDLE", "OK"}
    /\ chan["in"].flag \in {"none", "done", "halted"}
    /\ chan["in"].flag = "halted" => pipe["in"].state = "OK"

AddrInv ==
    /\ dev.req = "SET_ADDR" => dev.phase \in {"none", "STATUS_IN"}
    /\ "SET_ADDR" \in dev.done => dev.addr = 1
    /\ Bound =>
           /\ \A c \in Chans : chan[c].addr = IF ctl.enum \in Addressing THEN 0 ELSE 1
           /\ ctl.enum \in {"ENUM_IDLE", "GET_DEV_DESC"} => dev.addr = 0
           /\ ctl.enum = "SET_ADDR" /\ dev.addr = 1 => Moving
           /\ ctl.enum \notin Addressing => dev.addr = 1

HostInv == HostTypeOK /\ PortInv /\ UnplugInv /\ PlaceInv /\ ChanInv /\ DevInv /\ AddrInv /\ StagesDone

-----------------------------------------------------------------------------
(* USBH_CtrlXferWaitUrbState changes the stage and the outcome, no more. *)
LEMMA WaitedFacts ==
    ASSUME HostTypeOK, Waiting, PlaceInv
    PROVE  /\ Waited \in CtlType
           /\ Waited.enum = ctl.enum /\ Waited.class = ctl.class /\ Waited.back = ctl.back
           /\ Waited.reset = ctl.reset /\ Waited.stall = ctl.stall /\ Waited.xfer = ctl.xfer
           /\ Waited.pre = ctl.pre /\ Waited.req = ctl.req /\ Waited.addr = ctl.addr
           /\ Waited.ctrl = "COMPLETE" => Urb = "OK" /\ ctl.pre \in Statuses /\ Waited.cur = "SETUP"
           /\ Waited.ctrl = "STALL" => Waited.cur = "SETUP" /\ Urb \notin {"OK", "IDLE"}
           /\ Waited.ctrl \notin {"COMPLETE", "STALL"} /\ Waited # ctl =>
                  /\ Waited.ctrl = ctl.ctrl
                  /\ \/ Urb = "OK" /\ ctl.pre \notin Statuses /\ Waited.cur = After(ctl.pre, ctl.req)
                     \/ Urb \notin {"OK", "IDLE"} /\ ctl.pre = "DATA_OUT" /\ Waited.cur = "DATA_OUT"
  <1> DEFINE urb == pipe[ChanOf(ctl.pre)].urb
  <1>1. ctl \in CtlType /\ ctl.ctrl \in Stages
    BY DEF HostTypeOK, CtlType, PlaceInv, Waiting
  <1>2. After(ctl.pre, ctl.req) \in Stages
    BY DEF After, Stages, Statuses
  <1>3. ctl.ctrl # "COMPLETE" /\ ctl.ctrl # "STALL"
    BY <1>1 DEF Stages, Statuses
  <1>4. CASE urb = "OK" /\ ctl.pre \in Statuses
    <2>1. Waited = [ctl EXCEPT !.cur = "SETUP", !.ctrl = "COMPLETE"]
      BY <1>4 DEF Waited, USBH_CtrlXferWaitUrbState
    <2>2. QED
      BY <1>1, <1>4, <2>1 DEF CtlType, Urb, Stages
  <1>5. CASE urb = "OK" /\ ctl.pre \notin Statuses
    <2>1. Waited = [ctl EXCEPT !.cur = After(ctl.pre, ctl.req)]
      BY <1>5 DEF Waited, USBH_CtrlXferWaitUrbState
    <2>2. QED
      BY <1>1, <1>2, <1>3, <1>5, <2>1 DEF CtlType, Urb
  <1>6. CASE urb \in {"ERROR", "STALL"}
    <2>1. Waited = [ctl EXCEPT !.cur = "SETUP", !.ctrl = "STALL"]
      BY <1>6 DEF Waited, USBH_CtrlXferWaitUrbState
    <2>2. QED
      BY <1>1, <1>6, <2>1 DEF CtlType, Urb, Stages
  <1>7. CASE urb = "NOREADY" /\ ctl.pre = "DATA_OUT"
    <2>1. Waited = [ctl EXCEPT !.cur = "DATA_OUT"]
      BY <1>7 DEF Waited, USBH_CtrlXferWaitUrbState
    <2>2. QED
      BY <1>1, <1>3, <1>7, <2>1 DEF CtlType, Urb, Stages
  <1>8. CASE urb \notin {"OK", "ERROR", "STALL"} /\ ~(urb = "NOREADY" /\ ctl.pre = "DATA_OUT")
    <2>1. Waited = ctl
      BY <1>8 DEF Waited, USBH_CtrlXferWaitUrbState
    <2>2. QED
      BY <1>1, <1>3, <2>1 DEF CtlType
  <1>9. QED
    BY <1>4, <1>5, <1>6, <1>7, <1>8

(* A step of any of the actors. *)
Actors == Main \/ Isr \/ Bus \/ (\E c \in Chans : Fault(c)) \/ Plug \/ Unplug

(* The class is one of the three, and its first request one it has. *)
LEMMA ClassIs ==
    ASSUME UsbHostAssumption, HostTypeOK
    PROVE  Class \in {"CDC", "HID", "MSC"} /\ FirstClassReq[Class] \in ClassStates
  <1>1. Class \in {"CDC", "HID", "MSC"}
    BY DEF UsbHostAssumption, HostTypeOK, Class
  <1>2. QED
    BY <1>1 DEF FirstClassReq, ClassStates, ClassNext

(* What the hardware does to a channel, and the device makes of a packet. *)
LEMMA EndsFacts ==
    ASSUME HostTypeOK, NEW c \in Chans, NEW f \in {"done", "stall", "err", "nak"}, Ends(c, f)
    PROVE  /\ chan' \in [Chans -> ChanType] /\ chan'[c].flag = f /\ ~chan'[c].on
           /\ chan'[c].kind = chan[c].kind /\ chan'[c].addr = chan[c].addr
           /\ \A x \in Chans \ {c} : chan'[x] = chan[x]
  BY DEF HostTypeOK, ChanType, Ends

(* What the device becomes when it accepts a packet. *)
LEMMA AcceptedFacts ==
    ASSUME HostTypeOK, NEW kind \in Stages
    PROVE  LET d == Accepted(kind) IN
           /\ d \in DevType /\ d.present = dev.present /\ d.enabled = dev.enabled
           /\ kind = "SETUP" => /\ d.req = ctl.req /\ d.phase = After("SETUP", ctl.req)
                                /\ d.done = dev.done /\ d.addr = dev.addr
           /\ kind \in Statuses => /\ d.req = dev.req /\ d.phase = "none"
                                   /\ d.done = dev.done \cup {dev.req}
                                   /\ d.addr = IF dev.req = "SET_ADDR" THEN 1 ELSE dev.addr
           /\ kind \in Stages \ ({"SETUP"} \cup Statuses) =>
                  /\ d.req = dev.req /\ d.phase = After(kind, dev.req)
                  /\ d.done = dev.done /\ d.addr = dev.addr
  <1>1. dev \in DevType /\ ctl.req \in Requests
    BY DEF HostTypeOK, CtlType
  <1>2. After("SETUP", ctl.req) \in Stages /\ After(kind, dev.req) \in Stages
    BY DEF After, Stages, Statuses
  <1>3. CASE kind = "SETUP"
    <2>1. Accepted(kind) = [dev EXCEPT !.phase = After("SETUP", ctl.req), !.req = ctl.req]
      BY <1>3 DEF Accepted, Statuses
    <2>2. QED
      BY <1>1, <1>2, <1>3, <2>1 DEF DevType, Statuses
  <1>4. CASE kind \in Statuses
    <2>1. Accepted(kind) = [dev EXCEPT !.phase = "none", !.done = @ \cup {dev.req},
                                       !.addr = IF dev.req = "SET_ADDR" THEN 1 ELSE @]
      BY <1>4 DEF Accepted, Statuses
    <2>2. dev.done \cup {dev.req} \in SUBSET Requests
      BY <1>1 DEF DevType
    <2>3. QED
      BY <1>1, <1>4, <2>1, <2>2 DEF DevType, Statuses
  <1>5. CASE kind \in Stages \ ({"SETUP"} \cup Statuses)
    <2>1. Accepted(kind) = [dev EXCEPT !.phase = After(kind, dev.req)]
      BY <1>5 DEF Accepted
    <2>2. QED
      BY <1>1, <1>2, <1>5, <2>1 DEF DevType
  <1>6. QED
    BY <1>3, <1>4, <1>5

(* Types. *)
LEMMA TypeKept ==
    ASSUME UsbHostAssumption, HostTypeOK, PlaceInv, Actors, UNCHANGED setup
    PROVE  HostTypeOK'
  <1>1. CASE Idle
    <2>1. host' \in HostType
      BY <1>1 DEF Idle, HostTypeOK, HostType
    <2>2. QED
      BY <1>1, <2>1 DEF Idle, HostTypeOK
  <1>2. CASE AttachedReset
    <2>1. dev' \in DevType
      BY <1>2 DEF AttachedReset, HostTypeOK, DevType, Fresh
    <2>2. irq' \in IrqType
      BY <1>2 DEF AttachedReset, HostTypeOK, IrqType
    <2>3. QED
      BY <1>2, <2>1, <2>2 DEF AttachedReset, HostTypeOK
  <1>3. CASE AttachedOpen
    <2>1. chan' \in [Chans -> ChanType]
      BY <1>3 DEF AttachedOpen, HostTypeOK, ChanType, OpenAt, ClosedChan, Stages
    <2>2. host' \in HostType
      BY <1>3 DEF AttachedOpen, HostTypeOK, HostType
    <2>3. ctl' \in CtlType
      BY <1>3 DEF AttachedOpen, HostTypeOK, CtlType, EnumStates, EnumNext
    <2>4. QED
      BY <1>3, <2>1, <2>2, <2>3 DEF AttachedOpen, HostTypeOK
  <1>4. CASE Detached
    <2>1. host' \in HostType
      BY <1>4 DEF Detached, HostTypeOK, HostType
    <2>2. ctl' \in CtlType
      <3>1. "ENUM_IDLE" \in EnumStates /\ "SETUP" \in Stages
        BY DEF EnumStates, EnumNext, Stages
      <3>2. ClassDeInit(ctl) \in CtlType
        <4>1. 0 \in 0..USBH_MSC_SATLL_RETRY_CNT /\ FirstClassReq[Class] \in ClassStates
          BY ClassIs DEF USBH_MSC_SATLL_RETRY_CNT
        <4>2. QED
          BY <4>1 DEF ClassDeInit, HostTypeOK, CtlType
      <3>3. QED
        BY <1>4, <3>1, <3>2 DEF Detached, CoreReset, CtlType
    <2>3. pipe' \in [Chans -> PipeType]
      BY <1>4 DEF Detached, HostTypeOK, PipeType, FreePipe
    <2>4. chan' \in [Chans -> ChanType]
      BY <1>4 DEF Detached, HostTypeOK, ChanType, OpenAt, ClosedChan, Stages
    <2>5. irq' \in IrqType
      BY <1>4 DEF Detached, HostTypeOK, IrqType
    <2>6. dev' \in DevType
      BY <1>4 DEF Detached, HostTypeOK, DevType, Fresh
    <2>7. QED
      BY <1>4, <2>1, <2>2, <2>3, <2>4, <2>5, <2>6 DEF Detached, HostTypeOK
  <1>5. CASE StartRequest
    <2>1. ctl' \in CtlType
      BY <1>5 DEF StartRequest, HostTypeOK, CtlType, Requesting, Stages
    <2>2. QED
      BY <1>5, <2>1 DEF StartRequest, HostTypeOK
  <1>6. CASE StartStage
    <2>1. chan' \in [Chans -> ChanType]
      BY <1>6, ZenonT(30) DEF StartStage, HostTypeOK, ChanType, CtlType
    <2>2. ctl' \in CtlType
      BY <1>6 DEF StartStage, HostTypeOK, CtlType
    <2>3. QED
      BY <1>6, <2>1, <2>2 DEF StartStage, HostTypeOK
  <1>7. CASE ArmStage
    <2>1. pipe' \in [Chans -> PipeType]
      BY <1>7 DEF ArmStage, HostTypeOK, PipeType, ClearUrb
    <2>2. ctl' \in CtlType
      BY <1>7 DEF ArmStage, HostTypeOK, CtlType, PlaceInv
    <2>3. QED
      BY <1>7, <2>1, <2>2 DEF ArmStage, HostTypeOK
  <1>8. CASE WaitStage
    <2>1. ctl' \in CtlType
      BY <1>8, WaitedFacts DEF WaitStage, HostTypeOK, CtlType
    <2>2. QED
      BY <1>8, <2>1 DEF WaitStage, HostTypeOK
  <1>9. CASE Failed
    <2>1. host' \in HostType
      BY <1>9 DEF Failed, HostTypeOK, HostType
    <2>2. ctl' \in CtlType
      <3>1. Waited \in CtlType /\ Waited.stall = ctl.stall
        BY <1>9, WaitedFacts DEF Failed
      <3>2. 0 \in 0..USBH_MSC_SATLL_RETRY_CNT /\ "CTRL_ERROR" \in ClassStates
        BY DEF USBH_MSC_SATLL_RETRY_CNT, ClassStates
      <3>3. ~GivesUp => Waited.stall + 1 \in 0..USBH_MSC_SATLL_RETRY_CNT
        BY <3>1 DEF GivesUp, USBH_MSC_SATLL_RETRY_CNT, CtlType
      <3>4. QED
        <4>1. \/ ctl' = [Waited EXCEPT !.xfer = "START", !.stall = 0, !.reset = FALSE]
              \/ /\ ~GivesUp /\ ctl.class \in {"BOT_RESET", "GET_MAX_LUN"}
                 /\ ctl' = [Waited EXCEPT !.xfer = "START", !.stall = @ + 1,
                                          !.back = ctl.class, !.class = "CTRL_ERROR"]
              \/ ctl' = [Waited EXCEPT !.xfer = "START"]
          BY <1>9 DEF Failed
        <4>2. QED
          BY <3>1, <3>2, <3>3, <4>1, ZenonT(30) DEF CtlType
    <2>3. QED
      BY <1>9, <2>1, <2>2 DEF Failed, HostTypeOK
  <1>10. CASE EnumSkip
    <2>1. ctl' \in CtlType
      <3>1. ctl.enum \in DOMAIN EnumNext
        BY <1>10 DEF EnumSkip, Skipped, Stage, In, EnumNext, PolledState
      <3>2. EnumNext[ctl.enum] \in EnumStates
        BY <3>1 DEF EnumNext, EnumStates
      <3>3. QED
        BY <1>10, <3>2 DEF EnumSkip, HostTypeOK, CtlType
    <2>2. QED
      BY <1>10, <2>1 DEF EnumSkip, HostTypeOK
  <1>11. CASE EnumCompleted
    <2>1. ctl' \in CtlType
      <3>1. Waited \in CtlType /\ Waited.enum = ctl.enum
        BY <1>11, WaitedFacts DEF EnumCompleted
      <3>2. ctl.enum \in DOMAIN EnumNext
        BY <1>11 DEF EnumCompleted, PlaceInv, Configured, HostTypeOK, CtlType, EnumStates
      <3>3. EnumNext[ctl.enum] \in EnumStates
        BY <3>2 DEF EnumNext, EnumStates
      <3>4. QED
        BY <1>11, <3>1, <3>3 DEF EnumCompleted, CtlType
    <2>2. chan' \in [Chans -> ChanType]
      <3>1. ctl.addr \in {0, 1} /\ chan \in [Chans -> ChanType]
        BY DEF HostTypeOK, CtlType
      <3>2. OpenAt(ctl.addr) \in [Chans -> ChanType]
        BY <3>1 DEF OpenAt, ClosedChan, ChanType, Stages
      <3>3. [c \in Chans |-> [chan[c] EXCEPT !.addr = 1]] \in [Chans -> ChanType]
        BY <3>1 DEF ChanType
      <3>4. QED
        BY <1>11, <3>1, <3>2, <3>3 DEF EnumCompleted
    <2>3. host' \in HostType
      BY <1>11 DEF EnumCompleted, HostTypeOK, HostType
    <2>4. QED
      BY <1>11, <2>1, <2>2, <2>3 DEF EnumCompleted, HostTypeOK
  <1>12. CASE UserInput
    <2>1. host' \in HostType
      BY <1>12 DEF UserInput, HostTypeOK, HostType
    <2>2. ctl' \in CtlType
      <3>1. 0 \in 0..USBH_MSC_SATLL_RETRY_CNT
        BY DEF USBH_MSC_SATLL_RETRY_CNT
      <3>2. QED
        BY <1>12, <3>1 DEF UserInput, HostTypeOK, CtlType
    <2>3. QED
      BY <1>12, <2>1, <2>2 DEF UserInput, HostTypeOK
  <1>13. CASE ClassSkip
    <2>1. ctl' \in CtlType
      BY <1>13 DEF ClassSkip, HostTypeOK, CtlType, ClassStates, ClassNext
    <2>2. host' \in HostType
      BY <1>13 DEF ClassSkip, HostTypeOK, HostType
    <2>3. QED
      BY <1>13, <2>1, <2>2 DEF ClassSkip, HostTypeOK
  <1>14. CASE ClassCompleted
    <2>1. ctl' \in CtlType
      <3>1. Waited \in CtlType /\ 0 \in 0..USBH_MSC_SATLL_RETRY_CNT
        BY <1>14, WaitedFacts DEF ClassCompleted, USBH_MSC_SATLL_RETRY_CNT
      <3>2. QED
        BY <1>14, <3>1 DEF ClassCompleted, CtlType
    <2>2. host' \in HostType
      BY <1>14 DEF ClassCompleted, HostTypeOK, HostType
    <2>3. QED
      BY <1>14, <2>1, <2>2 DEF ClassCompleted, HostTypeOK
  <1>15. CASE ClassNextRequest
    <2>1. ctl' \in CtlType
      <3>1. ctl.class # "CTRL_ERROR" => ClassNext[ctl.class] \in ClassStates
        BY <1>15 DEF ClassNextRequest, PlaceInv, ClassNext, ClassStates, Requests, Reads, Writes,
                    NoData, HostTypeOK, CtlType
      <3>2. ctl.back \in ClassStates
        BY DEF HostTypeOK, CtlType, ClassStates, ClassNext
      <3>3. QED
        BY <1>15, <3>1, <3>2 DEF ClassNextRequest, HostTypeOK, CtlType
    <2>2. host' \in HostType
      BY <1>15 DEF ClassNextRequest, HostTypeOK, HostType
    <2>3. QED
      BY <1>15, <2>1, <2>2 DEF ClassNextRequest, HostTypeOK
  <1>16. CASE ResetBot
    <2>1. host' \in HostType
      BY <1>16 DEF ResetBot, HostTypeOK, HostType
    <2>2. ctl' \in CtlType
      BY <1>16 DEF ResetBot, HostTypeOK, CtlType, ClassStates, ClassNext
    <2>3. QED
      BY <1>16, <2>1, <2>2 DEF ResetBot, HostTypeOK
  <1>17. CASE PortIsr
    <2>1. host' \in HostType
      BY <1>17 DEF PortIsr, HostTypeOK, HostType, DevType
    <2>2. irq' \in IrqType
      BY <1>17 DEF PortIsr, HostTypeOK, IrqType, DevType
    <2>3. QED
      BY <1>17, <2>1, <2>2 DEF PortIsr, HostTypeOK
  <1>18. ASSUME NEW c \in Chans, ChannelEventIsr(c) PROVE HostTypeOK'
    <2>1. pipe' \in [Chans -> PipeType]
      BY <1>18 DEF ChannelEventIsr, HostTypeOK, PipeType, PipeState, ChanType
    <2>2. chan' \in [Chans -> ChanType]
      BY <1>18, ZenonT(30) DEF ChannelEventIsr, HostTypeOK, ChanType
    <2>3. QED
      BY <1>18, <2>1, <2>2 DEF ChannelEventIsr, HostTypeOK
  <1>19. ASSUME NEW c \in Chans, ChannelHaltedIsr(c) PROVE HostTypeOK'
    <2>1. pipe' \in [Chans -> PipeType]
      BY <1>19 DEF ChannelHaltedIsr, HostTypeOK, PipeType, UrbOf
    <2>2. chan' \in [Chans -> ChanType]
      BY <1>19 DEF ChannelHaltedIsr, HostTypeOK, ChanType
    <2>3. QED
      BY <1>19, <2>1, <2>2 DEF ChannelHaltedIsr, HostTypeOK
  <1>20. ASSUME NEW c \in Chans, Answer(c) PROVE HostTypeOK'
    <2>1. chan' \in [Chans -> ChanType]
      BY <1>20, EndsFacts DEF Answer
    <2>2. dev' \in DevType
      <3>1. chan[c].kind \in Stages /\ "none" \in Stages \cup {"none"}
        BY DEF HostTypeOK, ChanType
      <3>2. Accepted(chan[c].kind) \in DevType
        BY <3>1, AcceptedFacts
      <3>3. QED
        BY <1>20, <3>1, <3>2 DEF Answer, HostTypeOK, DevType
    <2>3. QED
      BY <1>20, <2>1, <2>2 DEF Answer, HostTypeOK, Ends
  <1>21. ASSUME NEW c \in Chans, NoAnswer(c) PROVE HostTypeOK'
    <2>1. chan' \in [Chans -> ChanType]
      BY <1>21, EndsFacts DEF NoAnswer
    <2>2. QED
      BY <1>21, <2>1 DEF NoAnswer, HostTypeOK, Ends
  <1>22. ASSUME NEW c \in Chans, Fault(c) PROVE HostTypeOK'
    <2>1. chan' \in [Chans -> ChanType]
      BY <1>22, EndsFacts DEF Fault
    <2>2. dev' \in DevType
      <3>1. chan[c].kind \in Stages /\ "none" \in Stages \cup {"none"}
        BY DEF HostTypeOK, ChanType
      <3>2. Accepted(chan[c].kind) \in DevType
        BY <3>1, AcceptedFacts
      <3>3. QED
        BY <1>22, <3>1, <3>2 DEF Fault, HostTypeOK, DevType
    <2>3. left' \in LeftType
      <3>1. left.faults > 0 => left.faults - 1 \in 0..MaxFaults
        BY DEF HostTypeOK, LeftType, UsbHostAssumption
      <3>2. QED
        BY <1>22, <3>1 DEF Fault, HostTypeOK, LeftType
    <2>4. QED
      BY <1>22, <2>1, <2>2, <2>3 DEF Fault, HostTypeOK, Ends
  <1>23. CASE Plug
    <2>1. dev' \in DevType
      BY <1>23 DEF Plug, HostTypeOK, DevType, Fresh
    <2>2. irq' \in IrqType
      BY <1>23 DEF Plug, HostTypeOK, IrqType
    <2>3. left' \in LeftType
      <3>1. left.plugs > 0 => left.plugs - 1 \in 0..MaxPlugs
        BY DEF HostTypeOK, LeftType, UsbHostAssumption
      <3>2. QED
        BY <1>23, <3>1 DEF Plug, HostTypeOK, LeftType
    <2>4. QED
      BY <1>23, <2>1, <2>2, <2>3 DEF Plug, HostTypeOK
  <1>24. CASE Unplug
    <2>1. dev' \in DevType
      BY <1>24 DEF Unplug, HostTypeOK, DevType, Fresh
    <2>2. irq' \in IrqType
      BY <1>24 DEF Unplug, HostTypeOK, IrqType
    <2>3. QED
      BY <1>24, <2>1, <2>2 DEF Unplug, HostTypeOK
  <1>25. QED
    BY <1>1, <1>2, <1>3, <1>4, <1>5, <1>6, <1>7, <1>8, <1>9, <1>10, <1>11, <1>12, <1>13, <1>14,
           <1>15, <1>16, <1>17, <1>18, <1>19, <1>20, <1>21, <1>22, <1>23, <1>24, Zenon DEF Actors, Main,
           Isr, Bus

(* The port. *)
LEMMA PortKept ==
    ASSUME HostTypeOK, PlaceInv, PortInv, Actors, UNCHANGED setup
    PROVE  PortInv'
  <1>1. CASE Idle
    BY <1>1 DEF Idle, In, PolledState, HostTypeOK, HostType, IrqType, DevType, PortInv, PlaceInv,
           BeforeReset, Bound, SameDevice
  <1>2. CASE AttachedReset
    BY <1>2 DEF AttachedReset, In, PolledState, Fresh, HostTypeOK, HostType, IrqType, DevType,
           PortInv, PlaceInv, BeforeReset, Bound, SameDevice
  <1>3. CASE AttachedOpen
    BY <1>3 DEF AttachedOpen, HostTypeOK, HostType, IrqType, DevType, PortInv, PlaceInv,
           BeforeReset, Bound, SameDevice
  <1>4. CASE Detached
    BY <1>4 DEF Detached, In, PolledState, Fresh, HostTypeOK, HostType, IrqType, DevType, PortInv,
           PlaceInv, BeforeReset, Bound, SameDevice
  <1>5. CASE StartRequest
    BY <1>5 DEF StartRequest, Waiting, Requesting, In, PolledState, HostTypeOK, HostType, IrqType,
           DevType, PortInv, PlaceInv, BeforeReset, Bound, SameDevice
  <1>6. CASE StartStage
    BY <1>6 DEF StartStage, Waiting, Requesting, In, PolledState, HostTypeOK, HostType, IrqType,
           DevType, PortInv, PlaceInv, BeforeReset, Bound, SameDevice
  <1>7. CASE ArmStage
    BY <1>7 DEF ArmStage, HostTypeOK, HostType, IrqType, DevType, PortInv, PlaceInv, BeforeReset,
           Bound, SameDevice
  <1>8. CASE WaitStage
    BY <1>8 DEF WaitStage, Waiting, Requesting, In, PolledState, HostTypeOK, HostType, IrqType,
           DevType, PortInv, PlaceInv, BeforeReset, Bound, SameDevice
  <1>9. CASE Failed
    BY <1>9 DEF Failed, Waiting, Requesting, In, PolledState, HostTypeOK, HostType, IrqType,
           DevType, PortInv, PlaceInv, BeforeReset, Bound, SameDevice
  <1>10. CASE EnumSkip
    BY <1>10 DEF EnumSkip, Waiting, Requesting, In, PolledState, HostTypeOK, HostType, IrqType,
           DevType, PortInv, PlaceInv, BeforeReset, Bound, SameDevice
  <1>11. CASE EnumCompleted
    BY <1>11 DEF EnumCompleted, Waiting, Requesting, In, PolledState, HostTypeOK, HostType,
           IrqType, DevType, PortInv, PlaceInv, BeforeReset, Bound, SameDevice
  <1>12. CASE UserInput
    BY <1>12 DEF UserInput, In, PolledState, HostTypeOK, HostType, IrqType, DevType, PortInv,
           PlaceInv, BeforeReset, Bound, SameDevice
  <1>13. CASE ClassSkip
    BY <1>13 DEF ClassSkip, Waiting, Requesting, In, PolledState, HostTypeOK, HostType, IrqType,
           DevType, PortInv, PlaceInv, BeforeReset, Bound, SameDevice
  <1>14. CASE ClassCompleted
    BY <1>14 DEF ClassCompleted, Waiting, Requesting, In, PolledState, HostTypeOK, HostType,
           IrqType, DevType, PortInv, PlaceInv, BeforeReset, Bound, SameDevice
  <1>15. CASE ClassNextRequest
    BY <1>15 DEF ClassNextRequest, ClassNext, In, PolledState, HostTypeOK, HostType, IrqType,
           DevType, PortInv, PlaceInv, BeforeReset, Bound, SameDevice
  <1>16. CASE ResetBot
    BY <1>16 DEF ResetBot, In, PolledState, HostTypeOK, HostType, IrqType, DevType, PortInv,
           PlaceInv, BeforeReset, Bound, SameDevice
  <1>17. CASE PortIsr
    BY <1>17 DEF PortIsr, Unmasked, HostTypeOK, HostType, IrqType, DevType, PortInv, PlaceInv,
           BeforeReset, Bound, SameDevice
  <1>18. ASSUME NEW c \in Chans, ChannelEventIsr(c) PROVE PortInv'
    BY <1>18 DEF ChannelEventIsr, HostTypeOK, HostType, IrqType, DevType, PortInv, PlaceInv,
           BeforeReset, Bound, SameDevice
  <1>19. ASSUME NEW c \in Chans, ChannelHaltedIsr(c) PROVE PortInv'
    BY <1>19 DEF ChannelHaltedIsr, HostTypeOK, HostType, IrqType, DevType, PortInv, PlaceInv,
           BeforeReset, Bound, SameDevice
  <1>20. ASSUME NEW c \in Chans, Answer(c) PROVE PortInv'
    <2>1. chan[c].kind \in Stages
      BY DEF HostTypeOK, ChanType
    <2>2. dev'.present = dev.present /\ dev'.enabled = dev.enabled
      BY <1>20, <2>1, AcceptedFacts DEF Answer, HostTypeOK, DevType
    <2>3. UNCHANGED <<host, irq, pc>>
      BY <1>20 DEF Answer
    <2>4. QED
      BY <2>2, <2>3
         DEF HostTypeOK, HostType, IrqType, DevType, PortInv, BeforeReset, Bound, SameDevice
  <1>21. ASSUME NEW c \in Chans, NoAnswer(c) PROVE PortInv'
    BY <1>21 DEF NoAnswer, HostTypeOK, HostType, IrqType, DevType, PortInv, PlaceInv, BeforeReset,
           Bound, SameDevice
  <1>22. ASSUME NEW c \in Chans, Fault(c) PROVE PortInv'
    <2>1. chan[c].kind \in Stages
      BY DEF HostTypeOK, ChanType
    <2>2. dev'.present = dev.present /\ dev'.enabled = dev.enabled
      BY <1>22, <2>1, AcceptedFacts DEF Fault, HostTypeOK, DevType
    <2>3. UNCHANGED <<host, irq, pc>>
      BY <1>22 DEF Fault
    <2>4. QED
      BY <2>2, <2>3
         DEF HostTypeOK, HostType, IrqType, DevType, PortInv, BeforeReset, Bound, SameDevice
  <1>23. CASE Plug
    BY <1>23 DEF Plug, Fresh, HostTypeOK, HostType, IrqType, DevType, PortInv, PlaceInv,
           BeforeReset, Bound, SameDevice
  <1>24. CASE Unplug
    BY <1>24 DEF Unplug, Fresh, BetweenTransfers, HostTypeOK, HostType, IrqType, DevType, PortInv,
           PlaceInv, BeforeReset, Bound, SameDevice
  <1>25. QED
    BY <1>1, <1>2, <1>3, <1>4, <1>5, <1>6, <1>7, <1>8, <1>9, <1>10, <1>11, <1>12, <1>13, <1>14,
           <1>15, <1>16, <1>17, <1>18, <1>19, <1>20, <1>21, <1>22, <1>23, <1>24, Zenon DEF Actors, Main,
           Isr, Bus

(* No step makes the host overlook a cable pulled between transfers. *)
LEMMA UnplugKept ==
    ASSUME HostTypeOK, PlaceInv, PortInv, UnplugInv, Actors, UNCHANGED setup
    PROVE  UnplugInv'
  <1>1. CASE Idle
    BY <1>1 DEF Idle, In, PolledState, HostTypeOK, HostType, IrqType, DevType, PortInv, PlaceInv,
           BeforeReset, UnplugInv, AnyUnplug, Pending, Unmasked
  <1>2. CASE AttachedReset
    BY <1>2 DEF AttachedReset, In, PolledState, Fresh, HostTypeOK, HostType, IrqType, DevType,
           PortInv, PlaceInv, BeforeReset, UnplugInv, AnyUnplug, Pending, Unmasked
  <1>3. CASE AttachedOpen
    BY <1>3 DEF AttachedOpen, HostTypeOK, HostType, IrqType, DevType, PortInv, PlaceInv,
           BeforeReset, UnplugInv, AnyUnplug, Pending, Unmasked
  <1>4. CASE Detached
    BY <1>4 DEF Detached, In, PolledState, Fresh, HostTypeOK, HostType, IrqType, DevType, PortInv,
           PlaceInv, BeforeReset, UnplugInv, AnyUnplug, Pending, Unmasked
  <1>5. CASE StartRequest
    BY <1>5 DEF StartRequest, Waiting, Requesting, In, PolledState, HostTypeOK, HostType, IrqType,
           DevType, PortInv, PlaceInv, BeforeReset, UnplugInv, AnyUnplug, Pending, Unmasked
  <1>6. CASE StartStage
    BY <1>6 DEF StartStage, Waiting, Requesting, In, PolledState, HostTypeOK, HostType, IrqType,
           DevType, PortInv, PlaceInv, BeforeReset, UnplugInv, AnyUnplug, Pending, Unmasked
  <1>7. CASE ArmStage
    BY <1>7 DEF ArmStage, HostTypeOK, HostType, IrqType, DevType, PortInv, PlaceInv, BeforeReset,
           UnplugInv, AnyUnplug, Pending, Unmasked
  <1>8. CASE WaitStage
    BY <1>8 DEF WaitStage, Waiting, Requesting, In, PolledState, HostTypeOK, HostType, IrqType,
           DevType, PortInv, PlaceInv, BeforeReset, UnplugInv, AnyUnplug, Pending, Unmasked
  <1>9. CASE Failed
    BY <1>9 DEF Failed, Waiting, Requesting, In, PolledState, HostTypeOK, HostType, IrqType,
           DevType, PortInv, PlaceInv, BeforeReset, UnplugInv, AnyUnplug, Pending, Unmasked
  <1>10. CASE EnumSkip
    BY <1>10 DEF EnumSkip, Waiting, Requesting, In, PolledState, HostTypeOK, HostType, IrqType,
           DevType, PortInv, PlaceInv, BeforeReset, UnplugInv, AnyUnplug, Pending, Unmasked
  <1>11. CASE EnumCompleted
    BY <1>11 DEF EnumCompleted, Waiting, Requesting, In, PolledState, HostTypeOK, HostType,
           IrqType, DevType, PortInv, PlaceInv, BeforeReset, UnplugInv, AnyUnplug, Pending,
           Unmasked
  <1>12. CASE UserInput
    BY <1>12 DEF UserInput, In, PolledState, HostTypeOK, HostType, IrqType, DevType, PortInv,
           PlaceInv, BeforeReset, UnplugInv, AnyUnplug, Pending, Unmasked
  <1>13. CASE ClassSkip
    BY <1>13 DEF ClassSkip, Waiting, Requesting, In, PolledState, HostTypeOK, HostType, IrqType,
           DevType, PortInv, PlaceInv, BeforeReset, UnplugInv, AnyUnplug, Pending, Unmasked
  <1>14. CASE ClassCompleted
    BY <1>14 DEF ClassCompleted, Waiting, Requesting, In, PolledState, HostTypeOK, HostType,
           IrqType, DevType, PortInv, PlaceInv, BeforeReset, UnplugInv, AnyUnplug, Pending,
           Unmasked
  <1>15. CASE ClassNextRequest
    BY <1>15 DEF ClassNextRequest, ClassNext, In, PolledState, HostTypeOK, HostType, IrqType,
           DevType, PortInv, PlaceInv, BeforeReset, UnplugInv, AnyUnplug, Pending, Unmasked
  <1>16. CASE ResetBot
    BY <1>16 DEF ResetBot, In, PolledState, HostTypeOK, HostType, IrqType, DevType, PortInv,
           PlaceInv, BeforeReset, UnplugInv, AnyUnplug, Pending, Unmasked
  <1>17. CASE PortIsr
    BY <1>17 DEF PortIsr, Unmasked, HostTypeOK, HostType, IrqType, DevType, PortInv, PlaceInv,
           BeforeReset, UnplugInv, AnyUnplug, Pending
  <1>18. ASSUME NEW c \in Chans, ChannelEventIsr(c) PROVE UnplugInv'
    BY <1>18 DEF ChannelEventIsr, HostTypeOK, HostType, IrqType, DevType, PortInv, PlaceInv,
           BeforeReset, UnplugInv, AnyUnplug, Pending, Unmasked
  <1>19. ASSUME NEW c \in Chans, ChannelHaltedIsr(c) PROVE UnplugInv'
    BY <1>19 DEF ChannelHaltedIsr, HostTypeOK, HostType, IrqType, DevType, PortInv, PlaceInv,
           BeforeReset, UnplugInv, AnyUnplug, Pending, Unmasked
  <1>20. ASSUME NEW c \in Chans, Answer(c) PROVE UnplugInv'
    <2>1. chan[c].kind \in Stages
      BY DEF HostTypeOK, ChanType
    <2>2. dev'.present = dev.present /\ dev'.enabled = dev.enabled
      BY <1>20, <2>1, AcceptedFacts DEF Answer, HostTypeOK, DevType
    <2>3. UNCHANGED <<host, irq, pc>>
      BY <1>20 DEF Answer
    <2>4. QED
      BY <2>2, <2>3 DEF HostTypeOK, HostType, IrqType, DevType, UnplugInv, AnyUnplug
  <1>21. ASSUME NEW c \in Chans, NoAnswer(c) PROVE UnplugInv'
    BY <1>21 DEF NoAnswer, HostTypeOK, HostType, IrqType, DevType, PortInv, PlaceInv, BeforeReset,
           UnplugInv, AnyUnplug, Pending, Unmasked
  <1>22. ASSUME NEW c \in Chans, Fault(c) PROVE UnplugInv'
    <2>1. chan[c].kind \in Stages
      BY DEF HostTypeOK, ChanType
    <2>2. dev'.present = dev.present /\ dev'.enabled = dev.enabled
      BY <1>22, <2>1, AcceptedFacts DEF Fault, HostTypeOK, DevType
    <2>3. UNCHANGED <<host, irq, pc>>
      BY <1>22 DEF Fault
    <2>4. QED
      BY <2>2, <2>3 DEF HostTypeOK, HostType, IrqType, DevType, UnplugInv, AnyUnplug
  <1>23. CASE Plug
    BY <1>23 DEF Plug, Fresh, HostTypeOK, HostType, IrqType, DevType, PortInv, PlaceInv,
           BeforeReset, UnplugInv, AnyUnplug, Pending, Unmasked
  <1>24. CASE Unplug
    BY <1>24 DEF Unplug, Fresh, BetweenTransfers, HostTypeOK, HostType, IrqType, DevType, PortInv,
           PlaceInv, BeforeReset, UnplugInv, AnyUnplug, Pending, Unmasked
  <1>25. QED
    BY <1>1, <1>2, <1>3, <1>4, <1>5, <1>6, <1>7, <1>8, <1>9, <1>10, <1>11, <1>12, <1>13, <1>14,
           <1>15, <1>16, <1>17, <1>18, <1>19, <1>20, <1>21, <1>22, <1>23, <1>24, Zenon DEF Actors, Main,
           Isr, Bus

(* The names of the requests of each class. *)
LEMMA ClassNames ==
    /\ DOMAIN CdcRank = {"SET_LINE_CODING", "GET_LINE_CODING", "SET_CONTROL_LINE_STATE",
                         "CDC_CONFIGURED_OK"}
    /\ DOMAIN HidRank = {"HID_IDLE", "GET_HID_DESC", "GET_REPORT_DESC", "SET_IDLE",
                         "SET_PROTOCOL"}
    /\ FirstClassReq["CDC"] = "SET_LINE_CODING" /\ FirstClassReq["HID"] = "HID_IDLE"
    /\ FirstClassReq["MSC"] = "GET_MAX_LUN"
    /\ {"HID_IDLE", "CDC_CONFIGURED_OK"} \cap Requests = {}
  BY DEF CdcRank, HidRank, FirstClassReq, Requests, Reads, Writes, NoData

(* The place in the enumeration and in the class. *)
LEMMA PlaceKept ==
    ASSUME UsbHostAssumption, CdcGentle, HostTypeOK, PortInv, UnplugInv, PlaceInv, Actors,
           UNCHANGED setup
    PROVE  PlaceInv'
  <1>1. CASE Idle
    BY <1>1 DEF Idle, In, PolledState, HostTypeOK, HostType, CtlType, PlaceInv, Stage, Skipped,
           Class, HasSerial, Configured, Addressing
  <1>2. CASE AttachedReset
    BY <1>2 DEF AttachedReset, In, PolledState, Fresh, HostTypeOK, HostType, CtlType, PlaceInv,
           Stage, Skipped, Class, HasSerial, Configured, Addressing
  <1>3. CASE AttachedOpen
    BY <1>3 DEF AttachedOpen, HostTypeOK, HostType, CtlType, PlaceInv, Stage, Skipped, Class,
           HasSerial, Configured, Addressing
  <1>4. CASE Detached
    <2>1. /\ ctl'.enum = "ENUM_IDLE" /\ ctl'.xfer = "START" /\ ctl'.addr = 0
          /\ ctl'.class = IF Class = "CDC" THEN ctl.class ELSE FirstClassReq[Class]
      BY <1>4 DEF Detached, CoreReset, ClassDeInit, HostTypeOK, CtlType
    <2>2. /\ host'.state = "IDLE" /\ pc = "poll" /\ pc' = pc
          /\ host.state # "IDLE" /\ ~host.conn /\ ~host.port
      BY <1>4 DEF Detached, In, PolledState, HostTypeOK, HostType
    <2>3. Class = "CDC" => ctl.class = FirstClassReq[Class]
      <3>1. Class = "CDC" => ~AnyUnplug
        BY DEF CdcGentle, HostTypeOK, Class, AnyUnplug
      <3>2. QED
        BY <2>2, <3>1 DEF PortInv, UnplugInv, PlaceInv
    <2>4. QED
      BY <2>1, <2>2, <2>3, ClassIs, ClassNames
         DEF PlaceInv, Stage, Skipped, Class, HasSerial, Configured, Addressing, MscReqs
  <1>5. CASE StartRequest
    <2>1. /\ ctl'.enum = ctl.enum /\ ctl'.class = ctl.class /\ ctl'.addr = ctl.addr
          /\ ctl'.cur = ctl.cur /\ ctl'.xfer = "WAITING" /\ ctl'.req = Stage /\ ctl'.ctrl = "SETUP"
      BY <1>5 DEF StartRequest, HostTypeOK, CtlType
    <2>2. host.state \in {"ENUM", "CLASS_REQ"} /\ ~Skipped /\ pc = "poll" /\ UNCHANGED <<host, pc>>
      BY <1>5 DEF StartRequest, Requesting, In, PolledState
    <2>3. "SETUP" \in Stages
      BY DEF Stages
    <2>4. QED
      BY <2>1, <2>2, <2>3
         DEF PlaceInv, Stage, Skipped, Class, HasSerial, Configured, Addressing, MscReqs
  <1>6. CASE StartStage
    BY <1>6 DEF StartStage, Waiting, Requesting, In, PolledState, HostTypeOK, HostType, CtlType,
           PlaceInv, Stage, Skipped, Class, HasSerial, Configured, Addressing
  <1>7. CASE ArmStage
    BY <1>7 DEF ArmStage, HostTypeOK, HostType, CtlType, PlaceInv, Stage, Skipped, Class,
           HasSerial, Configured, Addressing
  <1>8. CASE WaitStage
    BY <1>8, WaitedFacts DEF WaitStage, Waiting, Requesting, In, PolledState, HostTypeOK,
           HostType, CtlType, PlaceInv, Stage, Skipped, Class, HasSerial, Configured, Addressing
  <1>9. CASE Failed
    <2>1. /\ ctl'.enum = ctl.enum /\ ctl'.addr = ctl.addr /\ ctl'.xfer = "START"
          /\ \/ ctl'.class = ctl.class
             \/ ctl.class \in {"BOT_RESET", "GET_MAX_LUN"} /\ ctl'.class = "CTRL_ERROR"
      BY <1>9, WaitedFacts DEF Failed, CtlType
    <2>2. /\ host.state \in {"ENUM", "CLASS_REQ"} /\ pc = "poll" /\ pc' = pc
          /\ \/ host'.state = host.state
             \/ /\ host.state = "CLASS_REQ" /\ host'.state = "CLASS"
                /\ ctl.class \in {"BOT_RESET", "GET_MAX_LUN"}
      BY <1>9 DEF Failed, Waiting, Requesting, In, PolledState, HostTypeOK, HostType
    <2>3. QED
      BY <2>1, <2>2, ClassIs, ClassNames
         DEF PlaceInv, Stage, Skipped, Class, HasSerial, Configured, Addressing, MscReqs
  <1>10. CASE EnumSkip
    BY <1>10 DEF EnumSkip, In, PolledState, EnumNext, EnumStates, Requests, Reads, Writes, NoData,
           HostTypeOK, HostType, CtlType, PlaceInv, Stage, Skipped, Class, HasSerial, Configured,
           Addressing
  <1>11. CASE EnumCompleted
    BY <1>11, WaitedFacts DEF EnumCompleted, Waiting, Requesting, In, PolledState, EnumNext,
           EnumStates, HostTypeOK, HostType, CtlType, PlaceInv, Stage, Skipped, Class, HasSerial,
           Configured, Addressing
  <1>12. CASE UserInput
    BY <1>12 DEF UserInput, In, PolledState, HostTypeOK, HostType, CtlType, PlaceInv, Stage,
           Skipped, Class, HasSerial, Configured, Addressing
  <1>13. CASE ClassSkip
    <2>1. ctl.xfer = "START"
      BY <1>13, ClassNames DEF ClassSkip, In, PolledState, PlaceInv, Stage, HostTypeOK, CtlType
    <2>2. /\ ctl'.enum = ctl.enum /\ ctl'.addr = ctl.addr /\ ctl'.xfer = ctl.xfer
          /\ ctl'.class = IF ctl.class = "HID_IDLE" THEN "GET_HID_DESC" ELSE "SET_LINE_CODING"
      BY <1>13 DEF ClassSkip, HostTypeOK, CtlType, ClassNext
    <2>3. /\ host.state = "CLASS_REQ" /\ pc = "poll" /\ pc' = pc
          /\ host'.state = IF ctl.class = "HID_IDLE" THEN "CLASS_REQ" ELSE "CLASS"
          /\ ctl.class \in {"HID_IDLE", "CDC_CONFIGURED_OK"}
      BY <1>13 DEF ClassSkip, In, PolledState, HostTypeOK, HostType
    <2>4. QED
      BY <2>1, <2>2, <2>3, ClassIs, ClassNames
         DEF PlaceInv, Stage, Skipped, Class, HasSerial, Configured, Addressing, MscReqs
  <1>14. CASE ClassCompleted
    <2>1. /\ ctl'.enum = ctl.enum /\ ctl'.addr = ctl.addr /\ ctl'.class = ctl.class
          /\ ctl'.xfer = IF ctl.class = "GET_MAX_LUN" THEN "START" ELSE "OK"
      BY <1>14, WaitedFacts DEF ClassCompleted, CtlType
    <2>2. /\ host.state = "CLASS_REQ" /\ pc = "poll" /\ pc' = pc /\ ctl.class \in Requests
          /\ host'.state = IF ctl.class = "GET_MAX_LUN" THEN "CLASS" ELSE "CLASS_REQ"
      BY <1>14 DEF ClassCompleted, Waiting, Requesting, Stage, In, PolledState, HostTypeOK, HostType
    <2>3. QED
      BY <2>1, <2>2, ClassIs, ClassNames
         DEF PlaceInv, Stage, Skipped, Class, HasSerial, Configured, Addressing, MscReqs
  <1>15. CASE ClassNextRequest
    <2>1. /\ ctl'.enum = ctl.enum /\ ctl'.addr = ctl.addr /\ ctl'.xfer = "START"
          /\ ctl'.class = IF ctl.class = "CTRL_ERROR" THEN ctl.back ELSE ClassNext[ctl.class]
      BY <1>15 DEF ClassNextRequest, HostTypeOK, CtlType
    <2>2. /\ host.state = "CLASS_REQ" /\ pc = "poll" /\ pc' = pc
          /\ host'.state = IF ctl.class = "SET_PROTOCOL" THEN "CLASS" ELSE "CLASS_REQ"
          /\ ctl.class \in Requests \ {"GET_MAX_LUN"} /\ ctl.back \in {"BOT_RESET", "GET_MAX_LUN"}
      BY <1>15 DEF ClassNextRequest, In, PolledState, HostTypeOK, HostType, CtlType, PlaceInv
    <2>3. /\ Class = "CDC" => ctl'.class \in DOMAIN CdcRank
          /\ Class = "HID" => ctl'.class \in DOMAIN HidRank
          /\ Class = "MSC" => ctl'.class \in MscReqs
          /\ ctl.class = "SET_PROTOCOL" => Class = "HID" /\ ctl'.class = "HID_IDLE"
      BY <2>1, <2>2, ClassIs, ClassNames DEF PlaceInv, ClassNext, MscReqs
    <2>4. QED
      BY <2>1, <2>2, <2>3, ClassNames
         DEF PlaceInv, Stage, Skipped, Class, HasSerial, Configured, Addressing, MscReqs
  <1>16. CASE ResetBot
    <2>1. /\ ctl'.enum = ctl.enum /\ ctl'.addr = ctl.addr /\ ctl'.xfer = ctl.xfer
          /\ ctl'.class = "BOT_RESET" /\ Class = "MSC"
      BY <1>16 DEF ResetBot, HostTypeOK, CtlType
    <2>2. host.state = "CLASS" /\ pc = "poll" /\ pc' = pc /\ host'.state = "CLASS_REQ"
      BY <1>16 DEF ResetBot, In, PolledState, HostTypeOK, HostType
    <2>3. QED
      BY <2>1, <2>2 DEF PlaceInv, Stage, Skipped, Class, HasSerial, Configured, Addressing, MscReqs
  <1>17. CASE PortIsr
    BY <1>17 DEF PortIsr, Unmasked, HostTypeOK, HostType, CtlType, PlaceInv, Stage, Skipped,
           Class, HasSerial, Configured, Addressing
  <1>18. ASSUME NEW c \in Chans, ChannelEventIsr(c) PROVE PlaceInv'
    BY <1>18 DEF ChannelEventIsr, HostTypeOK, HostType, CtlType, PlaceInv, Stage, Skipped, Class,
           HasSerial, Configured, Addressing
  <1>19. ASSUME NEW c \in Chans, ChannelHaltedIsr(c) PROVE PlaceInv'
    BY <1>19 DEF ChannelHaltedIsr, HostTypeOK, HostType, CtlType, PlaceInv, Stage, Skipped, Class,
           HasSerial, Configured, Addressing
  <1>20. ASSUME NEW c \in Chans, Answer(c) PROVE PlaceInv'
    BY <1>20 DEF Answer, HostTypeOK, HostType, CtlType, PlaceInv, Stage, Skipped, Class,
           HasSerial, Configured, Addressing
  <1>21. ASSUME NEW c \in Chans, NoAnswer(c) PROVE PlaceInv'
    BY <1>21 DEF NoAnswer, HostTypeOK, HostType, CtlType, PlaceInv, Stage, Skipped, Class,
           HasSerial, Configured, Addressing
  <1>22. ASSUME NEW c \in Chans, Fault(c) PROVE PlaceInv'
    BY <1>22 DEF Fault, HostTypeOK, HostType, CtlType, PlaceInv, Stage, Skipped, Class, HasSerial,
           Configured, Addressing
  <1>23. CASE Plug
    BY <1>23 DEF Plug, Fresh, HostTypeOK, HostType, CtlType, PlaceInv, Stage, Skipped, Class,
           HasSerial, Configured, Addressing
  <1>24. CASE Unplug
    BY <1>24 DEF Unplug, Fresh, BetweenTransfers, HostTypeOK, HostType, CtlType, PlaceInv, Stage,
           Skipped, Class, HasSerial, Configured, Addressing
  <1>25. QED
    BY <1>1, <1>2, <1>3, <1>4, <1>5, <1>6, <1>7, <1>8, <1>9, <1>10, <1>11, <1>12, <1>13, <1>14,
           <1>15, <1>16, <1>17, <1>18, <1>19, <1>20, <1>21, <1>22, <1>23, <1>24, Zenon DEF Actors, Main,
           Isr, Bus

(* The channels. *)
LEMMA ChanKept ==
    ASSUME HostTypeOK, PlaceInv, ChanInv, Actors, UNCHANGED setup
    PROVE  ChanInv'
  <1>1. CASE Idle
    BY <1>1 DEF Idle, In, PolledState, HostTypeOK, HostType, CtlType, PlaceInv, ChanInv, Busy
  <1>2. CASE AttachedReset
    BY <1>2 DEF AttachedReset, In, PolledState, HostTypeOK, HostType, CtlType, PlaceInv, ChanInv,
           Busy
  <1>3. CASE AttachedOpen
    BY <1>3 DEF AttachedOpen, OpenAt, ClosedChan, HostTypeOK, HostType, CtlType, PlaceInv,
           ChanInv, Busy
  <1>4. CASE Detached
    BY <1>4 DEF Detached, In, PolledState, CoreReset, ClassDeInit, FreePipe, OpenAt, ClosedChan,
           HostTypeOK, HostType, CtlType, PlaceInv, ChanInv, Busy
  <1>5. CASE StartRequest
    BY <1>5 DEF StartRequest, Requesting, In, PolledState, HostTypeOK, HostType, CtlType,
           PlaceInv, ChanInv, Busy
  <1>6. CASE StartStage
    BY <1>6 DEF StartStage, Requesting, In, PolledState, ChanType, ChanOf, Chans, HostTypeOK,
           HostType, CtlType, PlaceInv, ChanInv, Busy
  <1>7. CASE ArmStage
    BY <1>7 DEF ArmStage, ClearUrb, PipeType, ChanOf, Chans, HostTypeOK, HostType, CtlType,
           PlaceInv, ChanInv, Busy
  <1>8. CASE WaitStage
    BY <1>8, WaitedFacts DEF WaitStage, Waiting, Urb, HostTypeOK, HostType, CtlType, PlaceInv,
           ChanInv, Busy
  <1>9. CASE Failed
    <2>1. ctl'.cur = "SETUP" /\ ctl'.xfer = "START" /\ Urb # "IDLE" /\ ctl.cur = "WAIT_URB"
      BY <1>9, WaitedFacts DEF Failed, CtlType, Waiting
    <2>2. /\ host'.state \notin {"IDLE", "ATTACHED"} /\ pc = "poll"
          /\ UNCHANGED <<pipe, chan, pc>>
      BY <1>9 DEF Failed, Waiting, Requesting, In, PolledState, HostTypeOK, HostType
    <2>3. QED
      BY <2>1, <2>2 DEF ChanInv, Busy, Urb
  <1>10. CASE EnumSkip
    BY <1>10 DEF EnumSkip, In, PolledState, HostTypeOK, HostType, CtlType, PlaceInv, ChanInv, Busy
  <1>11. CASE EnumCompleted
    BY <1>11, WaitedFacts DEF EnumCompleted, Waiting, Urb, OpenAt, ClosedChan, ChanType,
           HostTypeOK, HostType, CtlType, PlaceInv, ChanInv, Busy
  <1>12. CASE UserInput
    BY <1>12 DEF UserInput, In, PolledState, HostTypeOK, HostType, CtlType, PlaceInv, ChanInv,
           Busy
  <1>13. CASE ClassSkip
    BY <1>13 DEF ClassSkip, In, PolledState, HostTypeOK, HostType, CtlType, PlaceInv, ChanInv,
           Busy
  <1>14. CASE ClassCompleted
    BY <1>14, WaitedFacts DEF ClassCompleted, Waiting, Urb, HostTypeOK, HostType, CtlType,
           PlaceInv, ChanInv, Busy
  <1>15. CASE ClassNextRequest
    BY <1>15 DEF ClassNextRequest, In, PolledState, HostTypeOK, HostType, CtlType, PlaceInv,
           ChanInv, Busy
  <1>16. CASE ResetBot
    BY <1>16 DEF ResetBot, In, PolledState, HostTypeOK, HostType, CtlType, PlaceInv, ChanInv, Busy
  <1>17. CASE PortIsr
    BY <1>17 DEF PortIsr, HostTypeOK, HostType, CtlType, PlaceInv, ChanInv, Busy
  <1>18. ASSUME NEW c \in Chans, ChannelEventIsr(c) PROVE ChanInv'
    BY <1>18 DEF ChannelEventIsr, ChanType, PipeType, PipeState, HostTypeOK, HostType, CtlType,
           PlaceInv, ChanInv, Busy
  <1>19. ASSUME NEW c \in Chans, ChannelHaltedIsr(c) PROVE ChanInv'
    BY <1>19 DEF ChannelHaltedIsr, ChanType, PipeType, UrbOf, HostTypeOK, HostType, CtlType,
           PlaceInv, ChanInv, Busy
  <1>20. ASSUME NEW c \in Chans, Answer(c) PROVE ChanInv'
    <2>1. /\ chan[c].on /\ chan[c].flag = "none" /\ ~chan'[c].on /\ chan'[c].kind = chan[c].kind
          /\ chan'[c].addr = chan[c].addr /\ \A x \in Chans \ {c} : chan'[x] = chan[x]
      BY <1>20, EndsFacts DEF Answer, Running
    <2>2. UNCHANGED <<host, ctl, pipe, pc>>
      BY <1>20 DEF Answer
    <2>3. QED
      BY <2>1, <2>2 DEF ChanInv, Busy
  <1>21. ASSUME NEW c \in Chans, NoAnswer(c) PROVE ChanInv'
    <2>1. /\ chan[c].on /\ chan[c].flag = "none" /\ ~chan'[c].on /\ chan'[c].kind = chan[c].kind
          /\ chan'[c].addr = chan[c].addr /\ \A x \in Chans \ {c} : chan'[x] = chan[x]
      BY <1>21, EndsFacts DEF NoAnswer, Running
    <2>2. UNCHANGED <<host, ctl, pipe, pc>>
      BY <1>21 DEF NoAnswer
    <2>3. QED
      BY <2>1, <2>2 DEF ChanInv, Busy
  <1>22. ASSUME NEW c \in Chans, Fault(c) PROVE ChanInv'
    <2>1. /\ chan[c].on /\ chan[c].flag = "none" /\ ~chan'[c].on /\ chan'[c].kind = chan[c].kind
          /\ chan'[c].addr = chan[c].addr /\ \A x \in Chans \ {c} : chan'[x] = chan[x]
      BY <1>22, EndsFacts DEF Fault, Running
    <2>2. UNCHANGED <<host, ctl, pipe, pc>>
      BY <1>22 DEF Fault
    <2>3. QED
      BY <2>1, <2>2 DEF ChanInv, Busy
  <1>23. CASE Plug
    BY <1>23 DEF Plug, HostTypeOK, HostType, CtlType, PlaceInv, ChanInv, Busy
  <1>24. CASE Unplug
    BY <1>24 DEF Unplug, HostTypeOK, HostType, CtlType, PlaceInv, ChanInv, Busy
  <1>25. QED
    BY <1>1, <1>2, <1>3, <1>4, <1>5, <1>6, <1>7, <1>8, <1>9, <1>10, <1>11, <1>12, <1>13, <1>14,
           <1>15, <1>16, <1>17, <1>18, <1>19, <1>20, <1>21, <1>22, <1>23, <1>24, Zenon DEF Actors, Main,
           Isr, Bus

(* The channel that runs sends the current stage, and a packet the device  *)
(* takes belongs to the host's request.                                    *)
LEMMA OneRuns ==
    ASSUME HostTypeOK, PlaceInv, ChanInv, NEW c \in Chans, Running(c)
    PROVE  /\ ctl.xfer = "WAITING" /\ chan[c].kind \in Stages /\ chan[c].kind # "WAIT_URB"
           /\ \A x \in Chans \ {c} : ~Busy(x)
           /\ \/ ctl.cur = chan[c].kind
              \/ ctl.cur = "WAIT_URB" /\ ctl.pre = chan[c].kind /\ c = ChanOf(ctl.pre) /\ Urb = "IDLE"
  BY DEF HostTypeOK, ChanType, PlaceInv, ChanInv, Running, Busy, Urb, Stages, Statuses

(* A packet the device accepts is a stage of the request of the host. *)
LEMMA PacketTaken ==
    ASSUME HostTypeOK, PlaceInv, ChanInv, DevInv, Bound, NEW c \in Chans, Running(c),
           Willing(chan[c].kind)
    PROVE  LET d == Accepted(chan[c].kind) IN
           /\ d.req = ctl.req
           /\ chan[c].kind \in Statuses => ctl.req \in d.done /\ d.phase = "none"
           /\ chan[c].kind \notin Statuses => d.phase = After(chan[c].kind, ctl.req)
  <1>1. chan[c].kind # "SETUP" => dev.phase # "none" /\ dev.phase = chan[c].kind
    BY OneRuns DEF Willing, Stages, Statuses
  <1>2. chan[c].kind # "SETUP" => dev.req = ctl.req
    BY <1>1, OneRuns DEF DevInv
  <1>3. QED
    BY <1>2, OneRuns, AcceptedFacts DEF Statuses

(* Device and host are at the same request. *)
LEMMA DevKept ==
    ASSUME HostTypeOK, PortInv, PlaceInv, ChanInv, DevInv, Actors, UNCHANGED setup
    PROVE  DevInv'
  <1>1. CASE Idle
    BY <1>1 DEF Idle, In, PolledState, HostTypeOK, HostType, CtlType, IrqType, DevType, PortInv,
           PlaceInv, ChanInv, DevInv, Bound, BeforeReset, SameDevice, CarriedOut, Acked, Urb
  <1>2. CASE AttachedReset
    <2>1. host.state = "ATTACHED" /\ dev'.phase = "none" /\ UNCHANGED <<ctl, chan, pipe>>
      BY <1>2 DEF AttachedReset, In, PolledState, Fresh, HostTypeOK, DevType
    <2>2. ctl.xfer = "START" /\ (\A x \in Chans : ~Busy(x)) /\ (\A x \in Chans : pipe[x].urb = "IDLE")
      BY <2>1 DEF PlaceInv, ChanInv
    <2>3. ~(Urb = "OK") /\ \A x \in Chans : ~Acked(x)
      BY <2>2 DEF Urb, Acked, Busy, ChanOf, Chans
    <2>4. Urb' = Urb /\ \A x \in Chans : Acked(x)' = Acked(x)
      BY <2>1 DEF Urb, Acked
    <2>5. QED
      BY <2>1, <2>2, <2>3, <2>4 DEF DevInv
  <1>3. CASE AttachedOpen
    BY <1>3 DEF AttachedOpen, OpenAt, ClosedChan, HostTypeOK, HostType, CtlType, IrqType, DevType,
           PortInv, PlaceInv, ChanInv, DevInv, Bound, BeforeReset, SameDevice, CarriedOut, Acked,
           Urb
  <1>4. CASE Detached
    BY <1>4 DEF Detached, In, PolledState, CoreReset, ClassDeInit, FreePipe, OpenAt, ClosedChan,
           HostTypeOK, HostType, CtlType, IrqType, DevType, PortInv, PlaceInv, ChanInv, DevInv,
           Bound, BeforeReset, SameDevice, CarriedOut, Acked, Urb
  <1>5. CASE StartRequest
    <2>1. /\ ctl'.cur = ctl.cur /\ ctl'.pre = ctl.pre /\ ctl'.xfer = "WAITING" /\ ctl.xfer = "START"
          /\ UNCHANGED <<host, pipe, chan, irq, dev, pc>>
      BY <1>5 DEF StartRequest, HostTypeOK, CtlType
    <2>2. Bound' = Bound /\ Urb' = Urb /\ \A x \in Chans : Acked(x)' = Acked(x)
      BY <2>1 DEF Bound, BeforeReset, SameDevice, Urb, Acked
    <2>3. (\A x \in Chans : ~Acked(x)) /\ (ctl.cur = "WAIT_URB" => Urb # "OK")
      BY <2>1 DEF ChanInv, Busy, Acked, Urb, ChanOf, Chans
    <2>4. QED
      BY <2>1, <2>2, <2>3 DEF DevInv
  <1>6. CASE StartStage
    <2>1. /\ ctl'.cur = ctl.cur /\ ctl'.pre = ctl.pre /\ ctl'.xfer = "WAITING" /\ ctl.xfer = "WAITING"
          /\ ctl'.req = ctl.req /\ ctl.cur # "WAIT_URB" /\ pc = "poll" /\ pc' = "arm"
          /\ UNCHANGED <<host, pipe, irq, dev>> /\ host.state \in {"ENUM", "CLASS_REQ"}
      BY <1>6 DEF StartStage, Requesting, In, PolledState, HostTypeOK, CtlType
    <2>2. \A x \in Chans : ~Busy(x) /\ chan'[x].flag = chan[x].flag
      BY <1>6, <2>1 DEF ChanInv, StartStage, HostTypeOK, ChanType
    <2>3. \A x \in Chans : ~Acked(x)'
      BY <2>2 DEF Acked, Busy
    <2>4. Bound' = Bound
      BY <2>1 DEF Bound, BeforeReset, SameDevice
    <2>5. QED
      BY <2>1, <2>3, <2>4 DEF DevInv
  <1>7. CASE ArmStage
    BY <1>7 DEF ArmStage, ClearUrb, PipeType, ChanOf, Chans, HostTypeOK, HostType, CtlType,
           IrqType, DevType, PortInv, PlaceInv, ChanInv, DevInv, Bound, BeforeReset, SameDevice,
           CarriedOut, Acked, Urb
  <1>8. CASE WaitStage
    BY <1>8, WaitedFacts DEF WaitStage, Waiting, Urb, HostTypeOK, HostType, CtlType, IrqType,
           DevType, PortInv, PlaceInv, ChanInv, DevInv, Bound, BeforeReset, SameDevice,
           CarriedOut, Acked
  <1>9. CASE Failed
    <2>1. /\ ctl'.cur = "SETUP" /\ ctl'.xfer = "START" /\ Urb # "IDLE" /\ ctl.cur = "WAIT_URB"
          /\ pc = "poll"
      BY <1>9, WaitedFacts DEF Failed, CtlType, Waiting, Requesting, In
    <2>2. \A x \in Chans : ~Busy(x)
      BY <2>1 DEF ChanInv, Urb
    <2>3. \A x \in Chans : ~Acked(x)'
      BY <1>9, <2>2 DEF Failed, Acked, Busy
    <2>4. QED
      BY <2>1, <2>3 DEF DevInv
  <1>10. CASE EnumSkip
    BY <1>10 DEF EnumSkip, In, PolledState, HostTypeOK, HostType, CtlType, IrqType, DevType,
           PortInv, PlaceInv, ChanInv, DevInv, Bound, BeforeReset, SameDevice, CarriedOut, Acked,
           Urb
  <1>11. CASE EnumCompleted
    BY <1>11, WaitedFacts DEF EnumCompleted, Waiting, Urb, OpenAt, ClosedChan, ChanType,
           HostTypeOK, HostType, CtlType, IrqType, DevType, PortInv, PlaceInv, ChanInv, DevInv,
           Bound, BeforeReset, SameDevice, CarriedOut, Acked
  <1>12. CASE UserInput
    BY <1>12 DEF UserInput, In, PolledState, HostTypeOK, HostType, CtlType, IrqType, DevType,
           PortInv, PlaceInv, ChanInv, DevInv, Bound, BeforeReset, SameDevice, CarriedOut, Acked,
           Urb
  <1>13. CASE ClassSkip
    <2>1. ctl.xfer = "START" /\ host.state = "CLASS_REQ"
      BY <1>13, ClassNames DEF ClassSkip, In, PolledState, PlaceInv, Stage, HostTypeOK, CtlType
    <2>2. /\ ctl'.cur = ctl.cur /\ ctl'.pre = ctl.pre /\ ctl'.xfer = ctl.xfer /\ ctl'.req = ctl.req
          /\ UNCHANGED <<pipe, chan, irq, dev, pc>> /\ host'.conn = host.conn
      BY <1>13 DEF ClassSkip, HostTypeOK, CtlType, HostType
    <2>3. Bound' => Bound
      BY <2>1, <2>2 DEF Bound, BeforeReset, SameDevice
    <2>4. QED
      BY <2>1, <2>2, <2>3 DEF DevInv, CarriedOut, Acked, Urb
  <1>14. CASE ClassCompleted
    <2>1. /\ ctl'.cur = "SETUP" /\ ctl'.xfer \in {"START", "OK"} /\ Urb = "OK"
          /\ ctl.cur = "WAIT_URB" /\ ctl.pre \in Statuses /\ pc = "poll" /\ ctl'.class = ctl.class
      BY <1>14, WaitedFacts DEF ClassCompleted, CtlType, Waiting, Requesting, In
    <2>2. \A x \in Chans : ~Busy(x)
      BY <2>1 DEF ChanInv, Urb
    <2>3. \A x \in Chans : ~Acked(x)'
      BY <1>14, <2>2 DEF ClassCompleted, Acked, Busy
    <2>4. /\ host.state = "CLASS_REQ" /\ host'.conn = host.conn /\ ctl.req = ctl.class
          /\ UNCHANGED <<irq, dev, pc>>
      BY <1>14 DEF ClassCompleted, HostTypeOK, HostType, PlaceInv, Stage, Waiting
    <2>5. Bound' => Bound
      BY <2>4 DEF Bound, BeforeReset, SameDevice
    <2>6. QED
      BY <2>1, <2>3, <2>4, <2>5 DEF DevInv, CarriedOut
  <1>15. CASE ClassNextRequest
    BY <1>15 DEF ClassNextRequest, In, PolledState, HostTypeOK, HostType, CtlType, IrqType,
           DevType, PortInv, PlaceInv, ChanInv, DevInv, Bound, BeforeReset, SameDevice,
           CarriedOut, Acked, Urb
  <1>16. CASE ResetBot
    BY <1>16 DEF ResetBot, In, PolledState, HostTypeOK, HostType, CtlType, IrqType, DevType,
           PortInv, PlaceInv, ChanInv, DevInv, Bound, BeforeReset, SameDevice, CarriedOut, Acked,
           Urb
  <1>17. CASE PortIsr
    BY <1>17, ZenonT(30) DEF PortIsr, Unmasked, HostTypeOK, HostType, CtlType, IrqType, DevType, PortInv,
           PlaceInv, ChanInv, DevInv, Bound, BeforeReset, SameDevice, CarriedOut, Acked, Urb
  <1>18. ASSUME NEW c \in Chans, ChannelEventIsr(c) PROVE DevInv'
    BY <1>18 DEF ChannelEventIsr, ChanType, PipeType, PipeState, Busy, HostTypeOK, HostType,
           CtlType, IrqType, DevType, PortInv, PlaceInv, ChanInv, DevInv, Bound, BeforeReset,
           SameDevice, CarriedOut, Acked, Urb
  <1>19. ASSUME NEW c \in Chans, ChannelHaltedIsr(c) PROVE DevInv'
    BY <1>19 DEF ChannelHaltedIsr, ChanType, PipeType, UrbOf, Busy, ChanOf, HostTypeOK, HostType,
           CtlType, IrqType, DevType, PortInv, PlaceInv, ChanInv, DevInv, Bound, BeforeReset,
           SameDevice, CarriedOut, Acked, Urb
  <1>20. ASSUME NEW c \in Chans, Answer(c) PROVE DevInv'
    <2>1. CASE ~Bound
      <3>1. ~Bound'
        BY <1>20, <2>1, AcceptedFacts, OneRuns
           DEF Answer, Bound, BeforeReset, SameDevice, HostTypeOK, DevType
      <3>2. QED
        BY <3>1 DEF DevInv
    <2>2. CASE Bound
      <3>1. /\ ctl.xfer = "WAITING" /\ \A x \in Chans \ {c} : ~Busy(x)
            /\ \/ ctl.cur = chan[c].kind /\ ctl.cur # "WAIT_URB"
               \/ ctl.cur = "WAIT_URB" /\ ctl.pre = chan[c].kind /\ Urb = "IDLE"
        BY <1>20, OneRuns DEF Answer
      <3>2. UNCHANGED <<host, ctl, pipe, pc>>
        BY <1>20 DEF Answer
      <3>3. /\ chan'[c].kind = chan[c].kind /\ chan'[c].flag \in {"done", "stall", "err", "nak"}
            /\ \A x \in Chans \ {c} : chan'[x] = chan[x]
        BY <1>20, EndsFacts DEF Answer
      <3>4. \A x \in Chans : Acked(x)' => x = c /\ chan'[c].flag = "done"
        BY <3>1, <3>2, <3>3 DEF Acked, Busy
      <3>5. /\ Running(c)
            /\ \/ /\ Willing(chan[c].kind) /\ dev' = Accepted(chan[c].kind)
               \/ dev' = [dev EXCEPT !.phase = "none"] /\ chan'[c].flag # "done"
        BY <1>20, EndsFacts DEF Answer
      <3>6. /\ dev'.phase = "none" \/ dev'.req = ctl.req \/ ctl.cur = "SETUP"
               \/ (ctl.cur = "WAIT_URB" /\ ctl.pre = "SETUP")
            /\ chan'[c].flag = "done" =>
                   /\ dev'.req = ctl.req
                   /\ IF chan[c].kind \in Statuses THEN ctl.req \in dev'.done
                      ELSE dev'.phase = After(chan[c].kind, ctl.req)
        BY <2>2, <3>1, <3>5, PacketTaken DEF DevInv, HostTypeOK, DevType
      <3>7. Urb' = Urb
        BY <3>2 DEF Urb
      <3>8. QED
        BY <3>1, <3>2, <3>3, <3>4, <3>6, <3>7 DEF DevInv, CarriedOut
    <2>3. QED
      BY <2>1, <2>2
  <1>21. ASSUME NEW c \in Chans, NoAnswer(c) PROVE DevInv'
    <2>1. CASE ~Bound
      <3>1. ~Bound'
        BY <1>21, <2>1, AcceptedFacts, OneRuns
           DEF NoAnswer, Bound, BeforeReset, SameDevice, HostTypeOK, DevType
      <3>2. QED
        BY <3>1 DEF DevInv
    <2>2. CASE Bound
      <3>1. /\ ctl.xfer = "WAITING" /\ \A x \in Chans \ {c} : ~Busy(x)
            /\ \/ ctl.cur = chan[c].kind /\ ctl.cur # "WAIT_URB"
               \/ ctl.cur = "WAIT_URB" /\ ctl.pre = chan[c].kind /\ Urb = "IDLE"
        BY <1>21, OneRuns DEF NoAnswer
      <3>2. UNCHANGED <<host, ctl, pipe, pc>>
        BY <1>21 DEF NoAnswer
      <3>3. /\ chan'[c].kind = chan[c].kind /\ chan'[c].flag \in {"done", "stall", "err", "nak"}
            /\ \A x \in Chans \ {c} : chan'[x] = chan[x]
        BY <1>21, EndsFacts DEF NoAnswer
      <3>4. \A x \in Chans : Acked(x)' => x = c /\ chan'[c].flag = "done"
        BY <3>1, <3>2, <3>3 DEF Acked, Busy
      <3>5. Running(c) /\ dev' = dev /\ chan'[c].flag # "done"
        BY <1>21, EndsFacts DEF NoAnswer
      <3>6. /\ dev'.phase = "none" \/ dev'.req = ctl.req \/ ctl.cur = "SETUP"
               \/ (ctl.cur = "WAIT_URB" /\ ctl.pre = "SETUP")
            /\ chan'[c].flag = "done" =>
                   /\ dev'.req = ctl.req
                   /\ IF chan[c].kind \in Statuses THEN ctl.req \in dev'.done
                      ELSE dev'.phase = After(chan[c].kind, ctl.req)
        BY <2>2, <3>1, <3>5, PacketTaken DEF DevInv, HostTypeOK, DevType
      <3>7. Urb' = Urb
        BY <3>2 DEF Urb
      <3>8. QED
        BY <3>1, <3>2, <3>3, <3>4, <3>6, <3>7 DEF DevInv, CarriedOut
    <2>3. QED
      BY <2>1, <2>2
  <1>22. ASSUME NEW c \in Chans, Fault(c) PROVE DevInv'
    <2>1. CASE ~Bound
      <3>1. ~Bound'
        BY <1>22, <2>1, AcceptedFacts, OneRuns
           DEF Fault, Bound, BeforeReset, SameDevice, HostTypeOK, DevType
      <3>2. QED
        BY <3>1 DEF DevInv
    <2>2. CASE Bound
      <3>1. /\ ctl.xfer = "WAITING" /\ \A x \in Chans \ {c} : ~Busy(x)
            /\ \/ ctl.cur = chan[c].kind /\ ctl.cur # "WAIT_URB"
               \/ ctl.cur = "WAIT_URB" /\ ctl.pre = chan[c].kind /\ Urb = "IDLE"
        BY <1>22, OneRuns DEF Fault
      <3>2. UNCHANGED <<host, ctl, pipe, pc>>
        BY <1>22 DEF Fault
      <3>3. /\ chan'[c].kind = chan[c].kind /\ chan'[c].flag \in {"done", "stall", "err", "nak"}
            /\ \A x \in Chans \ {c} : chan'[x] = chan[x]
        BY <1>22, EndsFacts DEF Fault
      <3>4. \A x \in Chans : Acked(x)' => x = c /\ chan'[c].flag = "done"
        BY <3>1, <3>2, <3>3 DEF Acked, Busy
      <3>5. /\ Running(c)
            /\ \/ /\ Willing(chan[c].kind) /\ dev' = Accepted(chan[c].kind)
               \/ dev' = [dev EXCEPT !.phase = "none"] /\ chan'[c].flag # "done"
               \/ dev' = dev /\ chan'[c].flag # "done"
        BY <1>22, EndsFacts DEF Fault
      <3>6. /\ dev'.phase = "none" \/ dev'.req = ctl.req \/ ctl.cur = "SETUP"
               \/ (ctl.cur = "WAIT_URB" /\ ctl.pre = "SETUP")
            /\ chan'[c].flag = "done" =>
                   /\ dev'.req = ctl.req
                   /\ IF chan[c].kind \in Statuses THEN ctl.req \in dev'.done
                      ELSE dev'.phase = After(chan[c].kind, ctl.req)
        BY <2>2, <3>1, <3>5, PacketTaken DEF DevInv, HostTypeOK, DevType
      <3>7. Urb' = Urb
        BY <3>2 DEF Urb
      <3>8. QED
        BY <3>1, <3>2, <3>3, <3>4, <3>6, <3>7 DEF DevInv, CarriedOut
    <2>3. QED
      BY <2>1, <2>2
  <1>23. CASE Plug
    BY <1>23 DEF Plug, Fresh, HostTypeOK, HostType, CtlType, IrqType, DevType, PortInv, PlaceInv,
           ChanInv, DevInv, Bound, BeforeReset, SameDevice, CarriedOut, Acked, Urb
  <1>24. CASE Unplug
    BY <1>24 DEF Unplug, Fresh, HostTypeOK, HostType, CtlType, IrqType, DevType, PortInv,
           PlaceInv, ChanInv, DevInv, Bound, BeforeReset, SameDevice, CarriedOut, Acked, Urb
  <1>25. QED
    BY <1>1, <1>2, <1>3, <1>4, <1>5, <1>6, <1>7, <1>8, <1>9, <1>10, <1>11, <1>12, <1>13, <1>14,
           <1>15, <1>16, <1>17, <1>18, <1>19, <1>20, <1>21, <1>22, <1>23, <1>24, Zenon DEF Actors, Main,
           Isr, Bus

(* The addresses. *)
LEMMA AddrKept ==
    ASSUME UsbHostAssumption, HostTypeOK, PortInv, PlaceInv, ChanInv, DevInv, AddrInv, Actors,
           UNCHANGED setup
    PROVE  AddrInv'
  <1>1. CASE Idle
    BY <1>1 DEF Idle, In, PolledState, HostTypeOK, HostType, CtlType, IrqType, DevType, PortInv,
           PlaceInv, ChanInv, Addressing, AddrInv, Bound, BeforeReset, SameDevice, Moving
  <1>2. CASE AttachedReset
    BY <1>2 DEF AttachedReset, In, PolledState, Fresh, HostTypeOK, HostType, CtlType, IrqType,
           DevType, PortInv, PlaceInv, ChanInv, Addressing, AddrInv, Bound, BeforeReset,
           SameDevice, Moving
  <1>3. CASE AttachedOpen
    BY <1>3 DEF AttachedOpen, OpenAt, ClosedChan, HostTypeOK, HostType, CtlType, IrqType, DevType,
           PortInv, PlaceInv, ChanInv, Addressing, AddrInv, Bound, BeforeReset, SameDevice, Moving
  <1>4. CASE Detached
    BY <1>4 DEF Detached, Fresh, In, PolledState, HostTypeOK, HostType, CtlType, IrqType, DevType,
           PortInv, PlaceInv, ChanInv, Addressing, AddrInv, Bound, BeforeReset, SameDevice, Moving
  <1>5. CASE StartRequest
    BY <1>5 DEF StartRequest, Requesting, In, PolledState, HostTypeOK, HostType, CtlType, IrqType,
           DevType, PortInv, PlaceInv, ChanInv, Addressing, AddrInv, Bound, BeforeReset,
           SameDevice, Moving
  <1>6. CASE StartStage
    BY <1>6 DEF StartStage, Requesting, In, ChanType, ChanOf, Chans, HostTypeOK, HostType,
           CtlType, IrqType, DevType, PortInv, PlaceInv, ChanInv, Addressing, AddrInv, Bound,
           BeforeReset, SameDevice, Moving
  <1>7. CASE ArmStage
    BY <1>7 DEF ArmStage, ClearUrb, PipeType, ChanOf, Chans, HostTypeOK, HostType, CtlType,
           IrqType, DevType, PortInv, PlaceInv, ChanInv, Addressing, AddrInv, Bound, BeforeReset,
           SameDevice, Moving
  <1>8. CASE WaitStage
    <2>1. /\ ctl'.enum = ctl.enum /\ UNCHANGED <<host, pipe, chan, irq, dev, pc>>
          /\ ctl.cur = "WAIT_URB" /\ (Urb \in {"IDLE", "OK"} => ctl.pre \notin Statuses) /\ pc = "poll"
      BY <1>8, WaitedFacts DEF WaitStage, Waiting, Requesting, In
    <2>2. ~Moving
      BY <2>1 DEF Moving, Urb, ChanOf, Statuses
    <2>3. Bound' = Bound
      BY <2>1 DEF Bound, BeforeReset, SameDevice
    <2>4. QED
      BY <2>1, <2>2, <2>3 DEF AddrInv
  <1>9. CASE Failed
    <2>1. /\ ctl'.enum = ctl.enum /\ UNCHANGED <<pipe, chan, irq, dev, pc>>
          /\ ctl.cur = "WAIT_URB" /\ Urb \notin {"IDLE", "OK"} /\ pc = "poll"
      BY <1>9, WaitedFacts DEF Failed, Waiting, Requesting, In, CtlType
    <2>2. ~Moving
      BY <2>1 DEF Moving, Urb, ChanOf
    <2>3. host.state \in {"ENUM", "CLASS_REQ"} /\ host'.conn = host.conn
      BY <1>9 DEF Failed, Waiting, Requesting, In, PolledState, HostTypeOK, HostType
    <2>4. Bound' => Bound
      BY <2>1, <2>3 DEF Bound, BeforeReset, SameDevice
    <2>5. QED
      BY <2>1, <2>2, <2>4 DEF AddrInv
  <1>10. CASE EnumSkip
    BY <1>10 DEF EnumSkip, In, PolledState, EnumNext, Skipped, Stage, HostTypeOK, HostType,
           CtlType, IrqType, DevType, PortInv, PlaceInv, ChanInv, Addressing, AddrInv, Bound,
           BeforeReset, SameDevice, Moving
  <1>11. CASE EnumCompleted
    <2>1. /\ ctl'.enum = EnumNext[ctl.enum] /\ ctl.cur = "WAIT_URB" /\ Urb = "OK"
          /\ ctl.pre \in Statuses /\ ctl.xfer = "WAITING" /\ ctl.enum \in Requests
      BY <1>11, WaitedFacts DEF EnumCompleted, Waiting, Requesting, Stage, CtlType
    <2>2. host.state = "ENUM" /\ host'.conn = host.conn /\ UNCHANGED <<irq, dev, pc>>
      BY <1>11 DEF EnumCompleted, HostTypeOK, HostType
    <2>3. Bound' => Bound
      BY <2>2 DEF Bound, BeforeReset, SameDevice
    <2>4. Bound => ctl.enum \in dev.done
      BY <2>1, <2>2 DEF DevInv, CarriedOut, PlaceInv, Stage
    <2>5. \A x \in Chans : chan'[x].addr = IF ctl.enum \in {"GET_DEV_DESC", "SET_ADDR"}
                                           THEN (IF ctl.enum = "GET_DEV_DESC" THEN 0 ELSE 1)
                                           ELSE chan[x].addr
      BY <1>11 DEF EnumCompleted, OpenAt, ClosedChan, HostTypeOK, ChanType, PlaceInv, Addressing
    <2>6. /\ ctl.enum # "ENUM_IDLE" /\ ctl.enum \in DOMAIN EnumNext
          /\ ctl'.enum \in Addressing <=> ctl.enum = "GET_DEV_DESC"
          /\ ctl'.enum = "SET_ADDR" <=> ctl.enum = "GET_DEV_DESC"
          /\ ctl'.enum \notin {"ENUM_IDLE", "GET_DEV_DESC"}
      <3>1. ctl.enum \in DOMAIN EnumNext \ {"ENUM_IDLE"}
        BY <2>1, <2>2 DEF PlaceInv, Configured, HostTypeOK, CtlType, EnumStates, Requests, Reads,
                          Writes, NoData
      <3>2. QED
        BY <2>1, <3>1 DEF EnumNext, Addressing
    <2>7. QED
      BY <2>2, <2>3, <2>4, <2>5, <2>6 DEF AddrInv, Addressing
  <1>12. CASE UserInput
    BY <1>12 DEF UserInput, In, PolledState, HostTypeOK, HostType, CtlType, IrqType, DevType,
           PortInv, PlaceInv, ChanInv, Addressing, AddrInv, Bound, BeforeReset, SameDevice, Moving
  <1>13. CASE ClassSkip
    BY <1>13 DEF ClassSkip, In, PolledState, HostTypeOK, HostType, CtlType, IrqType, DevType,
           PortInv, PlaceInv, ChanInv, Addressing, AddrInv, Bound, BeforeReset, SameDevice, Moving
  <1>14. CASE ClassCompleted
    <2>1. ctl'.enum = ctl.enum /\ UNCHANGED <<pipe, chan, irq, dev, pc>>
      BY <1>14, WaitedFacts DEF ClassCompleted, CtlType
    <2>2. host.state = "CLASS_REQ" /\ host'.conn = host.conn
      BY <1>14 DEF ClassCompleted, HostTypeOK, HostType
    <2>3. ctl.enum = "CONFIGURED_OK" /\ (Bound' => Bound)
      BY <2>1, <2>2 DEF PlaceInv, Configured, Bound, BeforeReset, SameDevice
    <2>4. QED
      BY <2>1, <2>3 DEF AddrInv
  <1>15. CASE ClassNextRequest
    BY <1>15 DEF ClassNextRequest, In, PolledState, HostTypeOK, HostType, CtlType, IrqType,
           DevType, PortInv, PlaceInv, ChanInv, Addressing, AddrInv, Bound, BeforeReset,
           SameDevice, Moving
  <1>16. CASE ResetBot
    BY <1>16 DEF ResetBot, In, PolledState, HostTypeOK, HostType, CtlType, IrqType, DevType,
           PortInv, PlaceInv, ChanInv, Addressing, AddrInv, Bound, BeforeReset, SameDevice, Moving
  <1>17. CASE PortIsr
    <2>1. Bound' => Bound
      BY <1>17
         DEF PortIsr, HostTypeOK, HostType, IrqType, PortInv, PlaceInv, Bound, BeforeReset, SameDevice
    <2>2. UNCHANGED <<ctl, pipe, chan, dev, pc>>
      BY <1>17 DEF PortIsr
    <2>3. QED
      BY <2>1, <2>2 DEF AddrInv, Moving
  <1>18. ASSUME NEW c \in Chans, ChannelEventIsr(c) PROVE AddrInv'
    BY <1>18 DEF ChannelEventIsr, ChanType, PipeType, PipeState, Busy, ChanOf, Chans, HostTypeOK,
           HostType, CtlType, IrqType, DevType, PortInv, PlaceInv, ChanInv, Addressing, AddrInv,
           Bound, BeforeReset, SameDevice, Moving
  <1>19. ASSUME NEW c \in Chans, ChannelHaltedIsr(c) PROVE AddrInv'
    BY <1>19 DEF ChannelHaltedIsr, ChanType, PipeType, UrbOf, Busy, ChanOf, Chans, HostTypeOK,
           HostType, CtlType, IrqType, DevType, PortInv, PlaceInv, ChanInv, Addressing, AddrInv,
           Bound, BeforeReset, SameDevice, Moving
  <1>20. ASSUME NEW c \in Chans, Answer(c) PROVE AddrInv'
    <2>1. chan[c].kind \in Stages /\ Running(c) /\ ~chan'[c].on /\ chan'[c].addr = chan[c].addr
          /\ (\A x \in Chans \ {c} : chan'[x] = chan[x]) /\ chan[c].on
      BY <1>20, OneRuns, EndsFacts DEF Answer, Running
    <2>2. \/ Willing(chan[c].kind) /\ dev' = Accepted(chan[c].kind) /\ chan'[c].flag = "done"
          \/ dev' = [dev EXCEPT !.phase = "none"]
      BY <1>20, EndsFacts DEF Answer
    <2>3. UNCHANGED <<host, ctl, pipe, irq, pc>>
      BY <1>20 DEF Answer
    <2>4. dev'.present = dev.present /\ dev'.enabled = dev.enabled
      BY <2>1, <2>2, AcceptedFacts DEF HostTypeOK, DevType
    <2>5. Bound' = Bound /\ (Bound => ~Moving)
      BY <2>1, <2>3, <2>4 DEF Bound, BeforeReset, SameDevice, Moving
    <2>6. CASE dev' \in {dev, [dev EXCEPT !.phase = "none"]}
      <3>1. /\ dev'.req = dev.req /\ dev'.addr = dev.addr /\ dev'.done = dev.done
            /\ dev'.phase \in {dev.phase, "none"}
        BY <2>6 DEF HostTypeOK, DevType
      <3>2. QED
        BY <2>1, <2>3, <2>5, <3>1 DEF AddrInv
    <2>7. CASE Willing(chan[c].kind) /\ dev' = Accepted(chan[c].kind) /\ chan'[c].flag = "done"
      <3>1. CASE chan[c].kind \in Statuses /\ dev.req = "SET_ADDR"
        <4>1. dev.phase = chan[c].kind /\ chan[c].kind = "STATUS_IN"
          BY <2>7, <3>1 DEF Willing, Statuses, AddrInv
        <4>2. c = "in"
          BY <2>1, <4>1 DEF ChanInv, Busy, ChanOf
        <4>3. chan'[c].flag = "done"
          BY <2>7, <4>2
        <4>4. /\ dev'.req = "SET_ADDR" /\ dev'.phase = "none" /\ dev'.addr = 1
              /\ dev'.done = dev.done \cup {"SET_ADDR"}
          BY <2>1, <2>7, <3>1, AcceptedFacts
        <4>5. Bound => ctl.enum = "SET_ADDR"
          <5>1. Bound => ctl.req = "SET_ADDR" /\ ctl.xfer = "WAITING"
            BY <2>1, <2>7, <4>4, PacketTaken, OneRuns
          <5>2. QED
            BY <5>1 DEF PlaceInv, Stage, HostTypeOK, CtlType, ClassStates, ClassNext
        <4>6. Moving'
          <5>1. \/ ctl.cur = "STATUS_IN" /\ pc = "arm"
                \/ ctl.cur = "WAIT_URB" /\ ctl.pre = "STATUS_IN" /\ pipe["in"].urb = "IDLE"
            BY <2>1, <4>1, <4>2 DEF ChanInv, Busy
          <5>2. \A x \in Chans : ~chan'[x].on
            BY <2>1, OneRuns DEF Busy
          <5>3. QED
            BY <2>3, <4>2, <4>3, <5>1, <5>2 DEF Moving
        <4>7. QED
          BY <2>1, <2>3, <2>5, <4>4, <4>5, <4>6 DEF AddrInv, Addressing
      <3>2. CASE ~(chan[c].kind \in Statuses /\ dev.req = "SET_ADDR")
        <4>1. dev'.addr = dev.addr /\ ("SET_ADDR" \in dev'.done <=> "SET_ADDR" \in dev.done)
          <5>1. CASE chan[c].kind \in Statuses
            BY <2>1, <2>7, <3>2, <5>1, AcceptedFacts
          <5>2. CASE chan[c].kind \notin Statuses
            BY <2>1, <2>7, <5>2, AcceptedFacts
          <5>3. QED
            BY <5>1, <5>2
        <4>2. dev'.req = "SET_ADDR" => dev'.phase \in {"none", "STATUS_IN"}
          <5>1. CASE chan[c].kind = "SETUP"
            BY <2>1, <2>7, <5>1, AcceptedFacts DEF After, Reads, Writes
          <5>2. CASE chan[c].kind \in Statuses
            BY <2>1, <2>7, <5>2, AcceptedFacts
          <5>3. CASE chan[c].kind \in Stages \ ({"SETUP"} \cup Statuses)
            BY <2>1, <2>7, <5>3, AcceptedFacts DEF AddrInv, Willing, Statuses, Stages
          <5>4. QED
            BY <2>1, <5>1, <5>2, <5>3
        <4>3. QED
          BY <2>1, <2>3, <2>5, <4>1, <4>2 DEF AddrInv
      <3>3. QED
        BY <3>1, <3>2
    <2>8. QED
      BY <2>2, <2>6, <2>7
  <1>21. ASSUME NEW c \in Chans, NoAnswer(c) PROVE AddrInv'
    BY <1>21 DEF NoAnswer, Ends, Running, ChanType, HostTypeOK, HostType, CtlType, IrqType,
           DevType, PortInv, PlaceInv, ChanInv, Addressing, AddrInv, Bound, BeforeReset,
           SameDevice, Moving
  <1>22. ASSUME NEW c \in Chans, Fault(c) PROVE AddrInv'
    <2>1. chan[c].kind \in Stages /\ Running(c) /\ ~chan'[c].on /\ chan'[c].addr = chan[c].addr
          /\ (\A x \in Chans \ {c} : chan'[x] = chan[x]) /\ chan[c].on
      BY <1>22, OneRuns, EndsFacts DEF Fault, Running
    <2>2. \/ Willing(chan[c].kind) /\ dev' = Accepted(chan[c].kind) /\ c = "out"
          \/ dev' \in {dev, [dev EXCEPT !.phase = "none"]}
      BY <1>22 DEF Fault
    <2>3. UNCHANGED <<host, ctl, pipe, irq, pc>>
      BY <1>22 DEF Fault
    <2>4. dev'.present = dev.present /\ dev'.enabled = dev.enabled
      BY <2>1, <2>2, AcceptedFacts DEF HostTypeOK, DevType
    <2>5. Bound' = Bound /\ (Bound => ~Moving)
      BY <2>1, <2>3, <2>4 DEF Bound, BeforeReset, SameDevice, Moving
    <2>6. CASE dev' \in {dev, [dev EXCEPT !.phase = "none"]}
      <3>1. /\ dev'.req = dev.req /\ dev'.addr = dev.addr /\ dev'.done = dev.done
            /\ dev'.phase \in {dev.phase, "none"}
        BY <2>6 DEF HostTypeOK, DevType
      <3>2. QED
        BY <2>1, <2>3, <2>5, <3>1 DEF AddrInv
    <2>7. CASE Willing(chan[c].kind) /\ dev' = Accepted(chan[c].kind) /\ c = "out"
      <3>1. CASE chan[c].kind \in Statuses /\ dev.req = "SET_ADDR"
        <4>1. dev.phase = chan[c].kind /\ chan[c].kind = "STATUS_IN"
          BY <2>7, <3>1 DEF Willing, Statuses, AddrInv
        <4>2. c = "in"
          BY <2>1, <4>1 DEF ChanInv, Busy, ChanOf
        <4>3. chan'[c].flag = "done"
          BY <2>7, <4>2
        <4>4. /\ dev'.req = "SET_ADDR" /\ dev'.phase = "none" /\ dev'.addr = 1
              /\ dev'.done = dev.done \cup {"SET_ADDR"}
          BY <2>1, <2>7, <3>1, AcceptedFacts
        <4>5. Bound => ctl.enum = "SET_ADDR"
          <5>1. Bound => ctl.req = "SET_ADDR" /\ ctl.xfer = "WAITING"
            BY <2>1, <2>7, <4>4, PacketTaken, OneRuns
          <5>2. QED
            BY <5>1 DEF PlaceInv, Stage, HostTypeOK, CtlType, ClassStates, ClassNext
        <4>6. Moving'
          <5>1. \/ ctl.cur = "STATUS_IN" /\ pc = "arm"
                \/ ctl.cur = "WAIT_URB" /\ ctl.pre = "STATUS_IN" /\ pipe["in"].urb = "IDLE"
            BY <2>1, <4>1, <4>2 DEF ChanInv, Busy
          <5>2. \A x \in Chans : ~chan'[x].on
            BY <2>1, OneRuns DEF Busy
          <5>3. QED
            BY <2>3, <4>2, <4>3, <5>1, <5>2 DEF Moving
        <4>7. QED
          BY <2>1, <2>3, <2>5, <4>4, <4>5, <4>6 DEF AddrInv, Addressing
      <3>2. CASE ~(chan[c].kind \in Statuses /\ dev.req = "SET_ADDR")
        <4>1. dev'.addr = dev.addr /\ ("SET_ADDR" \in dev'.done <=> "SET_ADDR" \in dev.done)
          <5>1. CASE chan[c].kind \in Statuses
            BY <2>1, <2>7, <3>2, <5>1, AcceptedFacts
          <5>2. CASE chan[c].kind \notin Statuses
            BY <2>1, <2>7, <5>2, AcceptedFacts
          <5>3. QED
            BY <5>1, <5>2
        <4>2. dev'.req = "SET_ADDR" => dev'.phase \in {"none", "STATUS_IN"}
          <5>1. CASE chan[c].kind = "SETUP"
            BY <2>1, <2>7, <5>1, AcceptedFacts DEF After, Reads, Writes
          <5>2. CASE chan[c].kind \in Statuses
            BY <2>1, <2>7, <5>2, AcceptedFacts
          <5>3. CASE chan[c].kind \in Stages \ ({"SETUP"} \cup Statuses)
            BY <2>1, <2>7, <5>3, AcceptedFacts DEF AddrInv, Willing, Statuses, Stages
          <5>4. QED
            BY <2>1, <5>1, <5>2, <5>3
        <4>3. QED
          BY <2>1, <2>3, <2>5, <4>1, <4>2 DEF AddrInv
      <3>3. QED
        BY <3>1, <3>2
    <2>8. QED
      BY <2>2, <2>6, <2>7
  <1>23. CASE Plug
    BY <1>23 DEF Plug, Fresh, HostTypeOK, HostType, CtlType, IrqType, DevType, PortInv, PlaceInv,
           ChanInv, Addressing, AddrInv, Bound, BeforeReset, SameDevice, Moving
  <1>24. CASE Unplug
    BY <1>24 DEF Unplug, Fresh, HostTypeOK, HostType, CtlType, IrqType, DevType, PortInv,
           PlaceInv, ChanInv, Addressing, AddrInv, Bound, BeforeReset, SameDevice, Moving
  <1>25. QED
    BY <1>1, <1>2, <1>3, <1>4, <1>5, <1>6, <1>7, <1>8, <1>9, <1>10, <1>11, <1>12, <1>13, <1>14,
           <1>15, <1>16, <1>17, <1>18, <1>19, <1>20, <1>21, <1>22, <1>23, <1>24, Zenon DEF Actors, Main,
           Isr, Bus

(* What one request more means. *)
LEMMA RankSteps ==
    /\ Before(EnumRank, "ENUM_IDLE") = {}
    /\ \A e \in DOMAIN EnumNext :
           Before(EnumRank, EnumNext[e]) \subseteq Before(EnumRank, e) \cup {e}
    /\ DOMAIN EnumRank \subseteq Before(EnumRank, "CONFIGURED_OK") \cup {"CONFIGURED_OK"}
    /\ {"ENUM_IDLE", "CONFIGURED_OK"} \cap Requests = {}
    /\ Before(CdcRank, "SET_LINE_CODING") = {} /\ Before(HidRank, "HID_IDLE") = {}
    /\ \A r \in DOMAIN CdcRank \ {"CDC_CONFIGURED_OK"} :
           Before(CdcRank, ClassNext[r]) \subseteq Before(CdcRank, r) \cup {r}
    /\ \A r \in DOMAIN HidRank \ {"SET_PROTOCOL"} :
           Before(HidRank, ClassNext[r]) \subseteq Before(HidRank, r) \cup {r}
    /\ DOMAIN CdcRank \subseteq Before(CdcRank, "CDC_CONFIGURED_OK") \cup {"CDC_CONFIGURED_OK"}
    /\ DOMAIN HidRank \subseteq Before(HidRank, "SET_PROTOCOL") \cup {"SET_PROTOCOL"}
  <1>1. /\ Before(EnumRank, "ENUM_IDLE") = {}
        /\ DOMAIN EnumRank \subseteq Before(EnumRank, "CONFIGURED_OK") \cup {"CONFIGURED_OK"}
    BY DEF Before, EnumRank
  <1>2. \A e \in DOMAIN EnumNext :
           Before(EnumRank, EnumNext[e]) \subseteq Before(EnumRank, e) \cup {e}
    BY DEF Before, EnumRank, EnumNext
  <1>3. {"ENUM_IDLE", "CONFIGURED_OK"} \cap Requests = {}
    BY DEF Requests, Reads, Writes, NoData
  <1>4. /\ Before(CdcRank, "SET_LINE_CODING") = {}
        /\ DOMAIN CdcRank \subseteq Before(CdcRank, "CDC_CONFIGURED_OK") \cup {"CDC_CONFIGURED_OK"}
    BY DEF Before, CdcRank
  <1>5. /\ Before(HidRank, "HID_IDLE") = {}
        /\ DOMAIN HidRank \subseteq Before(HidRank, "SET_PROTOCOL") \cup {"SET_PROTOCOL"}
    BY DEF Before, HidRank
  <1>6. \A r \in DOMAIN CdcRank \ {"CDC_CONFIGURED_OK"} :
           Before(CdcRank, ClassNext[r]) \subseteq Before(CdcRank, r) \cup {r}
    BY DEF Before, CdcRank, ClassNext
  <1>7. \A r \in DOMAIN HidRank \ {"SET_PROTOCOL"} :
           Before(HidRank, ClassNext[r]) \subseteq Before(HidRank, r) \cup {r}
    BY DEF Before, HidRank, ClassNext
  <1>8. QED
    BY <1>1, <1>2, <1>3, <1>4, <1>5, <1>6, <1>7

Marks == {"ENUM_IDLE", "CONFIGURED_OK", "HID_IDLE", "CDC_CONFIGURED_OK"}   \* no requests

(* The host takes at most one request more for done, which is done. *)
LEMMA OneMore ==
    ASSUME UNCHANGED setup, StagesDone, NEW r,
           EnumTaken' \cup ClassTaken' \subseteq EnumTaken \cup ClassTaken \cup {r} \cup Marks,
           SameDevice' => /\ SameDevice /\ dev.done \subseteq dev'.done
                          /\ r \in dev'.done \/ r \notin Requests
                             \/ (r = "GET_SERIALNUM_STRING" /\ ~HasSerial)
    PROVE  StagesDone'
  <1>1. Marks \cap Requests = {}
    BY DEF Marks, Requests, Reads, Writes, NoData
  <1>2. HasSerial' = HasSerial /\ Requests' = Requests
    BY DEF HasSerial
  <1>3. QED
    BY <1>1, <1>2 DEF StagesDone, TakenForDone

(* The host stands where it stood: it takes the same for done. *)
LEMMA SameTaken ==
    ASSUME UNCHANGED setup, StagesDone, host'.state = host.state, ctl'.enum = ctl.enum,
           ctl'.class = ctl.class,
           SameDevice' => \/ host.state \in {"IDLE", "ATTACHED"}
                          \/ SameDevice /\ dev.done \subseteq dev'.done
    PROVE  StagesDone'
  <1>1. EnumTaken' = EnumTaken /\ ClassTaken' = ClassTaken
    BY DEF EnumTaken, ClassTaken, Class
  <1>2. CASE host.state \in {"IDLE", "ATTACHED"}
    <2>1. EnumTaken = {} /\ ClassTaken = {}
      BY <1>2 DEF EnumTaken, ClassTaken
    <2>2. QED
      BY <1>1, <2>1 DEF StagesDone, TakenForDone
  <1>3. CASE host.state \notin {"IDLE", "ATTACHED"}
    BY <1>1, <1>3 DEF StagesDone, TakenForDone, HasSerial
  <1>4. QED
    BY <1>2, <1>3

(* Before the enumeration the host takes nothing for done. *)
LEMMA NothingTaken ==
    ASSUME host'.state \in {"IDLE", "ATTACHED"} \/ (host'.state = "ENUM" /\ ctl'.enum = "ENUM_IDLE")
    PROVE  StagesDone'
  <1>1. EnumTaken' = {} /\ ClassTaken' = {}
    BY RankSteps DEF EnumTaken, ClassTaken
  <1>2. QED
    BY <1>1 DEF StagesDone, TakenForDone

(* The host never runs ahead of the device. *)
LEMMA DoneKept ==
    ASSUME UsbHostAssumption, HostTypeOK, PortInv, PlaceInv, DevInv, StagesDone, Actors,
           UNCHANGED setup
    PROVE  StagesDone'
  <1>1. CASE Idle
    BY <1>1, NothingTaken DEF Idle, HostTypeOK, HostType, CtlType
  <1>2. CASE AttachedReset
    BY <1>2, NothingTaken DEF AttachedReset, In, PolledState, HostTypeOK, HostType, CtlType
  <1>3. CASE AttachedOpen
    BY <1>3, NothingTaken DEF AttachedOpen, HostTypeOK, HostType, CtlType
  <1>4. CASE Detached
    BY <1>4, NothingTaken DEF Detached, HostTypeOK, HostType, CtlType
  <1>5. CASE StartRequest
    <2>1. /\ UNCHANGED <<host, irq, dev>> /\ ctl'.enum = ctl.enum /\ ctl'.class = ctl.class
      BY <1>5 DEF StartRequest, HostTypeOK, CtlType
    <2>2. QED
      BY <2>1, SameTaken DEF SameDevice
  <1>6. CASE StartStage
    <2>1. /\ UNCHANGED <<host, irq, dev>> /\ ctl'.enum = ctl.enum /\ ctl'.class = ctl.class
      BY <1>6 DEF StartStage, HostTypeOK, CtlType
    <2>2. QED
      BY <2>1, SameTaken DEF SameDevice
  <1>7. CASE ArmStage
    <2>1. /\ UNCHANGED <<host, irq, dev>> /\ ctl'.enum = ctl.enum /\ ctl'.class = ctl.class
      BY <1>7 DEF ArmStage, HostTypeOK, CtlType
    <2>2. QED
      BY <2>1, SameTaken DEF SameDevice
  <1>8. CASE WaitStage
    <2>1. /\ UNCHANGED <<host, irq, dev>> /\ ctl'.enum = ctl.enum /\ ctl'.class = ctl.class
      BY <1>8, WaitedFacts DEF WaitStage
    <2>2. QED
      BY <2>1, SameTaken DEF SameDevice
  <1>9. CASE Failed
    <2>1. /\ host'.conn = host.conn /\ UNCHANGED <<irq, dev>>
          /\ \/ host'.state = host.state
             \/ /\ host.state = "CLASS_REQ" /\ host'.state = "CLASS"
                /\ ctl.class \in {"BOT_RESET", "GET_MAX_LUN"}
      BY <1>9 DEF Failed, HostTypeOK, HostType
    <2>2. /\ ctl'.enum = ctl.enum
          /\ ctl'.class = ctl.class \/ ctl.class \in {"BOT_RESET", "GET_MAX_LUN"}
      BY <1>9, WaitedFacts DEF Failed, CtlType
    <2>3. CASE host'.state = host.state /\ ctl'.class = ctl.class
      BY <2>1, <2>2, <2>3, SameTaken DEF SameDevice
    <2>4. CASE ctl.class \in {"BOT_RESET", "GET_MAX_LUN"}
      <3>1. Class' = Class /\ Class = "MSC"
        BY <2>4, ClassIs, ClassNames DEF PlaceInv, Class
      <3>2. EnumTaken' = EnumTaken /\ ClassTaken' = {}
        BY <2>1, <2>2, <3>1 DEF EnumTaken, ClassTaken
      <3>3. QED
        BY <2>1, <3>2, RankSteps, OneMore DEF SameDevice
    <2>5. QED
      BY <2>1, <2>2, <2>3, <2>4
  <1>10. CASE EnumSkip
    <2>1. /\ host.state = "ENUM" /\ UNCHANGED <<host, irq, dev>>
          /\ ctl.enum \in DOMAIN EnumNext /\ ctl'.enum = EnumNext[ctl.enum] /\ ctl'.class = ctl.class
          /\ ctl.enum = "ENUM_IDLE" \/ (ctl.enum = "GET_SERIALNUM_STRING" /\ ~HasSerial)
      BY <1>10 DEF EnumSkip, In, PolledState, Skipped, Stage, HostTypeOK, CtlType, EnumNext
    <2>2. EnumTaken' \subseteq EnumTaken \cup {ctl.enum} /\ ClassTaken' = {}
      BY <2>1, RankSteps DEF EnumTaken, ClassTaken
    <2>3. QED
      BY <2>1, <2>2, RankSteps, OneMore DEF SameDevice
  <1>11. CASE EnumCompleted
    <2>1. /\ ctl'.enum = EnumNext[ctl.enum] /\ ctl.cur = "WAIT_URB" /\ Urb = "OK"
          /\ ctl.pre \in Statuses /\ ctl.xfer = "WAITING" /\ host.state = "ENUM"
      BY <1>11, WaitedFacts DEF EnumCompleted, Waiting, CtlType
    <2>2. /\ ctl.enum \in DOMAIN EnumNext /\ host'.conn = host.conn /\ UNCHANGED <<irq, dev>>
          /\ host'.state = IF ctl.enum = "SET_CONFIGURATION" THEN "USER_INPUT" ELSE "ENUM"
      BY <1>11, <2>1
         DEF EnumCompleted, HostTypeOK, HostType, CtlType, PlaceInv, Configured, EnumStates
    <2>3. SameDevice => ctl.enum \in dev.done
      BY <2>1 DEF DevInv, CarriedOut, PlaceInv, Stage, Bound, BeforeReset
    <2>4. ctl.enum = "SET_CONFIGURATION" => ctl'.enum = "CONFIGURED_OK"
      BY <2>1 DEF EnumNext
    <2>5. EnumTaken' \subseteq EnumTaken \cup {ctl.enum} \cup Marks /\ ClassTaken' = {}
      BY <2>1, <2>2, <2>4, RankSteps DEF EnumTaken, ClassTaken, Marks
    <2>6. QED
      BY <2>2, <2>3, <2>5, OneMore DEF SameDevice
  <1>12. CASE UserInput
    <2>1. /\ host.state = "USER_INPUT" /\ host'.conn = host.conn /\ UNCHANGED <<irq, dev>>
          /\ host'.state = (IF Class = "MSC" THEN "CLASS" ELSE "CLASS_REQ")
          /\ ctl'.class = ctl.class
      BY <1>12 DEF UserInput, In, PolledState, HostTypeOK, HostType, CtlType
    <2>2. EnumTaken' = EnumTaken /\ ClassTaken' = {} /\ Class' = Class
      BY <2>1, ClassIs, ClassNames, RankSteps DEF EnumTaken, ClassTaken, PlaceInv, Class
    <2>3. QED
      BY <2>1, <2>2, RankSteps, OneMore DEF SameDevice
  <1>13. CASE ClassSkip
    <2>1. /\ host.state = "CLASS_REQ" /\ host'.conn = host.conn /\ UNCHANGED <<irq, dev>>
          /\ ctl.class \in {"HID_IDLE", "CDC_CONFIGURED_OK"}
          /\ host'.state = IF ctl.class = "HID_IDLE" THEN "CLASS_REQ" ELSE "CLASS"
          /\ ctl'.class = IF ctl.class = "HID_IDLE" THEN ClassNext["HID_IDLE"] ELSE "SET_LINE_CODING"
      BY <1>13 DEF ClassSkip, In, PolledState, HostTypeOK, HostType, CtlType
    <2>2. /\ Class = (IF ctl.class = "HID_IDLE" THEN "HID" ELSE "CDC") /\ Class' = Class
          /\ ctl.class \in Marks
      BY <2>1, ClassIs, ClassNames DEF PlaceInv, MscReqs, Class, Marks
    <2>3. EnumTaken' = EnumTaken
      BY <2>1 DEF EnumTaken
    <2>4. ClassTaken' \subseteq ClassTaken \cup Marks
      BY <2>1, <2>2, ClassNames, RankSteps DEF ClassTaken, Marks
    <2>5. QED
      BY <2>1, <2>3, <2>4, RankSteps, OneMore DEF SameDevice
  <1>14. CASE ClassCompleted
    <2>1. /\ host.state = "CLASS_REQ" /\ host'.conn = host.conn /\ UNCHANGED <<irq, dev>>
          /\ host'.state = IF ctl.class = "GET_MAX_LUN" THEN "CLASS" ELSE "CLASS_REQ"
      BY <1>14 DEF ClassCompleted, HostTypeOK, HostType
    <2>2. ctl'.class = ctl.class
      BY <1>14, WaitedFacts DEF ClassCompleted, CtlType
    <2>3. Class' = Class /\ (ctl.class = "GET_MAX_LUN" => Class = "MSC")
      BY ClassIs, ClassNames DEF PlaceInv, Class
    <2>4. EnumTaken' = EnumTaken /\ ClassTaken' \subseteq ClassTaken
      BY <2>1, <2>2, <2>3 DEF EnumTaken, ClassTaken
    <2>5. QED
      BY <2>1, <2>4, RankSteps, OneMore DEF SameDevice
  <1>15. CASE ClassNextRequest
    <2>1. /\ host.state = "CLASS_REQ" /\ host'.conn = host.conn /\ UNCHANGED <<irq, dev>>
          /\ ctl.xfer = "OK"
          /\ host'.state = IF ctl.class = "SET_PROTOCOL" THEN "CLASS" ELSE "CLASS_REQ"
          /\ ctl.class # "CTRL_ERROR" => ctl'.class = ClassNext[ctl.class]
      BY <1>15 DEF ClassNextRequest, In, PolledState, HostTypeOK, HostType, CtlType
    <2>2. SameDevice => ctl.class \in dev.done
      BY <2>1 DEF DevInv, Bound, BeforeReset
    <2>3. Class' = Class /\ (ctl.class = "SET_PROTOCOL" => Class = "HID")
      BY ClassIs, ClassNames DEF PlaceInv, Class, MscReqs
    <2>4. /\ Class = "CDC" => ctl.class \in DOMAIN CdcRank \ {"CDC_CONFIGURED_OK", "CTRL_ERROR"}
          /\ Class = "HID" => ctl.class \in DOMAIN HidRank \ {"CTRL_ERROR"}
      BY <2>1, ClassNames DEF PlaceInv
    <2>5. EnumTaken' = EnumTaken
      BY <2>1 DEF EnumTaken
    <2>6. ClassTaken' \subseteq ClassTaken \cup {ctl.class} \cup Marks
      BY <2>1, <2>3, <2>4, RankSteps, ClassIs DEF ClassTaken
    <2>7. QED
      BY <2>1, <2>2, <2>5, <2>6, OneMore DEF SameDevice
  <1>16. CASE ResetBot
    <2>1. /\ host.state = "CLASS" /\ host'.state = "CLASS_REQ" /\ host'.conn = host.conn
          /\ UNCHANGED <<irq, dev>> /\ Class = "MSC" /\ Class' = Class
      BY <1>16 DEF ResetBot, In, PolledState, HostTypeOK, HostType, Class
    <2>2. EnumTaken' = EnumTaken /\ ClassTaken' = {}
      BY <2>1 DEF EnumTaken, ClassTaken
    <2>3. QED
      BY <2>1, <2>2, RankSteps, OneMore DEF SameDevice
  <1>17. CASE PortIsr
    <2>1. host'.state = host.state /\ UNCHANGED <<ctl, dev>>
      BY <1>17 DEF PortIsr, HostTypeOK, HostType
    <2>2. SameDevice' => host.state = "IDLE" \/ SameDevice
      BY <1>17 DEF PortIsr, HostTypeOK, HostType, IrqType, PortInv, SameDevice
    <2>3. QED
      BY <2>1, <2>2, SameTaken
  <1>18. ASSUME NEW c \in Chans, ChannelEventIsr(c) PROVE StagesDone'
    <2>1. /\ UNCHANGED <<host, irq, dev>> /\ ctl'.enum = ctl.enum /\ ctl'.class = ctl.class
      BY <1>18 DEF ChannelEventIsr, HostTypeOK, CtlType
    <2>2. QED
      BY <2>1, SameTaken DEF SameDevice
  <1>19. ASSUME NEW c \in Chans, ChannelHaltedIsr(c) PROVE StagesDone'
    <2>1. /\ UNCHANGED <<host, irq, dev>> /\ ctl'.enum = ctl.enum /\ ctl'.class = ctl.class
      BY <1>19 DEF ChannelHaltedIsr, HostTypeOK, CtlType
    <2>2. QED
      BY <2>1, SameTaken DEF SameDevice
  <1>20. ASSUME NEW c \in Chans, Answer(c) PROVE StagesDone'
    <2>1. chan[c].kind \in Stages /\ UNCHANGED <<host, irq, ctl>>
      BY <1>20 DEF Answer, HostTypeOK, ChanType
    <2>2. dev'.present = dev.present /\ dev.done \subseteq dev'.done
      <3>1. dev' \in {dev, [dev EXCEPT !.phase = "none"], Accepted(chan[c].kind)}
        BY <1>20 DEF Answer
      <3>2. QED
        BY <2>1, <3>1, AcceptedFacts DEF HostTypeOK, DevType, Stages
    <2>3. QED
      BY <2>1, <2>2, SameTaken DEF SameDevice
  <1>21. ASSUME NEW c \in Chans, NoAnswer(c) PROVE StagesDone'
    <2>1. /\ UNCHANGED <<host, irq, dev>> /\ ctl'.enum = ctl.enum /\ ctl'.class = ctl.class
      BY <1>21 DEF NoAnswer, HostTypeOK, CtlType
    <2>2. QED
      BY <2>1, SameTaken DEF SameDevice
  <1>22. ASSUME NEW c \in Chans, Fault(c) PROVE StagesDone'
    <2>1. chan[c].kind \in Stages /\ UNCHANGED <<host, irq, ctl>>
      BY <1>22 DEF Fault, HostTypeOK, ChanType
    <2>2. dev'.present = dev.present /\ dev.done \subseteq dev'.done
      <3>1. dev' \in {dev, [dev EXCEPT !.phase = "none"], Accepted(chan[c].kind)}
        BY <1>22 DEF Fault
      <3>2. QED
        BY <2>1, <3>1, AcceptedFacts DEF HostTypeOK, DevType, Stages
    <2>3. QED
      BY <2>1, <2>2, SameTaken DEF SameDevice
  <1>23. CASE Plug
    <2>1. ~SameDevice'
      BY <1>23 DEF Plug, Fresh, HostTypeOK, IrqType, DevType, PortInv, SameDevice
    <2>2. QED
      BY <2>1 DEF StagesDone
  <1>24. CASE Unplug
    <2>1. ~SameDevice'
      BY <1>24 DEF Unplug, Fresh, HostTypeOK, IrqType, DevType, PortInv, SameDevice
    <2>2. QED
      BY <2>1 DEF StagesDone
  <1>25. QED
    BY <1>1, <1>2, <1>3, <1>4, <1>5, <1>6, <1>7, <1>8, <1>9, <1>10, <1>11, <1>12, <1>13, <1>14,
           <1>15, <1>16, <1>17, <1>18, <1>19, <1>20, <1>21, <1>22, <1>23, <1>24, Zenon DEF Actors, Main,
           Isr, Bus

(* Before the first poll nothing is attached and nothing runs. *)
LEMMA InitHolds ==
    ASSUME UsbHostAssumption, Init
    PROVE  HostInv
  <1>1. setup \in Setups /\ Class \in {"CDC", "HID", "MSC"}
    BY DEF Init, UsbHostAssumption, Class
  <1>2. HostTypeOK
    <2>1. host \in HostType /\ ctl \in CtlType
      BY <1>1
         DEF Init, HostType, CtlType, EnumStates, ClassStates, EnumNext, ClassNext, FirstClassReq,
                  Stages, Requests, Reads, USBH_MSC_SATLL_RETRY_CNT
    <2>2. pipe \in [Chans -> PipeType] /\ chan \in [Chans -> ChanType]
      BY DEF Init, FreePipe, PipeType, OpenAt, ClosedChan, ChanType, Stages
    <2>3. irq \in IrqType /\ dev \in DevType /\ left \in LeftType
      BY DEF Init, IrqType, DevType, LeftType, Requests, Reads, UsbHostAssumption
    <2>4. QED
      BY <1>1, <2>1, <2>2, <2>3 DEF HostTypeOK, Init
  <1>3. /\ host.state = "IDLE" /\ ~host.conn /\ ~host.port /\ pc = "poll"
        /\ irq.on /\ ~irq.dedis /\ irq.pend = {}
        /\ ~dev.present /\ ~dev.enabled /\ dev.phase = "none"
        /\ dev.req = "GET_DEV_DESC" /\ dev.done = {}
        /\ ctl.enum = "ENUM_IDLE" /\ ctl.class = FirstClassReq[Class] /\ ctl.xfer = "START"
        /\ ctl.cur = "SETUP" /\ ctl.addr = 0
    BY DEF Init
  <1>4. \A c \in Chans : /\ ~chan[c].on /\ chan[c].flag = "none" /\ chan[c].addr = 0
                          /\ pipe[c].urb = "IDLE"
    BY DEF Init, OpenAt, ClosedChan, FreePipe
  <1>5. PortInv /\ UnplugInv
    BY <1>3 DEF PortInv, UnplugInv, BeforeReset, Bound, SameDevice
  <1>6. PlaceInv
    BY <1>1, <1>3 DEF PlaceInv, Configured, Addressing, FirstClassReq, CdcRank, HidRank, MscReqs
  <1>7. ChanInv
    BY <1>3, <1>4 DEF ChanInv, Busy
  <1>8. DevInv /\ AddrInv /\ StagesDone
    BY <1>3 DEF DevInv, AddrInv, StagesDone, Bound, SameDevice
  <1>9. QED
    BY <1>2, <1>5, <1>6, <1>7, <1>8 DEF HostInv

(* Each part of the invariant is kept, given the others. *)
LEMMA HostInvHolds ==
    ASSUME UsbHostAssumption, CdcGentle
    PROVE  Spec => []HostInv
  <1>1. ASSUME Init PROVE HostInv
    BY <1>1, InitHolds
  <1>2. ASSUME HostInv, [Next]_<<setup, vars>> PROVE HostInv'
    <2>1. CASE Next
      <3>1. Actors /\ UNCHANGED setup
        BY <2>1 DEF Next, Actors
      <3>2. HostTypeOK /\ PortInv /\ UnplugInv /\ PlaceInv /\ ChanInv /\ DevInv /\ AddrInv /\ StagesDone
        BY <1>2 DEF HostInv
      <3>3. HostTypeOK'
        BY <3>1, <3>2, TypeKept
      <3>4. PortInv'
        BY <3>1, <3>2, PortKept
      <3>5. UnplugInv'
        BY <3>1, <3>2, UnplugKept
      <3>6. PlaceInv'
        BY <3>1, <3>2, PlaceKept
      <3>7. ChanInv'
        BY <3>1, <3>2, ChanKept
      <3>8. DevInv'
        BY <3>1, <3>2, DevKept
      <3>9. AddrInv'
        BY <3>1, <3>2, AddrKept
      <3>10. StagesDone'
        BY <3>1, <3>2, DoneKept
      <3>11. QED
        BY <3>3, <3>4, <3>5, <3>6, <3>7, <3>8, <3>9, <3>10 DEF HostInv
    <2>2. CASE UNCHANGED <<setup, vars>>
      <3>1. UNCHANGED <<setup, host, ctl, pipe, chan, irq, dev, pc, left>>
        BY <2>2 DEF vars
      <3>2. QED
        BY <1>2, <3>1
           DEF HostInv, HostTypeOK, PortInv, UnplugInv, PlaceInv, ChanInv, DevInv, AddrInv,
             StagesDone, SameDevice, TakenForDone, EnumTaken, ClassTaken, BeforeReset, Bound, Busy, Urb,
             CarriedOut, Acked, Moving, Stage, Skipped, Class, HasSerial, AnyUnplug
    <2>3. QED
      BY <1>2, <2>1, <2>2
  <1>3. QED
    BY <1>1, <1>2, PTL DEF Spec

(* The host stack never leaves its types: the state, the stage, the stall  *)
(* counter of the mass storage requests (usbh_msc.c) and the pipes stay    *)
(* within their ranges, for every application and device.                  *)
THEOREM HostTypeCorrect ==
    ASSUME UsbHostAssumption, CdcGentle
    PROVE  Spec => []HostTypeOK
  <1>1. HostInv => HostTypeOK
    BY DEF HostInv
  <1>2. QED
    BY <1>1, HostInvHolds, PTL

(* The host never runs ahead of the device: what the enumeration and the   *)
(* class handlers take for done (they see urbStatus only) the device that  *)
(* is plugged in now has completed, whatever failed or was pulled before.  *)
THEOREM NeverAhead ==
    ASSUME UsbHostAssumption, CdcGentle
    PROVE  Spec => []StagesDone
  <1>1. HostInv => StagesDone
    BY DEF HostInv
  <1>2. QED
    BY <1>1, HostInvHolds, PTL

(* A running control channel uses the address that the device has: the     *)
(* device changes it only when it has answered the status stage of         *)
(* SET_ADDRESS, and no channel runs from then until ENUM_SetAddrHandler    *)
(* has opened them again at the new address.                               *)
THEOREM RightAddress ==
    ASSUME UsbHostAssumption, CdcGentle
    PROVE  Spec => []ChannelsAddressDevice
  <1>1. ASSUME HostInv, SameDevice, dev.enabled, NEW c \in Chans, chan[c].on
        PROVE  chan[c].addr = dev.addr
    <2>1. dev.addr \in {0, 1} /\ ctl.enum \in EnumStates
      BY <1>1 DEF HostInv, HostTypeOK, DevType, CtlType
    <2>2. Bound
      BY <1>1 DEF HostInv, PortInv, Bound
    <2>3. ~Moving
      BY <1>1 DEF Moving
    <2>4. QED
      BY <1>1, <2>1, <2>2, <2>3 DEF HostInv, AddrInv, Addressing
  <1>2. HostInv => ChannelsAddressDevice
    BY <1>1 DEF ChannelsAddressDevice
  <1>3. QED
    BY <1>2, HostInvHolds, PTL
=============================================================================
