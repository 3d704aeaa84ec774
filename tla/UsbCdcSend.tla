----------------------------- MODULE UsbCdcSend -----------------------------
(***************************************************************************)
(* A CDC host sends (usbh_class_cdc.c): CDC_SendData hands over a buffer,  *)
(* USBH_CDCProcessSend, polled by the application, cuts it into packets,   *)
(* USBH_BulkOutData starts each on its channel, and the interrupt handler  *)
(* of the channel reports and turns the data toggle.  The device keeps its *)
(* own toggle, may answer NAK or stall for good; a packet or its handshake *)
(* may be lost.  UsbHost models how a device gets this far.                *)
(***************************************************************************)
EXTENDS Integers, Sequences

CONSTANTS
    Lengths,      \* lengths of the messages the application sends
    MaxPackSize,  \* of the device's bulk OUT endpoint
    MaxSends,     \* bound: messages per device
    MaxLost,      \* bound: packets lost, garbled, stalled or not accepted
    MaxReplugs    \* bound: devices exchanged

UsbCdcSendAssumption ==
    /\ \A n \in Lengths : n \in Nat /\ n < 65536
    /\ MaxPackSize \in Nat \ {0}
    /\ MaxSends \in Nat /\ MaxLost \in Nat /\ MaxReplugs \in Nat

VARIABLES
    tx,     \* CDC_Tx (cdcState, buff as an offset, dataLen) and the static len
    tpipe,  \* xferPipe of the channel: urbStatus, pipeState, pidToggle
    tchan,  \* its registers: enabled, PID and bytes of the packet, interrupt flag
    tdev,   \* the device: the toggle it expects, the bytes it took, halted
    tpc,    \* the application: between calls, or inside USBH_BulkOutData
    sent,   \* history, for this device: messages accepted, the length of the last, and the
            \* bytes of those before it
    tleft   \* losses and exchanges left

tvars == <<tx, tpipe, tchan, tdev, tpc, sent, tleft>>

Bytes(k, from, n) == [i \in 1..n |-> <<k, from + i>>]   \* of the k-th message

IdleTx == [state |-> "IDIE", off |-> 0, dataLen |-> 0, len |-> 0]
FreeBulkPipe == [urb |-> "IDLE", state |-> "OK", toggle |-> 0]
OffChan == [on |-> FALSE, pid |-> 0, data |-> <<>>, flag |-> "none"]
NewDev == [expects |-> 0, got |-> <<>>, halted |-> FALSE]
NothingSent == [count |-> 0, last |-> 0, before |-> <<>>]

(* What was accepted, up to byte n of the last message. *)
BytesUpTo(n) == sent.before \o Bytes(sent.count, 0, n)

SendInit ==
    /\ tx = IdleTx /\ tpipe = FreeBulkPipe /\ tchan = OffChan /\ tdev = NewDev
    /\ tpc = "poll" /\ sent = NothingSent
    /\ tleft = [lost |-> MaxLost, replugs |-> MaxReplugs]

-----------------------------------------------------------------------------
(* The application.  A pending interrupt is served first. *)
InApp(place) == tpc = place /\ tchan.flag = "none"

CDC_SendData(n) ==
    /\ InApp("poll") /\ tx.state = "IDIE" /\ sent.count < MaxSends
    /\ tx' = [tx EXCEPT !.state = "SEND_DATA", !.off = 0, !.dataLen = n]
    /\ sent' = [count |-> sent.count + 1, last |-> n, before |-> BytesUpTo(sent.last)]
    /\ UNCHANGED <<tpipe, tchan, tdev, tpc, tleft>>

(* USBH_CDCProcessSend: the next packet.  USBH_BulkOutData clears          *)
(* urbStatus before the channel runs, not after (its last line is          *)
(* commented out).                                                         *)
ProcessSend_Data ==
    /\ InApp("poll") /\ tx.state = "SEND_DATA"
    /\ tx' = [tx EXCEPT !.len = IF tx.dataLen > MaxPackSize THEN MaxPackSize ELSE tx.dataLen]
    /\ tpipe' = [tpipe EXCEPT !.urb = "IDLE"]
    /\ tpc' = "enable"
    /\ UNCHANGED <<tchan, tdev, sent, tleft>>

BulkOut_Enable ==
    /\ InApp("enable")
    /\ tchan' = [tchan EXCEPT !.on = TRUE, !.pid = tpipe.toggle,
                              !.data = Bytes(sent.count, tx.off, tx.len)]
    /\ tpc' = "return"
    /\ UNCHANGED <<tx, tpipe, tdev, sent, tleft>>

ClearsAfterEnable(p) == [p EXCEPT !.urb = "IDLE"]
AfterEnable(p) == p

BulkOut_Return ==
    /\ InApp("return")
    /\ tpipe' = AfterEnable(tpipe)
    /\ tx' = [tx EXCEPT !.state = "SEND_WAIT"]
    /\ tpc' = "poll"
    /\ UNCHANGED <<tchan, tdev, sent, tleft>>

(* The same packet goes out again after an error, a stall or a NAK. *)
ProcessSend_Wait ==
    /\ InApp("poll") /\ tx.state = "SEND_WAIT" /\ tpipe.urb # "IDLE"
    /\ tx' = IF tpipe.urb = "OK"
             THEN [tx EXCEPT !.off = @ + tx.len, !.dataLen = @ - tx.len,
                             !.state = IF tx.dataLen = tx.len THEN "COMPLETE" ELSE "SEND_DATA"]
             ELSE [tx EXCEPT !.state = "SEND_DATA"]
    /\ UNCHANGED <<tpipe, tchan, tdev, tpc, sent, tleft>>

(* CDC_DEMO calls CDC_DisableSend. *)
CDC_DisableSend ==
    /\ InApp("poll") /\ tx.state = "COMPLETE"
    /\ tx' = [tx EXCEPT !.state = "IDIE"]
    /\ UNCHANGED <<tpipe, tchan, tdev, tpc, sent, tleft>>

App == ProcessSend_Data \/ BulkOut_Enable \/ BulkOut_Return \/ ProcessSend_Wait \/ CDC_DisableSend

-----------------------------------------------------------------------------
(* USBH_OUT_HostChannelIsrHandler: note what happened and halt; then       *)
(* TSFCMPAN.                                                               *)
BulkState == [done |-> "OK", stall |-> "STALL", err |-> "XACTERR", nak |-> "NAK"]

Isr_Event ==
    /\ tchan.flag \in DOMAIN BulkState
    /\ tpipe' = [tpipe EXCEPT !.state = BulkState[tchan.flag]]
    /\ tchan' = [tchan EXCEPT !.flag = "halted"]
    /\ UNCHANGED <<tx, tdev, tpc, sent, tleft>>

BulkUrb == [OK |-> "OK", STALL |-> "STALL", XACTERR |-> "ERROR", NAK |-> "NOREADY"]

AlwaysToggles(p) == [p EXCEPT !.urb = BulkUrb[p.state], !.toggle = 1 - @]
Completed(p) ==
    [p EXCEPT !.urb = BulkUrb[p.state], !.toggle = IF p.state = "OK" THEN 1 - @ ELSE @]

Isr_Halted ==
    /\ tchan.flag = "halted"
    /\ tpipe' = Completed(tpipe)
    /\ tchan' = [tchan EXCEPT !.flag = "none"]
    /\ UNCHANGED <<tx, tdev, tpc, sent, tleft>>

BulkIsr == Isr_Event \/ Isr_Halted

-----------------------------------------------------------------------------
(* The bus and the device. *)
BulkEnds(flag) == tchan' = [tchan EXCEPT !.on = FALSE, !.flag = flag]

(* A packet with the other toggle was seen before: acknowledged and dropped. *)
Took(d) ==
    IF tchan.pid = d.expects
    THEN [d EXCEPT !.expects = 1 - @, !.got = @ \o tchan.data] ELSE d

BulkAnswer ==
    /\ tchan.on
    /\ IF tdev.halted THEN BulkEnds("stall") /\ UNCHANGED tdev
                      ELSE BulkEnds("done") /\ tdev' = Took(tdev)
    /\ UNCHANGED <<tx, tpipe, tpc, sent, tleft>>

(* The packet is lost, its handshake is lost, or the device is not ready   *)
(* or halts its endpoint.                                                  *)
Lose ==
    /\ tchan.on /\ tleft.lost > 0 /\ ~tdev.halted
    /\ \/ BulkEnds("err") /\ tdev' \in {tdev, Took(tdev)}
       \/ BulkEnds("nak") /\ UNCHANGED tdev
       \/ BulkEnds("stall") /\ tdev' = [tdev EXCEPT !.halted = TRUE]
    /\ tleft' = [tleft EXCEPT !.lost = @ - 1]
    /\ UNCHANGED <<tx, tpipe, tpc, sent>>

(* Another device: USBH_DevDetachedHandler and the enumeration, then       *)
(* USBH_CDC_ClassInitHandler; USBH_CH_FreeAllChannel clears the toggle.    *)
Replug ==
    /\ InApp("poll") /\ tleft.replugs > 0
    /\ tx' = [IdleTx EXCEPT !.len = tx.len]
    /\ tpipe' = FreeBulkPipe /\ tchan' = OffChan /\ tdev' = NewDev /\ sent' = NothingSent
    /\ tleft' = [tleft EXCEPT !.replugs = @ - 1]
    /\ UNCHANGED tpc

SendNext == (\E n \in Lengths : CDC_SendData(n)) \/ App \/ BulkIsr \/ BulkAnswer \/ Lose \/ Replug

(* The application polls, interrupts are served, packets go out; the rest  *)
(* owes nothing.                                                           *)
SendSpec == SendInit /\ [][SendNext]_tvars /\ WF_tvars(App) /\ WF_tvars(BulkIsr) /\ WF_tvars(BulkAnswer)

-----------------------------------------------------------------------------
(* Type invariant. *)
SendTypeOK ==
    /\ tx.state \in {"IDIE", "SEND_DATA", "SEND_WAIT", "COMPLETE"}
    /\ tx.dataLen \in Nat /\ tx.dataLen < 65536 /\ tx.off \in Nat /\ tx.len \in 0..MaxPackSize
    /\ tpipe \in [urb : {"IDLE", "OK", "STALL", "ERROR", "NOREADY"},
                  state : {"OK", "STALL", "XACTERR", "NAK"}, toggle : {0, 1}]
    /\ tchan.flag \in {"none", "done", "stall", "err", "nak", "halted"}
    /\ tdev.expects \in {0, 1} /\ tdev.halted \in BOOLEAN
    /\ tpc \in {"poll", "enable", "return"}

(* Every byte of every message reaches the device exactly once and in      *)
(* order, whatever was lost or refused: the device has the finished        *)
(* messages and, of the one being sent, what was acknowledged and at most  *)
(* the packet under way (USBH_CDCProcessSend with the toggle of            *)
(* USBH_OUT_HostChannelIsrHandler).                                        *)
SendExact ==
    IF tx.state \in {"IDIE", "COMPLETE"} THEN tdev.got = BytesUpTo(sent.last)
    ELSE \E n \in {tx.off, tx.off + tx.len} : tdev.got = BytesUpTo(n)

(* A message that was accepted is finished, unless the device halts its    *)
(* endpoint (which nothing clears).                                        *)
SendEnds == tx.state = "SEND_DATA" ~> (tx.state = "IDIE" \/ tdev.halted)
=============================================================================
