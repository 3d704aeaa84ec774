------------------------------- MODULE UsbMsc -------------------------------
(***************************************************************************)
(* The mass storage class of the USB device library: the bulk-only         *)
(* transport (usbd_msc_bot.c, usbd_class_msc.c), the SCSI commands         *)
(* (usbd_msc_scsi.c) and the bulk part of usbd_core.c and                  *)
(* usbd_interrupt.c, with a host that resets the transport when nothing    *)
(* moves, and a storage callback that may fail.                            *)
(*                                                                         *)
(* A transfer given to USBD_TxData or USBD_RxData is one step of the host: *)
(* the packets it is cut into are left out.  A functional record d is the  *)
(* device; each function of the code maps it to the next one, with the     *)
(* function's result in d.ret.                                             *)
(***************************************************************************)
EXTENDS Integers, Sequences

CONSTANTS
    Commands,      \* the commands the host sends: [op, blk, n, xfer, dir]
    BlkNbr,        \* blocks of the medium
    BlkSize,       \* bytes of a block
    MediaPacket,   \* MSC_MEDIA_PACKET, in bytes
    Word,          \* 2^32 in the code: where s_blkAddr and s_blkLen wrap
    MaxCommands,   \* bound: commands in a behaviour
    MayFail,       \* operations whose storage callback may fail
    AppClears,     \* the application answers CLEAR_FEATURE(ENDPOINT_HALT)
    FastBulk       \* an IN transfer is handled before the next CBW arrives

UsbMscAssumption ==
    /\ BlkNbr \in Nat /\ BlkSize \in Nat \ {0} /\ Word \in Nat \ {0} /\ MaxCommands \in Nat
    /\ MediaPacket \in Nat \ {0} /\ MediaPacket % BlkSize = 0
    /\ AppClears \in BOOLEAN /\ FastBulk \in BOOLEAN

DataOps == {"INQUIRY", "MODE_SENSE", "REQUEST_SENSE", "READ_FORMAT_CAPACITIES", "READ_CAPACITY_10"}
NoDataOps == {"TEST_UNIT_READY", "VERIFY_10", "START_STOP_UNIT"}

(* FORMAT_UNIT stands for the commands SCSI_CmdHandler does not know,      *)
(* INVALID for a wrapper that is none.                                     *)
Ops == DataOps \cup NoDataOps \cup {"READ_10", "WRITE10", "FORMAT_UNIT", "INVALID", "none"}
CommandType == [op : Ops, blk : Nat, n : Nat, xfer : Nat, dir : {"in", "out"}]

(* A host that keeps to the transport's rules, and an application that     *)
(* clears a halt.  A command that is answered with data asks for some; one *)
(* that has none asks for none; no range of blocks passes the end of a     *)
(* word.  The storage fails in a write only if the write is one packet:    *)
(* after a failure before the last packet the device takes the rest of the *)
(* data for an invalid command and waits for no other.                     *)
ConformingCommand(c) ==
    /\ c.op \in DataOps => c.dir = "in" /\ c.xfer > 0
    /\ c.op = "READ_10" /\ c.dir = "in" => c.xfer > 0
    /\ c.op \in {"VERIFY_10", "START_STOP_UNIT"} => c.xfer = 0
    /\ c.blk + c.n < Word
    /\ c.op = "WRITE10" /\ "WRITE10" \in MayFail => c.n * BlkSize <= MediaPacket

Conforming ==
    /\ Commands \subseteq CommandType /\ \A c \in Commands : ConformingCommand(c)
    /\ BlkNbr * BlkSize < Word /\ AppClears /\ FastBulk

VARIABLES
    bot,    \* g_BOTInfo, the variables of usbd_msc_scsi.c, and the two endpoints
    done,   \* transfers done and not yet handled: IN, OUT
    peer    \* the host's command: stage, tag, what it has got

botVars == <<bot, done, peer>>

Lesser(a, b) == IF a <= b THEN a ELSE b
SCSI_SENSE_LIST_NUMBER == 4
NoCommand == [op |-> "none", blk |-> 0, n |-> 0, xfer |-> 0, dir |-> "in"]

(* Unsigned division as the Cortex-M3 does it. *)
Quot(a, b) == IF b = 0 THEN 0 ELSE a \div b

-----------------------------------------------------------------------------
(* USBD_TxData and USBD_RxData *)
USBD_TxData(d, what, len, body) ==
    [d EXCEPT !.in = [st |-> "VALID", what |-> what, len |-> len, body |-> body]]
USBD_RxData(d, what, len) == [d EXCEPT !.out = [st |-> "VALID", what |-> what, len |-> len]]

ReceiveCBW(d) == USBD_RxData(d, "cbw", 31)

(* USBD_MSC_BOT_TxCSW *)
USBD_MSC_BOT_TxCSW(d, status) ==
    ReceiveCBW(USBD_TxData([d EXCEPT !.csw.status = status, !.state = "IDLE"], "csw", 13,
                           [d.csw EXCEPT !.status = status]))

(* USBD_MSC_BOT_TxData *)
USBD_MSC_BOT_TxData(d) ==
    LET len == Lesser(d.dataLen, d.cbw.xfer)
    IN  USBD_TxData([d EXCEPT !.csw.residue = @ - len, !.csw.status = "OK",
                              !.state = "SEND_DATA"], "data", len, d.data)

(* USBD_MSC_BOT_Stall *)
USBD_MSC_BOT_Stall(d) ==
    LET e == [d EXCEPT !.in.st = "STALL",
                       !.out.st = IF d.cbw.dir = "out" /\ d.cbw.xfer # 0 /\ d.status = "NORMAL"
                                  THEN "STALL" ELSE @]
    IN  IF d.status = "ERROR" THEN ReceiveCBW(e) ELSE e

-----------------------------------------------------------------------------
Next4(k) == (k + 1) % SCSI_SENSE_LIST_NUMBER

(* SCSI_PutSenseCode *)
SCSI_PutSenseCode(d, key) == [d EXCEPT !.sense[d.put] = key, !.put = Next4(d.put)]

Fail(d, key) == [SCSI_PutSenseCode(d, key) EXCEPT !.ret = FALSE]
Answer(d, len, data) == [d EXCEPT !.dataLen = len, !.data = data, !.ret = TRUE]

(* SCSI_TestUnitReady *)
SCSI_TestUnitReady(d, ready) ==
    CASE d.cbw.xfer # 0 -> Fail(d, "ILLEGAL_REQUEST")
      [] d.cbw.xfer = 0 /\ ~ready -> Fail(d, "NOT_READY")
      [] OTHER -> Answer(d, 0, << >>)

(* A faulty variant: the entry is not consumed. *)
RequestSenseKeep(d) ==
    Answer(d, 18, IF d.txc # d.put THEN <<d.sense[d.txc]>> ELSE <<"NO_SENSE">>)

(* SCSI_RequestSense: the oldest code not yet sent. *)
SCSI_RequestSense(d) ==
    IF d.txc # d.put
    THEN [Answer(d, 18, <<d.sense[d.txc]>>) EXCEPT !.txc = Next4(d.txc)]
    ELSE Answer(d, 18, <<"NO_SENSE">>)

(* SCSI_ReadCapacity10 is what sets s_blkNbr and s_blkSize; before it both *)
(* are 0.  SCSI_ReadFormatCapacity answers from variables of its own.      *)
SCSI_ReadCapacity10(d, ready) ==
    IF ready THEN [Answer(d, 8, << >>) EXCEPT !.nbr = BlkNbr, !.size = BlkSize]
    ELSE Fail(d, "NOT_READY")
SCSI_ReadFormatCapacity(d, ready) ==
    IF ready THEN Answer(d, 12, << >>) ELSE Fail(d, "NOT_READY")

(* SCSI_CheckAddress on the blocks of the command, in 32 bits. *)
InRange(d) == d.nbr >= (d.cbw.n + d.cbw.blk) % Word

BlocksOf(d, len) == [k \in 1..Quot(len, d.size) |-> Quot(d.addr, d.size) + k - 1]

(* A faulty variant: the address does not advance. *)
AdvanceSame(d, len) == [d EXCEPT !.len = @ - len, !.csw.residue = @ - len]
Advance(d, len) ==
    [d EXCEPT !.addr = (@ + len) % Word, !.len = @ - len, !.csw.residue = @ - len]

(* SCSI_Read: one media packet from the storage to the endpoint. *)
SCSI_Read(d, works) ==
    LET len == Lesser(MediaPacket, d.len)
        blocks == BlocksOf(d, len)
        e == Advance(USBD_TxData([d EXCEPT !.acc = @ \o blocks], "data", len, blocks), len)
    IN  IF works
        THEN [e EXCEPT !.ret = TRUE, !.state = IF e.len = 0 THEN "LAST_DATA_IN" ELSE @]
        ELSE Fail(d, "HARDWARE_ERROR")

(* SCSI_Write: one media packet from the endpoint to the storage. *)
SCSI_Write(d, works) ==
    LET len == Lesser(MediaPacket, d.len)
        e == Advance([d EXCEPT !.acc = @ \o BlocksOf(d, len), !.ret = TRUE], len)
    IN  CASE ~works -> Fail(d, "HARDWARE_ERROR")
          [] works /\ e.len > 0 -> USBD_RxData(e, "data", Lesser(MediaPacket, e.len))
          [] OTHER -> USBD_MSC_BOT_TxCSW(e, "OK")

(* s_blkAddr and s_blkLen in bytes; what a refused command, or VERIFY_10,  *)
(* leaves in them is not read before the next command sets them.           *)
Scale(d) == [d EXCEPT !.addr = (d.cbw.blk * d.size) % Word, !.len = (d.cbw.n * d.size) % Word]

(* The checks SCSI_Read10 and SCSI_Write10 make before they start. *)
Refusal(d, dir, ready) ==
    CASE d.cbw.dir # dir -> "ILLEGAL_REQUEST"
      [] d.cbw.dir = dir /\ ~ready -> "NOT_READY"
      [] d.cbw.dir = dir /\ ready /\ ~InRange(d) -> "OUT_OF_RANGE"
      [] OTHER -> "none"

(* SCSI_Read10: the command, then, from USBD_MSC_BOT_InData, each packet.  *)
(* The state is DATA_IN already when the length is found wrong.            *)
SCSI_Read10(d, ready, works) ==
    LET no == Refusal(d, "in", ready)
        e == [Scale(d) EXCEPT !.state = "DATA_IN"]
    IN  CASE d.state # "IDLE" -> SCSI_Read(d, works)
          [] d.state = "IDLE" /\ no # "none" -> Fail(d, no)
          [] d.state = "IDLE" /\ no = "none" /\ d.cbw.xfer # e.len -> Fail(e, "ILLEGAL_REQUEST")
          [] OTHER -> SCSI_Read(e, works)

(* SCSI_Write10 *)
SCSI_Write10(d, ready, works) ==
    LET no == Refusal(d, "out", ready)
        e == Scale(d)
    IN  CASE d.state # "IDLE" -> SCSI_Write(d, works)
          [] d.state = "IDLE" /\ no # "none" -> Fail(d, no)
          [] d.state = "IDLE" /\ no = "none" /\ d.cbw.xfer # e.len -> Fail(e, "ILLEGAL_REQUEST")
          [] OTHER -> [USBD_RxData(e, "data", Lesser(e.len, MediaPacket)) EXCEPT
                         !.state = "DATA_OUT", !.ret = TRUE]

(* SCSI_CmdHandler.  ready stands for CheckReady, ReadCapacity and         *)
(* CheckWPR, works for ReadData and WriteData.                             *)
SCSI_CmdHandler(d, ready, works) ==
    CASE d.cbw.op = "TEST_UNIT_READY" -> SCSI_TestUnitReady(d, ready)
      [] d.cbw.op = "INQUIRY" -> Answer(d, 36, << >>)
      [] d.cbw.op = "MODE_SENSE" -> Answer(d, 8, << >>)
      [] d.cbw.op = "REQUEST_SENSE" -> SCSI_RequestSense(d)
      [] d.cbw.op = "READ_FORMAT_CAPACITIES" -> SCSI_ReadFormatCapacity(d, ready)
      [] d.cbw.op = "READ_CAPACITY_10" -> SCSI_ReadCapacity10(d, ready)
      [] d.cbw.op = "READ_10" -> SCSI_Read10(d, ready, works)
      [] d.cbw.op = "WRITE10" -> SCSI_Write10(d, ready, works)
      [] d.cbw.op = "VERIFY_10" ->
             IF InRange(d) THEN Answer(d, 0, << >>) ELSE Fail(d, "OUT_OF_RANGE")
      [] d.cbw.op = "START_STOP_UNIT" -> Answer(d, 0, << >>)
      [] OTHER -> Fail(d, "ILLEGAL_REQUEST")

(* USBD_MSC_BOT_DecodeCBW.  A wrapper that is not valid is noted and       *)
(* neither stalled nor followed by a new receive.                          *)
USBD_MSC_BOT_DecodeCBW(d, ready, works) ==
    LET e == [d EXCEPT !.csw.tag = d.tag, !.csw.residue = d.cbw.xfer, !.acc = << >>]
        r == SCSI_CmdHandler(e, ready, works)
    IN  CASE d.cbw.op = "INVALID" ->
                 [SCSI_PutSenseCode(e, "ILLEGAL_REQUEST") EXCEPT !.status = "ERROR"]
          [] d.cbw.op # "INVALID" /\ ~r.ret -> USBD_MSC_BOT_Stall(r)
          [] d.cbw.op # "INVALID" /\ r.ret /\ r.state \in {"IDLE", "SEND_DATA"} ->
                 IF r.dataLen > 0 THEN USBD_MSC_BOT_TxData(r) ELSE USBD_MSC_BOT_TxCSW(r, "OK")
          [] OTHER -> r

(* USBD_MSC_BOT_OutData, when an OUT transfer is done. *)
USBD_MSC_BOT_OutData(d, ready, works) ==
    LET r == SCSI_CmdHandler(d, ready, works)
    IN  CASE d.state = "IDLE" -> USBD_MSC_BOT_DecodeCBW(d, ready, works)
          [] d.state = "DATA_OUT" -> IF r.ret THEN r ELSE USBD_MSC_BOT_TxCSW(r, "FAIL")
          [] OTHER -> d

(* A faulty variant: no status after the last of the blocks. *)
BOT_InDataNotLast(d, ready, works) ==
    LET r == SCSI_CmdHandler(d, ready, works)
    IN  CASE d.state = "DATA_IN" -> IF r.ret THEN r ELSE USBD_MSC_BOT_TxCSW(r, "FAIL")
          [] d.state = "SEND_DATA" -> USBD_MSC_BOT_TxCSW(d, "OK")
          [] OTHER -> d

(* USBD_MSC_BOT_InData, when an IN transfer is done. *)
USBD_MSC_BOT_InData(d, ready, works) ==
    LET r == SCSI_CmdHandler(d, ready, works)
    IN  CASE d.state = "DATA_IN" -> IF r.ret THEN r ELSE USBD_MSC_BOT_TxCSW(r, "FAIL")
          [] d.state \in {"SEND_DATA", "LAST_DATA_IN"} -> USBD_MSC_BOT_TxCSW(d, "OK")
          [] OTHER -> d

(* A faulty variant: the reset waits for no command. *)
BOT_ResetDeaf(d) == [d EXCEPT !.state = "IDLE", !.status = "RECOVERY"]

(* USBD_MSC_BOT_Reset, the class request BOT_RESET *)
USBD_MSC_BOT_Reset(d) == ReceiveCBW([d EXCEPT !.state = "IDLE", !.status = "RECOVERY"])

(* USBD_MSV_BOT_ClearFeatureHandler, if the application calls it. *)
USBD_MSV_BOT_ClearFeatureHandler(d, ep) ==
    CASE d.status = "ERROR" -> [d EXCEPT !.in.st = "NAK", !.status = "NORMAL"]
      [] d.status = "NORMAL" /\ ep = "in" -> USBD_MSC_BOT_TxCSW(d, "FAIL")
      [] OTHER -> d

-----------------------------------------------------------------------------
(* After USBD_MSC_BOT_Init *)
BotInit ==
    /\ bot = [state |-> "IDLE", status |-> "NORMAL", dataLen |-> 0, data |-> << >>,
              cbw |-> NoCommand, tag |-> 0, csw |-> [tag |-> 0, residue |-> 0, status |-> "OK"],
              addr |-> 0, len |-> 0, nbr |-> 0, size |-> 0, acc |-> << >>, ret |-> TRUE,
              sense |-> [k \in 0..SCSI_SENSE_LIST_NUMBER - 1 |-> "NO_SENSE"], put |-> 0, txc |-> 0,
              in |-> [st |-> "NAK", what |-> "none", len |-> 0, body |-> << >>],
              out |-> [st |-> "VALID", what |-> "cbw", len |-> 31]]
    /\ done = [in |-> FALSE, out |-> FALSE]
    /\ peer = [stage |-> "idle", tag |-> 0, cmd |-> NoCommand, got |-> 0, body |-> << >>,
               csw |-> [tag |-> 0, residue |-> 0, status |-> "OK"], due |-> "NO_SENSE"]

(* What the storage callbacks answer. *)
Storage(ready, works) ==
    /\ ~ready => "READY" \in MayFail
    /\ ~works => bot.cbw.op \in MayFail

(* USBD_LowPriorityProc for the bulk endpoint: OUT before IN. *)
Bulk_Out(ready, works) ==
    /\ done.out /\ Storage(ready, works)
    /\ done' = [done EXCEPT !.out = FALSE]
    /\ bot' = USBD_MSC_BOT_OutData(bot, ready, works)
    /\ UNCHANGED peer

Bulk_In(ready, works) ==
    /\ done.in /\ ~done.out /\ Storage(ready, works)
    /\ done' = [done EXCEPT !.in = FALSE]
    /\ bot' = USBD_MSC_BOT_InData(bot, ready, works)
    /\ UNCHANGED peer

Bulk == \E ready, works \in BOOLEAN : Bulk_Out(ready, works) \/ Bulk_In(ready, works)

-----------------------------------------------------------------------------
(* The host asks for the sense data after each failure. *)
NextCommand(c) == peer.due # "NO_SENSE" => c.op = "REQUEST_SENSE"

DataStage(c) == IF c.xfer = 0 THEN "csw" ELSE IF c.dir = "in" THEN "dataIn" ELSE "dataOut"

Host_SendCBW(c) ==
    /\ peer.stage = "idle" /\ peer.tag < MaxCommands /\ NextCommand(c)
    /\ bot.out.st = "VALID" /\ ~done.out /\ (FastBulk => ~done.in)
    /\ peer' = [peer EXCEPT !.stage = DataStage(c), !.tag = @ + 1, !.cmd = c, !.got = 0,
                            !.body = << >>]
    /\ bot' = [bot EXCEPT !.out.st = "NAK", !.cbw = c, !.tag = peer.tag + 1]
    /\ done' = [done EXCEPT !.out = TRUE]

(* A transfer of data; to a device that waits for a CBW it is not a valid  *)
(* one.                                                                    *)
Host_DataOut ==
    /\ peer.stage = "dataOut" /\ bot.out.st = "VALID"
    /\ LET got == Lesser(peer.cmd.xfer, peer.got + MediaPacket)
       IN  peer' = [peer EXCEPT !.got = got,
                                !.stage = IF got = peer.cmd.xfer THEN "csw" ELSE @]
    /\ bot' = [bot EXCEPT !.out.st = "NAK",
                          !.cbw.op = IF bot.out.what = "cbw" THEN "INVALID" ELSE @]
    /\ done' = [done EXCEPT !.out = TRUE]

(* The data stage ends with the last byte or with a short packet: an       *)
(* answer other than blocks, or a CSW the host takes for data.             *)
Host_DataIn ==
    /\ peer.stage = "dataIn" /\ bot.in.st = "VALID"
    /\ LET got == peer.got + bot.in.len
           short == bot.in.what = "csw" \/ peer.cmd.op # "READ_10" \/ bot.in.len = 0
       IN  peer' = [peer EXCEPT !.got = got,
                                !.body = IF bot.in.what = "csw" THEN @ ELSE @ \o bot.in.body,
                                !.stage = IF short \/ got >= peer.cmd.xfer THEN "csw" ELSE @]
    /\ bot' = [bot EXCEPT !.in.st = "NAK"]
    /\ done' = [done EXCEPT !.in = TRUE]

Why(csw) == IF csw.status = "OK" THEN "NO_SENSE" ELSE bot.sense[(bot.put + 3) % 4]

(* A status wrapper with the tag of the command ends it; anything else     *)
(* makes the host reset the transport.                                     *)
Host_TakeCSW ==
    /\ peer.stage = "csw" /\ bot.in.st = "VALID"
    /\ peer' = IF bot.in.what = "csw" /\ bot.in.body.tag = peer.tag
               THEN [peer EXCEPT !.stage = "idle", !.csw = bot.in.body, !.due = Why(bot.in.body)]
               ELSE [peer EXCEPT !.stage = "recover"]
    /\ bot' = [bot EXCEPT !.in.st = "NAK"]
    /\ done' = [done EXCEPT !.in = TRUE]

EpMet == IF peer.stage = "dataOut" THEN bot.out.st ELSE bot.in.st

(* A stall: CLEAR_FEATURE for the endpoint, then the status.  The library  *)
(* itself answers CLEAR_FEATURE with a stall (USBD_StandardClearFeature).  *)
Unstall(d, ep) ==
    IF ~AppClears THEN d
    ELSE USBD_MSV_BOT_ClearFeatureHandler(
             IF ep = "in" THEN [d EXCEPT !.in.st = IF @ = "STALL" THEN "NAK" ELSE @]
             ELSE [d EXCEPT !.out.st = IF @ = "STALL" THEN "NAK" ELSE @], ep)

Host_ClearHalt ==
    /\ peer.stage \in {"dataIn", "dataOut", "csw"} /\ EpMet = "STALL"
    /\ bot' = Unstall(bot, IF peer.stage = "dataOut" THEN "out" ELSE "in")
    /\ peer' = [peer EXCEPT !.stage = IF AppClears THEN "csw" ELSE "recover"]
    /\ UNCHANGED done

Host_Timeout ==
    /\ peer.stage \in {"dataIn", "dataOut", "csw"} /\ EpMet = "NAK" /\ ~done.in /\ ~done.out
    /\ peer' = [peer EXCEPT !.stage = "recover"]
    /\ UNCHANGED <<bot, done>>

(* Reset recovery: BOT_RESET, then CLEAR_FEATURE for both endpoints. *)
Host_Recover ==
    /\ peer.stage = "recover" /\ ~done.in /\ ~done.out
    /\ bot' = Unstall(Unstall(USBD_MSC_BOT_Reset(bot), "in"), "out")
    /\ peer' = [peer EXCEPT !.stage = "idle", !.due = bot.sense[(bot.put + 3) % 4],
                            !.csw = [tag |-> 0, residue |-> 0, status |-> "RESET"]]
    /\ UNCHANGED done

HostNext == Host_DataOut \/ Host_DataIn \/ Host_TakeCSW \/ Host_ClearHalt \/ Host_Timeout \/ Host_Recover

BotNext == Bulk \/ HostNext \/ \E c \in Commands : Host_SendCBW(c)

BotSpec == BotInit /\ [][BotNext]_botVars /\ WF_botVars(Bulk) /\ WF_botVars(HostNext)

-----------------------------------------------------------------------------
(* The type of the state. *)
BotTypeOK ==
    /\ bot.state \in {"IDLE", "DATA_OUT", "DATA_IN", "LAST_DATA_IN", "SEND_DATA"}
    /\ bot.status \in {"NORMAL", "RECOVERY", "ERROR"}
    /\ {bot.in.st, bot.out.st} \subseteq {"NAK", "VALID", "STALL"}
    /\ bot.addr \in 0..Word - 1 /\ bot.len \in 0..Word - 1
    /\ bot.put \in 0..SCSI_SENSE_LIST_NUMBER - 1 /\ bot.txc \in 0..SCSI_SENSE_LIST_NUMBER - 1
    /\ bot.csw.residue \in Int /\ peer.got \in Nat
    /\ peer.stage \in {"idle", "dataIn", "dataOut", "csw", "recover"}

Answered == peer.stage = "idle" /\ peer.csw.tag = peer.tag /\ peer.tag > 0
Asked(c) == [k \in 1..c.n |-> c.blk + k - 1]

Moved == IF peer.cmd.op = "WRITE10" THEN Len(bot.acc) * BlkSize ELSE peer.got

(* The status tells the truth: the residue is what did not reach the host  *)
(* or the medium, and after an OK the storage was asked for exactly the    *)
(* blocks of the command, in order, and a read has delivered them.         *)
CswTrue ==
    Answered =>
        /\ peer.csw.residue = peer.cmd.xfer - Moved
        /\ (peer.csw.status = "OK" /\ peer.cmd.op \in {"READ_10", "WRITE10"}) =>
               /\ bot.acc = Asked(peer.cmd)
               /\ peer.cmd.op = "READ_10" => peer.body = Asked(peer.cmd)

(* A host that asks for the sense data after each failure is told of that  *)
(* failure, however often the ring of four codes has gone round.  (After a *)
(* reset of the transport it cannot know which failure was the last.)      *)
SenseTold ==
    (peer.stage = "csw" /\ peer'.stage = "idle" /\ peer.cmd.op = "REQUEST_SENSE"
        /\ peer'.csw.status = "OK" /\ bot.status = "NORMAL") => peer.body = <<peer.due>>
SenseCurrent == [][SenseTold]_botVars

(* Every command is answered with a status wrapper of its own, without     *)
(* a reset of the transport.                                               *)
EveryCommandAnswered == \A t \in 1..MaxCommands : (peer.tag = t) ~> (peer.csw.tag = t)

(* Between two commands the device waits for the next one, also after a    *)
(* command that had to be ended by a reset.                                *)
ReadyForNext ==
    (peer.stage = "idle" /\ ~done.in /\ ~done.out) =>
        bot.state = "IDLE" /\ bot.out.st = "VALID" /\ bot.out.what = "cbw"
=============================================================================
