-------------------------- MODULE UsbCdcSendProofs --------------------------
(***************************************************************************)
(* The CDC send path, for every packet size, every set of message lengths  *)
(* and every number of losses and exchanges of the device: every byte of   *)
(* every message reaches the device exactly once and in order.             *)
(*                                                                         *)
(* The argument is the alternating bit.  The host's toggle differs from    *)
(* the device's exactly while the device has taken a packet the host does  *)
(* not yet know of; then the packet that is sent again is the same packet, *)
(* and the device drops it.                                                *)
(***************************************************************************)
EXTENDS UsbCdcSend, SequenceTheorems, TLAPS

Byte == Nat \X Nat
PacketLen == IF tx.dataLen > MaxPackSize THEN MaxPackSize ELSE tx.dataLen

TxType == [state : {"IDIE", "SEND_DATA", "SEND_WAIT", "COMPLETE"},
           off : Nat, dataLen : Nat, len : Nat]
PipeType == [urb : {"IDLE", "OK", "STALL", "ERROR", "NOREADY"},
             state : {"OK", "STALL", "XACTERR", "NAK"}, toggle : {0, 1}]
ChanType == [on : BOOLEAN, pid : {0, 1}, data : Seq(Byte),
             flag : {"none", "done", "stall", "err", "nak", "halted"}]
DevType == [expects : {0, 1}, got : Seq(Byte), halted : BOOLEAN]
SentType == [count : Nat, last : Nat, before : Seq(Byte)]

SendType ==
    /\ tx \in TxType /\ tpipe \in PipeType /\ tchan \in ChanType /\ tdev \in DevType
    /\ tpc \in {"poll", "enable", "return"} /\ sent \in SentType

(* Lengths fit the 16 bits of dataLen, and a packet its endpoint. *)
SizesInv == tx.dataLen < 65536 /\ tx.len <= MaxPackSize

Sending == tx.state \in {"SEND_DATA", "SEND_WAIT"}
Started == tx.state = "SEND_WAIT" \/ tpc = "return"   \* the channel was enabled for this packet
Agreed == tpipe.toggle = tdev.expects
Got(n) == tdev.got = BytesUpTo(n)

(* Where the application can be, and when the channel is at work. *)
PlaceInv ==
    /\ tpc # "poll" => tx.state = "SEND_DATA"
    /\ ~Started => ~tchan.on /\ tchan.flag = "none"
    /\ tchan.on => tchan.flag = "none"
    /\ tchan.on \/ tchan.flag # "none" \/ tpc = "enable" => tpipe.urb = "IDLE"

(* The packet is the next piece of the message, also when it is sent again. *)
PacketInv ==
    /\ Sending => tx.off + tx.dataLen = sent.last
    /\ Sending /\ (Started \/ tpc = "enable" \/ ~Agreed) => tx.len = PacketLen
    /\ tchan.on => tchan.pid = tpipe.toggle /\ tchan.data = Bytes(sent.count, tx.off, tx.len)

(* What the device has, by the two toggles. *)
ToggleInv ==
    /\ ~Sending => Agreed /\ Got(sent.last)
    /\ Sending /\ Started /\ tpipe.urb = "OK" => Agreed /\ Got(tx.off + tx.len)
    /\ Sending /\ ~(Started /\ tpipe.urb = "OK") =>
           (Agreed => Got(tx.off)) /\ (~Agreed => Got(tx.off + tx.len))
    /\ tchan.flag = "done" \/ (tchan.flag = "halted" /\ tpipe.state = "OK") => ~Agreed

SendInv == SendType /\ SizesInv /\ PlaceInv /\ PacketInv /\ ToggleInv

-----------------------------------------------------------------------------
(* Pieces of a message. *)

LEMMA BytesType ==
    ASSUME NEW k \in Nat, NEW from \in Nat, NEW n \in Nat
    PROVE  /\ Bytes(k, from, n) \in Seq(Byte) /\ Len(Bytes(k, from, n)) = n
           /\ \A i \in 1..n : Bytes(k, from, n)[i] = <<k, from + i>>
  BY DEF Bytes, Byte

LEMMA BytesFromStart ==
    ASSUME NEW k \in Nat, NEW n \in Nat, NEW i \in 1..n
    PROVE  Bytes(k, 0, n)[i] = <<k, i>>
  <1>1. Bytes(k, 0, n)[i] = <<k, 0 + i>>
    BY Zenon DEF Bytes
  <1>2. 0 + i = i
    OBVIOUS
  <1>3. QED
    BY <1>1, <1>2, Zenon

(* A piece and the one after it are one piece. *)
LEMMA BytesConcat ==
    ASSUME NEW k \in Nat, NEW a \in Nat, NEW b \in Nat
    PROVE  Bytes(k, 0, a) \o Bytes(k, a, b) = Bytes(k, 0, a + b)
  <1> DEFINE s == Bytes(k, 0, a)
             t == Bytes(k, a, b)
             w == Bytes(k, 0, a + b)
  <1>1. s \in Seq(Byte) /\ Len(s) = a /\ \A i \in 1..a : s[i] = <<k, i>>
    BY BytesType, BytesFromStart
  <1>2. t \in Seq(Byte) /\ Len(t) = b /\ \A i \in 1..b : t[i] = <<k, a + i>>
    BY BytesType
  <1>3. w \in Seq(Byte) /\ Len(w) = a + b /\ \A i \in 1..(a + b) : w[i] = <<k, i>>
    BY BytesType, BytesFromStart, a + b \in Nat
  <1> HIDE DEF s, t, w
  <1>4. s \o t \in Seq(Byte) /\ Len(s \o t) = a + b
    BY <1>1, <1>2
  <1>5. ASSUME NEW i \in 1..(a + b) PROVE (s \o t)[i] = w[i]
    <2>0. i \in Nat /\ (i <= a \/ i > a)
      OBVIOUS
    <2>1. CASE i <= a
      <3>1. (s \o t)[i] = s[i] /\ i \in 1..a
        BY <1>1, <1>2, <2>1
      <3>2. s[i] = <<k, i>> /\ w[i] = <<k, i>>
        BY <1>1, <1>3, <3>1, Zenon
      <3>3. QED
        BY <3>1, <3>2, Zenon
    <2>2. CASE i > a
      <3>1. (s \o t)[i] = t[i - a] /\ i - a \in 1..b
        BY <1>1, <1>2, <2>2
      <3>2. t[i - a] = <<k, i>>
        BY <1>2, <3>1
      <3>3. QED
        BY <1>3, <3>1, <3>2, Zenon
    <2>3. QED
      BY <2>0, <2>1, <2>2, Zenon
  <1>6. s \o t = w
    BY <1>3, <1>4, <1>5, SeqEqual
  <1>7. QED
    BY <1>6 DEF s, t, w

LEMMA Associative ==
    ASSUME NEW s \in Seq(Byte), NEW t \in Seq(Byte), NEW w \in Seq(Byte)
    PROVE  (s \o t) \o w = s \o (t \o w)
  BY ConcatAssociative

(* A packet added to what the device has. *)
LEMMA UpToExtends ==
    ASSUME SendType, NEW a \in Nat, NEW b \in Nat
    PROVE  BytesUpTo(a) \o Bytes(sent.count, a, b) = BytesUpTo(a + b)
  <1>1. sent.before \in Seq(Byte) /\ sent.count \in Nat
    BY DEF SendType, SentType
  <1>2. Bytes(sent.count, 0, a) \in Seq(Byte) /\ Bytes(sent.count, a, b) \in Seq(Byte)
    BY <1>1, BytesType
  <1>3. (sent.before \o Bytes(sent.count, 0, a)) \o Bytes(sent.count, a, b)
            = sent.before \o (Bytes(sent.count, 0, a) \o Bytes(sent.count, a, b))
    BY <1>1, <1>2, Associative
  <1>4. QED
    BY <1>1, <1>3, BytesConcat DEF BytesUpTo

(* An empty piece adds nothing. *)
LEMMA UpToNothing ==
    ASSUME NEW s \in Seq(Byte), NEW k
    PROVE  s \o Bytes(k, 0, 0) = s
  <1>1. Bytes(k, 0, 0) = <<>>
    BY DEF Bytes
  <1>2. QED
    BY <1>1, ConcatEmptySeq

-----------------------------------------------------------------------------
(* The type. *)

LEMMA LengthNat ==
    ASSUME UsbCdcSendAssumption, NEW n \in Lengths
    PROVE  n \in Nat /\ n < 65536
  BY DEF UsbCdcSendAssumption

LEMMA TookType ==
    ASSUME SendType
    PROVE  Took(tdev) \in DevType
  <1>1. tdev.got \o tchan.data \in Seq(Byte) /\ 1 - tdev.expects \in {0, 1}
    BY DEF SendType, ChanType, DevType
  <1>2. tdev \in DevType
    BY DEF SendType
  <1>3. QED
    BY <1>1, <1>2, Zenon DEF Took, DevType

LEMMA EndsType ==
    ASSUME SendType, NEW flag \in {"done", "stall", "err", "nak"}, BulkEnds(flag)
    PROVE  tchan' \in ChanType
  BY Zenon DEF SendType, BulkEnds, ChanType

(* The state a device starts with. *)
LEMMA StartType ==
    /\ IdleTx \in TxType /\ FreeBulkPipe \in PipeType /\ OffChan \in ChanType
    /\ NewDev \in DevType /\ NothingSent \in SentType
  <1>1. 0 \in Nat /\ <<>> \in Seq(Byte) /\ 0 \in {0, 1}
    OBVIOUS
  <1>2. QED
    BY <1>1, Zenon DEF IdleTx, FreeBulkPipe, OffChan, NewDev, NothingSent, TxType, PipeType,
                       ChanType, DevType, SentType

(* Every step keeps the type. *)
LEMMA TypeStep ==
    ASSUME UsbCdcSendAssumption, SendType, PacketInv, SendNext
    PROVE  SendType'
  <1>0. /\ tx \in TxType /\ tpipe \in PipeType /\ tchan \in ChanType /\ tdev \in DevType
        /\ tpc \in {"poll", "enable", "return"} /\ sent \in SentType
    BY DEF SendType
  <1>00. SUFFICES /\ tx' \in TxType /\ tpipe' \in PipeType /\ tchan' \in ChanType
                  /\ tdev' \in DevType /\ tpc' \in {"poll", "enable", "return"}
                  /\ sent' \in SentType
    BY DEF SendType
  <1>1. ASSUME NEW n \in Lengths, CDC_SendData(n) PROVE tx' \in TxType /\ sent' \in SentType
    <2>1. n \in Nat /\ 0 \in Nat
      BY LengthNat
    <2>2. tx' \in TxType
      BY <1>0, <1>1, <2>1, Zenon DEF CDC_SendData, TxType
    <2>3. sent.count + 1 \in Nat /\ sent.last \in Nat /\ sent.count \in Nat
          /\ sent.before \in Seq(Byte)
      BY <1>0 DEF SentType
    <2>4. BytesUpTo(sent.last) \in Seq(Byte)
      <3>1. Bytes(sent.count, 0, sent.last) \in Seq(Byte)
        BY <2>1, <2>3, BytesType
      <3>2. QED
        BY <2>3, <3>1, ConcatProperties DEF BytesUpTo
    <2>5. QED
      BY <1>1, <2>1, <2>2, <2>3, <2>4, Zenon DEF CDC_SendData, SentType
  <1>2. CASE ProcessSend_Data
    <2>1. PacketLen \in Nat
      BY <1>0 DEF PacketLen, UsbCdcSendAssumption, TxType
    <2>2. tx' \in TxType
      BY <1>0, <1>2, <2>1, Zenon DEF ProcessSend_Data, TxType, PacketLen
    <2>3. tpipe' \in PipeType
      BY <1>0, <1>2, Zenon DEF ProcessSend_Data, PipeType
    <2>4. QED
      BY <1>0, <1>2, <2>2, <2>3 DEF ProcessSend_Data
  <1>3. CASE BulkOut_Enable
    <2>1. Bytes(sent.count, tx.off, tx.len) \in Seq(Byte)
      BY <1>0, BytesType DEF TxType, SentType
    <2>2. tpipe.toggle \in {0, 1}
      BY <1>0 DEF PipeType
    <2>3. tchan' \in ChanType
      BY <1>0, <1>3, <2>1, <2>2, Zenon DEF BulkOut_Enable, ChanType
    <2>4. QED
      BY <1>0, <1>3, <2>3 DEF BulkOut_Enable
  <1>4. CASE BulkOut_Return
    <2>1. tx' \in TxType
      BY <1>0, <1>4, Zenon DEF BulkOut_Return, TxType
    <2>2. QED
      BY <1>0, <1>4, <2>1 DEF BulkOut_Return, AfterEnable
  <1>5. CASE ProcessSend_Wait
    <2>1. tx.off + tx.len \in Nat
      BY <1>0 DEF TxType
    <2>2. tx.dataLen - tx.len \in Nat
      BY <1>0, <1>5 DEF TxType, ProcessSend_Wait, PacketInv, Sending, Started, PacketLen,
                        UsbCdcSendAssumption
    <2>3. tx' \in TxType
      BY <1>0, <1>5, <2>1, <2>2, Zenon DEF ProcessSend_Wait, TxType
    <2>4. QED
      BY <1>0, <1>5, <2>3 DEF ProcessSend_Wait
  <1>6. CASE CDC_DisableSend
    <2>1. tx' \in TxType
      BY <1>0, <1>6, Zenon DEF CDC_DisableSend, TxType
    <2>2. QED
      BY <1>0, <1>6, <2>1 DEF CDC_DisableSend
  <1>7. CASE Isr_Event
    <2>1. BulkState[tchan.flag] \in {"OK", "STALL", "XACTERR", "NAK"}
      BY <1>7 DEF Isr_Event, BulkState
    <2>2. tpipe' \in PipeType /\ tchan' \in ChanType
      BY <1>0, <1>7, <2>1, Zenon DEF Isr_Event, PipeType, ChanType
    <2>3. QED
      BY <1>0, <1>7, <2>2 DEF Isr_Event
  <1>8. CASE Isr_Halted
    <2>1. BulkUrb[tpipe.state] \in {"IDLE", "OK", "STALL", "ERROR", "NOREADY"}
          /\ 1 - tpipe.toggle \in {0, 1}
      BY <1>0 DEF BulkUrb, PipeType
    <2>2. tpipe' \in PipeType
      BY <1>0, <1>8, <2>1, Zenon DEF Isr_Halted, Completed, PipeType
    <2>3. tchan' \in ChanType
      BY <1>0, <1>8, Zenon DEF Isr_Halted, ChanType
    <2>4. QED
      BY <1>0, <1>8, <2>2, <2>3 DEF Isr_Halted
  <1>9. CASE BulkAnswer
    <2>1. tchan' \in ChanType
      BY <1>9, EndsType, Zenon DEF BulkAnswer
    <2>2. tdev' \in DevType
      BY <1>0, <1>9, TookType, Zenon DEF BulkAnswer
    <2>3. QED
      BY <1>0, <1>9, <2>1, <2>2 DEF BulkAnswer
  <1>10. CASE Lose
    <2>1. tchan' \in ChanType
      BY <1>10, EndsType, Zenon DEF Lose
    <2>2. [tdev EXCEPT !.halted = TRUE] \in DevType
      BY <1>0, Zenon DEF DevType
    <2>3. tdev' \in DevType
      BY <1>0, <1>10, <2>2, TookType DEF Lose
    <2>4. QED
      BY <1>0, <1>10, <2>1, <2>3 DEF Lose
  <1>11. CASE Replug
    <2>1. tx.len \in Nat
      BY <1>0 DEF TxType
    <2>2. tx' \in TxType
      BY <1>11, <2>1, StartType, Zenon DEF Replug, TxType
    <2>3. QED
      BY <1>0, <1>11, <2>2, StartType DEF Replug
  <1>12. QED
    BY <1>0, <1>1, <1>2, <1>3, <1>4, <1>5, <1>6, <1>7, <1>8, <1>9, <1>10, <1>11
    DEF SendNext, App, BulkIsr, CDC_SendData

USE DEF TxType, PipeType, ChanType, DevType, SentType   \* from here on

-----------------------------------------------------------------------------
(* The parts of the invariant, each action by action. *)

(* The channel works only for the packet that was started. *)
LEMMA PlaceStep ==
    ASSUME SendType, PlaceInv, SendNext
    PROVE  PlaceInv'
  <1> USE DEF SendType, PlaceInv, Started
  <1>1. ASSUME NEW n \in Lengths, CDC_SendData(n) PROVE PlaceInv'
    BY <1>1 DEF CDC_SendData, InApp
  <1>2. CASE ProcessSend_Data
    BY <1>2 DEF ProcessSend_Data, InApp
  <1>3. CASE BulkOut_Enable
    BY <1>3 DEF BulkOut_Enable, InApp
  <1>4. CASE BulkOut_Return
    BY <1>4 DEF BulkOut_Return, InApp, AfterEnable
  <1>5. CASE ProcessSend_Wait
    BY <1>5 DEF ProcessSend_Wait, InApp
  <1>6. CASE CDC_DisableSend
    BY <1>6 DEF CDC_DisableSend, InApp
  <1>7. CASE Isr_Event
    BY <1>7 DEF Isr_Event, BulkState
  <1>8. CASE Isr_Halted
    BY <1>8 DEF Isr_Halted, Completed, BulkUrb
  <1>9. CASE BulkAnswer
    BY <1>9 DEF BulkAnswer, BulkEnds, Took
  <1>10. CASE Lose
    BY <1>10 DEF Lose, BulkEnds, Took
  <1>11. CASE Replug
    BY <1>11 DEF Replug, InApp, IdleTx, FreeBulkPipe, OffChan, NewDev, NothingSent
  <1>12. QED
    BY <1>1, <1>2, <1>3, <1>4, <1>5, <1>6, <1>7, <1>8, <1>9, <1>10, <1>11
    DEF SendNext, App, BulkIsr

(* A packet is sent again as it was. *)
LEMMA PacketStep ==
    ASSUME UsbCdcSendAssumption, SendType, SendType', SizesInv, PlaceInv, PacketInv, ToggleInv, SendNext
    PROVE  PacketInv'
  <1> USE DEF SendType, 
             PlaceInv, PacketInv, ToggleInv, Started, Sending, Agreed, PacketLen
  <1>1. ASSUME NEW n \in Lengths, CDC_SendData(n) PROVE PacketInv'
    <2>1. n \in Nat
      BY <1>1, LengthNat
    <2>2. /\ tx'.state = "SEND_DATA" /\ tx'.off = 0 /\ tx'.dataLen = n /\ sent'.last = n
          /\ tpc = "poll" /\ tpc' = tpc /\ tx.state = "IDIE"
          /\ UNCHANGED <<tpipe, tchan, tdev>>
      BY <1>1 DEF CDC_SendData, InApp
    <2>3. QED
      BY <2>1, <2>2
  <1>2. CASE ProcessSend_Data
    BY <1>2 DEF ProcessSend_Data, InApp
  <1>3. CASE BulkOut_Enable
    BY <1>3 DEF BulkOut_Enable, InApp
  <1>4. CASE BulkOut_Return
    BY <1>4 DEF BulkOut_Return, InApp, AfterEnable
  <1>5. CASE ProcessSend_Wait
    BY <1>5 DEF ProcessSend_Wait, InApp
  <1>6. CASE CDC_DisableSend
    BY <1>6 DEF CDC_DisableSend, InApp
  <1>7. CASE Isr_Event
    BY <1>7 DEF Isr_Event, BulkState
  <1>8. CASE Isr_Halted
    BY <1>8 DEF Isr_Halted, Completed, BulkUrb
  <1>9. CASE BulkAnswer
    BY <1>9, ZenonT(30) DEF BulkAnswer, BulkEnds, Took
  <1>10. CASE Lose
    BY <1>10, ZenonT(30) DEF Lose, BulkEnds, Took
  <1>11. CASE Replug
    BY <1>11 DEF Replug, InApp, IdleTx, FreeBulkPipe, OffChan, NewDev, NothingSent
  <1>12. QED
    BY <1>1, <1>2, <1>3, <1>4, <1>5, <1>6, <1>7, <1>8, <1>9, <1>10, <1>11
    DEF SendNext, App, BulkIsr

LEMMA EndsFlag ==
    ASSUME SendType, NEW flag, BulkEnds(flag)
    PROVE  tchan'.flag = flag
  BY DEF SendType, BulkEnds

(* The device has what it should: the device's toggle turns when it takes  *)
(* a packet, the host's when it learns of it.                              *)
LEMMA ToggleStep ==
    ASSUME UsbCdcSendAssumption, SendType, SendType', PlaceInv, PacketInv, ToggleInv, SendNext
    PROVE  ToggleInv'
  <1> USE DEF ToggleInv, Sending, Started, Agreed, Got
  <1>0. /\ tx.off \in Nat /\ tx.len \in Nat /\ tx.dataLen \in Nat /\ sent.last \in Nat
        /\ tpipe.toggle \in {0, 1} /\ tdev.expects \in {0, 1}
    BY DEF SendType
  <1>1. ASSUME NEW n \in Lengths, CDC_SendData(n) PROVE ToggleInv'
    <2>1. BytesUpTo(0)' = BytesUpTo(sent.last)
      <3>1. sent'.before \in Seq(Byte)
        BY DEF SendType
      <3>2. BytesUpTo(0)' = sent'.before
        BY <3>1, UpToNothing DEF BytesUpTo
      <3>3. QED
        BY <1>1, <3>2 DEF CDC_SendData
    <2>2. /\ tx.state = "IDIE" /\ tx'.state = "SEND_DATA" /\ tx'.off = 0 /\ tpc' = "poll"
          /\ UNCHANGED <<tpipe, tchan, tdev>> /\ tchan.flag = "none"
      BY <1>1 DEF CDC_SendData, InApp, SendType
    <2>3. QED
      BY <2>1, <2>2
  <1>2. CASE ProcessSend_Data
    <2>1. /\ tx'.state = "SEND_DATA" /\ tx.state = "SEND_DATA" /\ tx'.off = tx.off /\ tpc = "poll"
          /\ tpc' = "enable" /\ UNCHANGED <<tchan, tdev, sent>> /\ tx'.len = PacketLen
          /\ tpipe'.toggle = tpipe.toggle /\ tpipe'.state = tpipe.state /\ tchan.flag = "none"
      BY <1>2 DEF ProcessSend_Data, InApp, SendType, PacketLen
    <2>2. ~Agreed => tx'.len = tx.len
      BY <2>1 DEF PacketInv
    <2>3. QED
      BY <2>1, <2>2 DEF BytesUpTo
  <1>3. CASE BulkOut_Enable
    BY <1>3 DEF BulkOut_Enable, InApp, SendType, PlaceInv, BytesUpTo
  <1>4. CASE BulkOut_Return
    BY <1>4 DEF BulkOut_Return, AfterEnable, InApp, SendType, PlaceInv, BytesUpTo
  <1>5. CASE ProcessSend_Wait
    <2>1. /\ tx.state = "SEND_WAIT" /\ tpipe.urb # "IDLE" /\ tchan.flag = "none" /\ tpc = "poll"
          /\ UNCHANGED <<tpipe, tchan, tdev, tpc, sent>>
      BY <1>5 DEF ProcessSend_Wait, InApp
    <2>2. CASE tpipe.urb = "OK"
      <3>1. /\ tx'.off = tx.off + tx.len
            /\ tx'.state = IF tx.dataLen = tx.len THEN "COMPLETE" ELSE "SEND_DATA"
        BY <1>5, <2>2 DEF ProcessSend_Wait, SendType
      <3>2. tx.off + tx.dataLen = sent.last
        BY <2>1 DEF PacketInv
      <3>3. QED
        BY <2>1, <2>2, <3>1, <3>2 DEF BytesUpTo
    <2>3. CASE tpipe.urb # "OK"
      <3>1. tx'.state = "SEND_DATA" /\ tx'.off = tx.off /\ tx'.len = tx.len
        BY <1>5, <2>3 DEF ProcessSend_Wait, SendType
      <3>2. QED
        BY <2>1, <2>3, <3>1 DEF BytesUpTo
    <2>4. QED
      BY <2>2, <2>3
  <1>6. CASE CDC_DisableSend
    BY <1>6 DEF CDC_DisableSend, InApp, SendType, BytesUpTo
  <1>7. CASE Isr_Event
    BY <1>7 DEF Isr_Event, BulkState, SendType, PlaceInv, BytesUpTo
  <1>8. CASE Isr_Halted
    <2>1. /\ tchan.flag = "halted" /\ tchan'.flag = "none" /\ UNCHANGED <<tx, tdev, tpc, sent>>
          /\ tpipe'.toggle = IF tpipe.state = "OK" THEN 1 - tpipe.toggle ELSE tpipe.toggle
          /\ tpipe'.urb = "OK" <=> tpipe.state = "OK"
      BY <1>8 DEF Isr_Halted, Completed, BulkUrb, SendType
    <2>2. Started /\ tpipe.urb = "IDLE" /\ Sending
      BY <2>1 DEF PlaceInv
    <2>3. CASE tpipe.state = "OK"
      <3>1. ~Agreed /\ Got(tx.off + tx.len) /\ Agreed'
        BY <1>0, <2>1, <2>2, <2>3
      <3>2. QED
        BY <2>1, <2>2, <2>3, <3>1 DEF BytesUpTo
    <2>4. CASE tpipe.state # "OK"
      BY <1>0, <2>1, <2>2, <2>4 DEF BytesUpTo
    <2>5. QED
      BY <2>3, <2>4
  <1>9. ASSUME tchan.on, UNCHANGED <<tx, tpipe, tpc, sent>>, tdev' \in {tdev, Took(tdev)},
               tchan'.flag # "halted", tchan'.flag = "done" => tdev' = Took(tdev)
        PROVE  ToggleInv'
    <2>1. Started /\ tpipe.urb = "IDLE" /\ Sending /\ tchan.pid = tpipe.toggle
      BY <1>9 DEF PlaceInv, PacketInv
    <2>2. (Agreed => Got(tx.off)) /\ (~Agreed => Got(tx.off + tx.len))
      BY <2>1, Zenon
    <2>3. CASE tdev' = Took(tdev)
      <3>1. CASE Agreed
        <4>1. tdev'.expects = 1 - tdev.expects /\ tdev'.got = tdev.got \o tchan.data
          BY <2>1, <2>3, <3>1 DEF Took, SendType
        <4>2. tdev'.got = BytesUpTo(tx.off) \o Bytes(sent.count, tx.off, tx.len)
          BY <1>9, <2>2, <3>1, <4>1 DEF PacketInv
        <4>3. tdev'.got = BytesUpTo(tx.off + tx.len)
          BY <1>0, <4>2, UpToExtends
        <4>4. ~Agreed'
          BY <1>0, <1>9, <3>1, <4>1
        <4>5. QED
          BY <1>9, <2>1, <4>3, <4>4 DEF BytesUpTo
      <3>2. CASE ~Agreed
        <4>1. tdev' = tdev
          BY <2>1, <2>3, <3>2 DEF Took
        <4>2. QED
          BY <1>9, <2>1, <2>2, <3>2, <4>1 DEF BytesUpTo
      <3>3. QED
        BY <3>1, <3>2
    <2>4. CASE tdev' = tdev /\ tdev' # Took(tdev)
      BY <1>9, <2>1, <2>2, <2>4 DEF BytesUpTo
    <2>5. QED
      BY <1>9, <2>3, <2>4
  <1>10. CASE BulkAnswer
    <2>1. /\ tchan.on /\ UNCHANGED <<tx, tpipe, tpc, sent>> /\ tdev' \in {tdev, Took(tdev)}
          /\ tchan'.flag = "stall" \/ (tchan'.flag = "done" /\ tdev' = Took(tdev))
      BY <1>10, EndsFlag, Zenon DEF BulkAnswer
    <2>2. QED
      BY <1>9, <2>1
  <1>11. CASE Lose
    <2>1. tchan.on /\ UNCHANGED <<tx, tpipe, tpc, sent>>
      BY <1>11 DEF Lose
    <2>2. CASE tdev' \in {tdev, Took(tdev)} /\ tchan'.flag \in {"err", "nak"}
      BY <1>9, <2>1, <2>2
    <2>3. CASE tdev' = [tdev EXCEPT !.halted = TRUE] /\ tchan'.flag = "stall"
      BY <2>1, <2>3 DEF SendType, PlaceInv, BytesUpTo
    <2>4. QED
      BY <1>11, <2>2, <2>3, EndsFlag, Zenon DEF Lose
  <1>12. CASE Replug
    BY <1>12 DEF Replug, IdleTx, FreeBulkPipe, OffChan, NewDev, NothingSent, BytesUpTo, Bytes
  <1>13. QED
    BY <1>1, <1>2, <1>3, <1>4, <1>5, <1>6, <1>7, <1>8, <1>10, <1>11, <1>12
    DEF SendNext, App, BulkIsr

(* Lengths stay within their registers. *)
LEMMA SizesStep ==
    ASSUME UsbCdcSendAssumption, SendType, SizesInv, PlaceInv, PacketInv, SendNext
    PROVE  SizesInv'
  <1> USE DEF SendType, SizesInv
  <1>0. MaxPackSize \in Nat
    BY DEF UsbCdcSendAssumption
  <1>1. ASSUME NEW n \in Lengths, CDC_SendData(n) PROVE SizesInv'
    <2>1. tx'.dataLen = n /\ tx'.len = tx.len
      BY <1>1 DEF CDC_SendData
    <2>2. QED
      BY <2>1, LengthNat
  <1>2. CASE ProcessSend_Data
    BY <1>0, <1>2 DEF ProcessSend_Data
  <1>3. CASE ProcessSend_Wait
    <2>1. tx.len <= tx.dataLen /\ tx'.len = tx.len
      BY <1>0, <1>3 DEF ProcessSend_Wait, InApp, PacketInv, Sending, Started, PacketLen
    <2>2. QED
      BY <1>3, <2>1 DEF ProcessSend_Wait
  <1>4. CASE Replug
    BY <1>0, <1>4 DEF Replug, IdleTx
  <1>5. CASE BulkOut_Return \/ CDC_DisableSend
    BY <1>5 DEF BulkOut_Return, CDC_DisableSend
  <1>6. CASE BulkOut_Enable \/ BulkIsr \/ BulkAnswer \/ Lose
    <2>1. tx' = tx
      BY <1>6 DEF BulkOut_Enable, BulkIsr, Isr_Event, Isr_Halted, BulkAnswer, Lose
    <2>2. QED
      BY <2>1
  <1>7. QED
    BY <1>1, <1>2, <1>3, <1>4, <1>5, <1>6 DEF SendNext, App

-----------------------------------------------------------------------------
(* The initial states. *)
LEMMA InitSends == UsbCdcSendAssumption /\ SendInit => SendInv
  <1> SUFFICES ASSUME UsbCdcSendAssumption, SendInit PROVE SendInv
    OBVIOUS
  <1>1. SendType
    BY StartType DEF SendInit, SendType
  <1>2. SizesInv
    BY DEF SendInit, SizesInv, IdleTx, UsbCdcSendAssumption
  <1>3. PlaceInv /\ PacketInv
    BY DEF SendInit, PlaceInv, PacketInv, Sending, Started, IdleTx, FreeBulkPipe, OffChan
  <1>4. BytesUpTo(0) = <<>>
    BY DEF SendInit, NothingSent, BytesUpTo, Bytes
  <1>5. ToggleInv
    BY <1>4 DEF SendInit, ToggleInv, Sending, Started, Agreed, Got, IdleTx, FreeBulkPipe,
       OffChan, NewDev,
                NothingSent
  <1>6. QED
    BY <1>1, <1>2, <1>3, <1>5 DEF SendInv

(* Every step preserves the invariant. *)
LEMMA SendStep == UsbCdcSendAssumption /\ SendInv /\ [SendNext]_tvars => SendInv'
  <1> SUFFICES ASSUME UsbCdcSendAssumption, SendInv, [SendNext]_tvars PROVE SendInv'
    OBVIOUS
  <1>1. CASE SendNext
    BY <1>1, TypeStep, SizesStep, PlaceStep, PacketStep, ToggleStep DEF SendInv
  <1>2. CASE UNCHANGED tvars
    BY <1>2, SMTT(20) DEF tvars, SendInv, SendType, SizesInv, PlaceInv, PacketInv, ToggleInv, Sending,
                Started, Agreed, Got, PacketLen, BytesUpTo
  <1>3. QED
    BY <1>1, <1>2

LEMMA SendAlways == ASSUME UsbCdcSendAssumption PROVE SendSpec => []SendInv
  <1>1. SendInit => SendInv
    BY InitSends
  <1>2. SendInv /\ [SendNext]_tvars => SendInv'
    BY SendStep
  <1>3. QED
    BY <1>1, <1>2, PTL DEF SendSpec

(* CDC_Tx, the pipe, the channel and the device keep their types: dataLen  *)
(* never passes below zero and no packet is longer than its endpoint.      *)
THEOREM SendTypeCorrect == ASSUME UsbCdcSendAssumption PROVE SendSpec => []SendTypeOK
  <1>1. SendInv => SendTypeOK
    <2> SUFFICES ASSUME SendInv PROVE SendTypeOK
      OBVIOUS
    <2>1. tdev.halted \in BOOLEAN /\ tpc \in {"poll", "enable", "return"}
      BY Zenon DEF SendInv, SendType
    <2>2. tx.len \in 0..MaxPackSize
      BY DEF SendInv, SendType, SizesInv, UsbCdcSendAssumption
    <2>3. QED
      BY <2>1, <2>2 DEF SendInv, SendType, SizesInv, SendTypeOK
  <1>2. QED
    BY <1>1, SendAlways, PTL

(* Every byte of every message reaches the device exactly once and in      *)
(* order (USBH_CDCProcessSend, USBH_OUT_HostChannelIsrHandler), whatever   *)
(* packets, acknowledgements and devices are lost.                         *)
THEOREM EveryByteOnce == ASSUME UsbCdcSendAssumption PROVE SendSpec => []SendExact
  <1>1. SendInv => SendExact
    <2> SUFFICES ASSUME SendInv PROVE SendExact
      OBVIOUS
    <2>1. CASE tx.state \in {"IDIE", "COMPLETE"}
      BY <2>1 DEF SendInv, ToggleInv, Sending, Got, SendExact
    <2>2. CASE tx.state \in {"SEND_DATA", "SEND_WAIT"}
      <3>1. Got(tx.off) \/ Got(tx.off + tx.len)
        BY <2>2 DEF SendInv, ToggleInv, Sending
      <3>2. QED
        BY <2>2, <3>1 DEF Got, SendExact
    <2>3. QED
      BY <2>1, <2>2 DEF SendInv, SendType
  <1>2. QED
    BY <1>1, SendAlways, PTL
=============================================================================
