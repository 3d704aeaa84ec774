---------------------------- MODULE UsbMscProofs ----------------------------
(***************************************************************************)
(* Proofs about the mass storage class, for every size of medium, block    *)
(* and packet, every set of commands of a conforming host and any number   *)
(* of them, over refused commands, a storage that fails or is not ready,   *)
(* invalid wrappers and resets of the transport.                           *)
(*                                                                         *)
(* A command runs through phases: sent, answering, reading, writing,       *)
(* stalled, mute (only the host's timeout goes on), status.  Device, flags *)
(* and host are always in one of them together; that is the inductive      *)
(* invariant.  Each phase records what the status wrapper will say: how    *)
(* the residue, the blocks asked of the storage and what the host has got  *)
(* belong together.  And each records the ring of sense codes: it is empty *)
(* or holds the code of the failure the host has not asked about.          *)
(***************************************************************************)
EXTENDS UsbMsc, SequenceTheorems, TLAPS

(* The type of the device as a record. *)
Keys == {"NO_SENSE", "ILLEGAL_REQUEST", "NOT_READY", "OUT_OF_RANGE", "HARDWARE_ERROR"}
Item == Keys \cup Nat
Csw == [tag : Nat, residue : Int, status : {"OK", "FAIL", "RESET"}]
Contents == {"none", "cbw", "data", "csw"}
States == {"IDLE", "DATA_OUT", "DATA_IN", "LAST_DATA_IN", "SEND_DATA"}
St == {"NAK", "VALID", "STALL"}
InEp == [st : St, what : {"none", "data"}, len : Nat, body : Seq(Item)]
        \cup [st : St, what : {"csw"}, len : Nat, body : Csw]
OutEp == [st : St, what : Contents, len : Nat]
Dev == [state : States, status : {"NORMAL", "RECOVERY", "ERROR"}, dataLen : Nat,
        data : Seq(Item), cbw : CommandType, tag : Nat, csw : Csw,
        addr : 0..Word - 1, len : 0..Word - 1, nbr : Nat, size : Nat, acc : Seq(Nat),
        ret : BOOLEAN, sense : [0..3 -> Keys], put : 0..3, txc : 0..3,
        in : InEp, out : OutEp]

Fields == {"state", "status", "dataLen", "data", "cbw", "tag", "csw", "addr", "len", "nbr", "size",
           "acc", "ret", "sense", "put", "txc", "in", "out"}

(* r has the fields of d, but for those in F. *)
SameBut(r, d, F) == \A f \in Fields \ F : r[f] = d[f]

NoErr(d) == d.status # "ERROR"

-----------------------------------------------------------------------------
(* What each function of the code does to the device. *)

LEMMA TxDataEffect ==
    ASSUME NEW d \in Dev, NEW w, NEW n \in Nat, NEW b,
      (w = "csw" /\ b \in Csw) \/ (w = "data" /\ b \in Seq(Item))
    PROVE  LET r == USBD_TxData(d, w, n, b) IN
     /\ r \in Dev /\ r.in = [st |-> "VALID", what |-> w, len |-> n, body |-> b]
     /\ SameBut(r, d, {"in"})
  <1>0. [st |-> "VALID", what |-> w, len |-> n, body |-> b] \in InEp
    BY DEF InEp, St
  <1>1. USBD_TxData(d, w, n, b) \in Dev
   BY <1>0 DEF Dev, USBD_TxData
  <1>2. USBD_TxData(d, w, n, b).in = [st |-> "VALID", what |-> w, len |-> n, body |-> b]
   BY DEF Dev, USBD_TxData
  <1>3. SameBut(USBD_TxData(d, w, n, b), d, {"in"})
   BY DEF Dev, USBD_TxData, SameBut, Fields
  <1> QED BY <1>1, <1>2, <1>3

LEMMA RxDataEffect ==
    ASSUME NEW d \in Dev, NEW w \in Contents, NEW n \in Nat
    PROVE  LET r == USBD_RxData(d, w, n) IN
     /\ r \in Dev /\ r.out = [st |-> "VALID", what |-> w, len |-> n]
     /\ SameBut(r, d, {"out"})
  <1>1. USBD_RxData(d, w, n) \in Dev
   BY DEF Dev, USBD_RxData, OutEp, St
  <1>2. USBD_RxData(d, w, n).out = [st |-> "VALID", what |-> w, len |-> n]
   BY DEF Dev, USBD_RxData
  <1>3. SameBut(USBD_RxData(d, w, n), d, {"out"})
   BY DEF Dev, USBD_RxData, SameBut, Fields
  <1> QED BY <1>1, <1>2, <1>3

LEMMA ReceiveCBWEffect ==
    ASSUME NEW d \in Dev
    PROVE  LET r == ReceiveCBW(d) IN
     /\ r \in Dev /\ r.out.st = "VALID" /\ r.out.what = "cbw"
     /\ SameBut(r, d, {"out"})
  <1>1. "cbw" \in Contents /\ 31 \in Nat
    BY DEF Contents
  <1>2. /\ ReceiveCBW(d) \in Dev /\ SameBut(ReceiveCBW(d), d, {"out"})
        /\ ReceiveCBW(d).out = [st |-> "VALID", what |-> "cbw", len |-> 31]
    BY <1>1, RxDataEffect, Zenon DEF ReceiveCBW
  <1>3. QED
    BY <1>2

LEMMA TxCSWEffect ==
    ASSUME NEW d \in Dev, NEW s \in {"OK", "FAIL"}
    PROVE  LET r == USBD_MSC_BOT_TxCSW(d, s) IN
   /\ r \in Dev
   /\ r.state = "IDLE" /\ r.in.st = "VALID" /\ r.in.what = "csw"
   /\ r.in.body.tag = d.csw.tag /\ r.in.body.residue = d.csw.residue /\ r.in.body.status = s
   /\ r.out.st = "VALID" /\ r.out.what = "cbw"
   /\ SameBut(r, d, {"state", "csw", "in", "out"})
  <1> DEFINE a == [d EXCEPT !.csw.status = s, !.state = "IDLE"]
             c == [d.csw EXCEPT !.status = s]
             b == USBD_TxData(a, "csw", 13, c)
             r == ReceiveCBW(b)
  <1>1. d.csw \in Csw
    BY DEF Dev
  <1>2. c \in Csw /\ c.tag = d.csw.tag /\ c.residue = d.csw.residue /\ c.status = s
    BY <1>1 DEF Csw
  <1>3. a = [d EXCEPT !.csw = c, !.state = "IDLE"]
    BY DEF Dev, Csw
  <1> HIDE DEF c
  <1>4. a \in Dev
    BY <1>2, <1>3 DEF Dev, States
  <1>5. a.state = "IDLE" /\ SameBut(a, d, {"state", "csw"})
    BY <1>3 DEF Dev, SameBut, Fields
  <1> HIDE DEF a
  <1>6. /\ b \in Dev /\ b.in = [st |-> "VALID", what |-> "csw", len |-> 13, body |-> c]
        /\ SameBut(b, a, {"in"})
    <2>1. 13 \in Nat /\ (("csw" = "csw" /\ c \in Csw) \/ ("csw" = "data" /\ c \in Seq(Item)))
      BY <1>2
    <2>2. QED
      BY <1>2, <1>4, <2>1, TxDataEffect, Zenon
  <1> HIDE DEF b
  <1>7. r \in Dev /\ r.out.st = "VALID" /\ r.out.what = "cbw" /\ SameBut(r, b, {"out"})
    BY <1>6, ReceiveCBWEffect
  <1> HIDE DEF r
  <1>8. r.in = b.in /\ r.state = "IDLE"
    BY <1>5, <1>6, <1>7 DEF SameBut, Fields
  <1>9. SameBut(r, d, {"state", "csw", "in", "out"})
    BY <1>5, <1>6, <1>7 DEF SameBut
  <1>10. r = USBD_MSC_BOT_TxCSW(d, s)
    BY DEF r, b, a, c, USBD_MSC_BOT_TxCSW
  <1>11. QED
    BY <1>2, <1>6, <1>7, <1>8, <1>9, <1>10

LEMMA StallEffect ==
    ASSUME NEW d \in Dev
    PROVE  LET r == USBD_MSC_BOT_Stall(d) IN
   /\ r \in Dev /\ SameBut(r, d, {"in", "out"}) /\ r.in.st = "STALL"
   /\ NoErr(d) /\ d.out.st = "NAK" => 
        r.out.st = IF d.cbw.dir = "out" /\ d.cbw.xfer # 0 /\ d.status = "NORMAL" THEN "STALL" ELSE "NAK"
  <1> DEFINE i == [d.in EXCEPT !.st = "STALL"]
             o == [d.out EXCEPT !.st = IF d.cbw.dir = "out" /\ d.cbw.xfer # 0 /\ d.status = "NORMAL"
                                       THEN "STALL" ELSE @]
             e == [d EXCEPT !.in = i, !.out = o]
  <1>1. i \in InEp /\ i.st = "STALL"
    <2>1. d.in \in InEp
      BY DEF Dev
    <2>2. QED
      BY <2>1 DEF InEp, St
  <1>2. o \in OutEp /\ o.st = IF d.cbw.dir = "out" /\ d.cbw.xfer # 0 /\ d.status = "NORMAL"
                                       THEN "STALL" ELSE d.out.st
    <2>1. d.out \in OutEp
      BY DEF Dev
    <2>2. QED
      BY <2>1 DEF OutEp, St
  <1>3. USBD_MSC_BOT_Stall(d) = IF d.status = "ERROR" THEN ReceiveCBW(e) ELSE e
    BY DEF USBD_MSC_BOT_Stall
  <1> HIDE DEF i, o
  <1>4. e \in Dev /\ e.in = i /\ e.out = o /\ SameBut(e, d, {"in", "out"})
    <2>1. e \in Dev /\ e.in = i /\ e.out = o
      BY <1>1, <1>2 DEF Dev
    <2>2. SameBut(e, d, {"in", "out"})
      BY DEF Dev, SameBut, Fields
    <2>3. QED BY <2>1, <2>2
  <1> HIDE DEF e
  <1>5. CASE d.status = "ERROR"
    <2>1. ReceiveCBW(e) \in Dev /\ SameBut(ReceiveCBW(e), e, {"out"})
      BY <1>4, ReceiveCBWEffect
    <2>2. ReceiveCBW(e).in.st = "STALL" /\ SameBut(ReceiveCBW(e), d, {"in", "out"})
      BY <1>1, <1>4, <2>1 DEF SameBut, Fields
    <2>3. QED
      BY <1>3, <1>5, <2>1, <2>2 DEF NoErr
  <1>6. CASE d.status # "ERROR"
    BY <1>1, <1>2, <1>3, <1>4, <1>6
  <1> QED BY <1>5, <1>6

LEMMA FailEffect ==
    ASSUME NEW d \in Dev, NEW k \in Keys
    PROVE  LET r == Fail(d, k) IN
    /\ r \in Dev /\ ~r.ret /\ SameBut(r, d, {"sense", "put", "ret"})
    /\ r.sense = [d.sense EXCEPT ![d.put] = k] /\ r.put = Next4(d.put)
  <1> DEFINE s == [d.sense EXCEPT ![d.put] = k]
             p == Next4(d.put)
             e == [d EXCEPT !.sense = s, !.put = p]
  <1>1. d.put \in 0..3 /\ d.sense \in [0..3 -> Keys]
    BY DEF Dev
  <1>2. s \in [0..3 -> Keys] /\ p \in 0..3
    BY <1>1 DEF Next4, SCSI_SENSE_LIST_NUMBER
  <1>3. Fail(d, k) = [e EXCEPT !.ret = FALSE]
    BY DEF Fail, SCSI_PutSenseCode
  <1> HIDE DEF s, p
  <1>4. Fail(d, k) = [d EXCEPT !.sense = s, !.put = p, !.ret = FALSE]
    BY <1>3 DEF Dev
  <1>5. Fail(d, k) \in Dev
    BY <1>2, <1>4 DEF Dev
  <1>6. Fail(d, k).sense = s /\ Fail(d, k).put = p /\ Fail(d, k).ret = FALSE
    BY <1>4 DEF Dev
  <1>7. SameBut(Fail(d, k), d, {"sense", "put", "ret"})
    BY <1>4 DEF Dev, SameBut, Fields
  <1> QED BY <1>5, <1>6, <1>7 DEF s, p

LEMMA AnswerEffect ==
    ASSUME NEW d \in Dev, NEW n \in Nat, NEW b \in Seq(Item)
    PROVE  LET r == Answer(d, n, b) IN
    /\ r \in Dev /\ r.ret /\ r.dataLen = n /\ r.data = b /\ SameBut(r, d, {"dataLen", "data", "ret"})
  <1>1. Answer(d, n, b) \in Dev
    BY DEF Dev, Answer
  <1>2. Answer(d, n, b).ret = TRUE /\ Answer(d, n, b).dataLen = n /\ Answer(d, n, b).data = b
    BY DEF Dev, Answer
  <1>3. SameBut(Answer(d, n, b), d, {"dataLen", "data", "ret"})
    BY DEF Dev, SameBut, Fields, Answer
  <1> QED BY <1>1, <1>2, <1>3

LEMMA BotTxDataEffect ==
    ASSUME NEW d \in Dev
    PROVE  LET r == USBD_MSC_BOT_TxData(d)
               n == Lesser(d.dataLen, d.cbw.xfer)
           IN  /\ r \in Dev /\ n \in Nat /\ r.state = "SEND_DATA"
               /\ r.in = [st |-> "VALID", what |-> "data", len |-> n, body |-> d.data]
               /\ r.csw.residue = d.csw.residue - n /\ r.csw.tag = d.csw.tag
               /\ SameBut(r, d, {"in", "csw", "state"})
  <1> DEFINE n == Lesser(d.dataLen, d.cbw.xfer)
             c == [d.csw EXCEPT !.residue = @ - n, !.status = "OK"]
             e == [d EXCEPT !.csw = c, !.state = "SEND_DATA"]
  <1>1. d.csw \in Csw /\ d.dataLen \in Nat /\ d.cbw.xfer \in Nat /\ d.data \in Seq(Item)
    BY DEF Dev, CommandType
  <1>2. n \in Nat
    BY <1>1 DEF Lesser
  <1> HIDE DEF n
  <1>3. c \in Csw /\ c.residue = d.csw.residue - n /\ c.tag = d.csw.tag
    <2>1. d.csw.residue - n \in Int
      BY <1>1, <1>2 DEF Csw
    <2>2. c = [d.csw EXCEPT !.residue = d.csw.residue - n, !.status = "OK"]
      OBVIOUS
    <2>3. QED
      BY <1>1, <2>1, <2>2 DEF Csw
  <1>4. USBD_MSC_BOT_TxData(d) = USBD_TxData(e, "data", n, d.data)
    <2>1. e = [d EXCEPT !.csw.residue = @ - n, !.csw.status = "OK", !.state = "SEND_DATA"]
      BY <1>1 DEF Dev, Csw
    <2>2. QED
      BY <2>1, Zenon DEF USBD_MSC_BOT_TxData, n
  <1> HIDE DEF c
  <1>5. e \in Dev /\ e.csw = c /\ e.state = "SEND_DATA"
    BY <1>3 DEF Dev, States
  <1>6. SameBut(e, d, {"csw", "state"})
    BY DEF Dev, SameBut, Fields
  <1> HIDE DEF e
  <1> DEFINE r == USBD_TxData(e, "data", n, d.data)
  <1>7. /\ r \in Dev /\ r.in = [st |-> "VALID", what |-> "data", len |-> n, body |-> d.data]
        /\ SameBut(r, e, {"in"})
    BY <1>1, <1>2, <1>5, TxDataEffect, Zenon
  <1> HIDE DEF r
  <1>8. r.csw = c /\ r.state = "SEND_DATA"
    BY <1>5, <1>7 DEF SameBut, Fields
  <1>9. SameBut(r, d, {"in", "csw", "state"})
    BY <1>6, <1>7 DEF SameBut
  <1>10. QED
    BY <1>2, <1>3, <1>4, <1>7, <1>8, <1>9 DEF n, r

(* Arithmetic in 32 bits, and division as the processor does it. *)
LEMMA WordFacts ==
    ASSUME UsbMscAssumption, NEW x \in Nat
    PROVE  x % Word \in 0..Word - 1 /\ (x < Word => x % Word = x)
  BY DEF UsbMscAssumption

LEMMA QuotFacts ==
    ASSUME NEW a \in Nat, NEW b \in Nat
    PROVE  Quot(a, b) \in Nat
  BY DEF Quot

LEMMA BlocksOfType ==
    ASSUME NEW d \in Dev, NEW n \in Nat
    PROVE  /\ BlocksOf(d, n) \in Seq(Nat) /\ BlocksOf(d, n) \in Seq(Item)
           /\ Len(BlocksOf(d, n)) = Quot(n, d.size)
  <1> DEFINE q == Quot(n, d.size)
             a == Quot(d.addr, d.size)
             s == [k \in 1..q |-> a + k - 1]
  <1>1. d.size \in Nat /\ d.addr \in Nat
    BY DEF Dev
  <1>2. q \in Nat /\ a \in Nat
    BY <1>1, QuotFacts
  <1> HIDE DEF q, a
  <1>3. s \in [1..q -> Nat]
    BY <1>2
  <1>4. s \in Seq(Nat) /\ Len(s) = q
    BY <1>2, <1>3
  <1>5. s \in Seq(Item)
    BY <1>2, <1>3 DEF Item
  <1>6. QED
    BY <1>4, <1>5 DEF BlocksOf, q, a

LEMMA ScaleEffect ==
    ASSUME UsbMscAssumption, NEW d \in Dev
    PROVE  LET r == Scale(d)
           IN  /\ r \in Dev /\ r.addr = (d.cbw.blk * d.size) % Word
               /\ r.len = (d.cbw.n * d.size) % Word /\ SameBut(r, d, {"addr", "len"})
  <1> DEFINE a == (d.cbw.blk * d.size) % Word
             l == (d.cbw.n * d.size) % Word
  <1>1. d.cbw.blk * d.size \in Nat /\ d.cbw.n * d.size \in Nat
    BY SMTT(20) DEF Dev, CommandType
  <1>2. a \in 0..Word - 1 /\ l \in 0..Word - 1
    BY <1>1, WordFacts
  <1>3. Scale(d) = [d EXCEPT !.addr = a, !.len = l]
    BY DEF Scale
  <1> HIDE DEF a, l
  <1>4. Scale(d) \in Dev /\ Scale(d).addr = a /\ Scale(d).len = l
    BY <1>2, <1>3 DEF Dev
  <1>5. SameBut(Scale(d), d, {"addr", "len"})
    BY <1>3 DEF Dev, SameBut, Fields
  <1>6. QED
    BY <1>4, <1>5 DEF a, l

LEMMA AdvanceEffect ==
    ASSUME UsbMscAssumption, NEW d \in Dev, NEW n \in 0..d.len
    PROVE  LET r == Advance(d, n)
           IN  /\ r \in Dev /\ r.addr = (d.addr + n) % Word /\ r.len = d.len - n
               /\ r.csw.residue = d.csw.residue - n /\ r.csw.tag = d.csw.tag
               /\ SameBut(r, d, {"addr", "len", "csw"})
  <1> DEFINE a == (d.addr + n) % Word
             c == [d.csw EXCEPT !.residue = @ - n]
  <1>1. d.addr + n \in Nat /\ d.len \in 0..Word - 1 /\ d.csw \in Csw /\ n \in Nat
    BY DEF Dev
  <1>2. a \in 0..Word - 1 /\ d.len - n \in 0..Word - 1
    BY <1>1, WordFacts, SMTT(20) DEF UsbMscAssumption
  <1>3. c \in Csw /\ c.residue = d.csw.residue - n /\ c.tag = d.csw.tag
    BY <1>1 DEF Csw
  <1>4. Advance(d, n) = [d EXCEPT !.addr = a, !.len = d.len - n, !.csw = c]
    BY DEF Advance, Dev
  <1> HIDE DEF a, c
  <1>5. Advance(d, n) \in Dev /\ Advance(d, n).addr = a /\ Advance(d, n).len = d.len - n
        /\ Advance(d, n).csw = c
    BY <1>2, <1>3, <1>4 DEF Dev
  <1>6. SameBut(Advance(d, n), d, {"addr", "len", "csw"})
    BY <1>4 DEF Dev, SameBut, Fields
  <1>7. QED
    BY <1>3, <1>5, <1>6 DEF a

(* SCSI_Read, when the storage works. *)
LEMMA ReadEffect ==
    ASSUME UsbMscAssumption, NEW d \in Dev
    PROVE  LET r == SCSI_Read(d, TRUE)
               n == Lesser(MediaPacket, d.len)
               b == BlocksOf(d, n)
           IN  /\ r \in Dev /\ r.ret /\ n \in 0..d.len
               /\ r.in = [st |-> "VALID", what |-> "data", len |-> n, body |-> b]
               /\ r.acc = d.acc \o b /\ r.addr = (d.addr + n) % Word /\ r.len = d.len - n
               /\ r.csw.residue = d.csw.residue - n /\ r.csw.tag = d.csw.tag
               /\ r.state = IF r.len = 0 THEN "LAST_DATA_IN" ELSE d.state
               /\ SameBut(r, d, {"in", "acc", "addr", "len", "csw", "ret", "state"})
  <1> DEFINE n == Lesser(MediaPacket, d.len)
             b == BlocksOf(d, n)
             x == [d EXCEPT !.acc = d.acc \o b]
             y == USBD_TxData(x, "data", n, b)
             e == Advance(y, n)
             s == IF e.len = 0 THEN "LAST_DATA_IN" ELSE e.state
             r == [e EXCEPT !.ret = TRUE, !.state = s]
  <1>1. n \in 0..d.len /\ n \in Nat
    BY DEF UsbMscAssumption, Lesser, Dev
  <1>2. SCSI_Read(d, TRUE) = r
    BY DEF SCSI_Read
  <1> HIDE DEF n
  <1>3. b \in Seq(Nat) /\ b \in Seq(Item)
    BY <1>1, BlocksOfType
  <1> HIDE DEF b
  <1>4. x \in Dev /\ x.acc = d.acc \o b /\ SameBut(x, d, {"acc"})
    <2>1. d.acc \o b \in Seq(Nat)
      BY <1>3 DEF Dev
    <2>2. x \in Dev /\ x.acc = d.acc \o b
      BY <2>1 DEF Dev
    <2>3. SameBut(x, d, {"acc"})
      BY DEF Dev, SameBut, Fields
    <2>4. QED
      BY <2>2, <2>3
  <1> HIDE DEF x
  <1>5. /\ y \in Dev /\ y.in = [st |-> "VALID", what |-> "data", len |-> n, body |-> b]
        /\ SameBut(y, x, {"in"})
    BY <1>1, <1>3, <1>4, TxDataEffect, Zenon
  <1> HIDE DEF y
  <1>6. /\ y.len = d.len /\ y.addr = d.addr /\ y.csw = d.csw /\ y.acc = d.acc \o b
        /\ y.state = d.state
    BY <1>4, <1>5 DEF SameBut, Fields
  <1>7. /\ e \in Dev /\ e.addr = (d.addr + n) % Word /\ e.len = d.len - n
        /\ e.csw.residue = d.csw.residue - n /\ e.csw.tag = d.csw.tag
        /\ SameBut(e, y, {"addr", "len", "csw"})
    BY <1>1, <1>5, <1>6, AdvanceEffect
  <1> HIDE DEF e
  <1>8. e.in = y.in /\ e.acc = y.acc /\ e.state = d.state
    BY <1>6, <1>7 DEF SameBut, Fields
  <1>9. SameBut(e, d, {"in", "acc", "addr", "len", "csw"})
    BY <1>4, <1>5, <1>7 DEF SameBut
  <1>10. s \in States /\ s = IF e.len = 0 THEN "LAST_DATA_IN" ELSE d.state
    BY <1>8 DEF Dev, States
  <1> HIDE DEF s
  <1>11. /\ r \in Dev /\ r.ret /\ r.state = s /\ r.len = e.len /\ r.addr = e.addr
         /\ r.csw = e.csw /\ r.in = e.in /\ r.acc = e.acc
    BY <1>7, <1>10 DEF Dev
  <1>12. SameBut(r, e, {"ret", "state"})
    BY <1>7 DEF Dev, SameBut, Fields
  <1> HIDE DEF r
  <1>13. SameBut(r, d, {"in", "acc", "addr", "len", "csw", "ret", "state"})
    BY <1>9, <1>12 DEF SameBut
  <1>14. /\ r.in = [st |-> "VALID", what |-> "data", len |-> n, body |-> b]
         /\ r.acc = d.acc \o b /\ r.state = IF r.len = 0 THEN "LAST_DATA_IN" ELSE d.state
    BY <1>5, <1>6, <1>8, <1>10, <1>11
  <1>15. QED
    BY <1>1, <1>2, <1>7, <1>11, <1>13, <1>14 DEF n, b

(* SCSI_Write, when the storage works: one more packet, or the status. *)
LEMMA WriteEffect ==
    ASSUME UsbMscAssumption, NEW d \in Dev
    PROVE  LET r == SCSI_Write(d, TRUE)
               n == Lesser(MediaPacket, d.len)
           IN  /\ r \in Dev /\ r.ret /\ n \in 0..d.len
               /\ r.acc = d.acc \o BlocksOf(d, n)
               /\ r.addr = (d.addr + n) % Word /\ r.len = d.len - n
               /\ SameBut(r, d, {"in", "out", "acc", "addr", "len", "csw", "ret", "state"})
               /\ d.len > n => /\ r.state = d.state /\ r.in = d.in
                               /\ r.out.st = "VALID" /\ r.out.what = "data"
                               /\ r.csw.residue = d.csw.residue - n /\ r.csw.tag = d.csw.tag
               /\ d.len = n => /\ r.state = "IDLE" /\ r.in.st = "VALID" /\ r.in.what = "csw"
                               /\ r.out.st = "VALID" /\ r.out.what = "cbw"
                               /\ r.in.body.tag = d.csw.tag
                               /\ r.in.body.residue = d.csw.residue - n
                               /\ r.in.body.status = "OK"
  <1> DEFINE n == Lesser(MediaPacket, d.len)
             b == BlocksOf(d, n)
             x == [d EXCEPT !.acc = @ \o b, !.ret = TRUE]
             e == Advance(x, n)
             r == SCSI_Write(d, TRUE)
  <1>1. n \in 0..d.len /\ n \in Nat /\ d.len \in Nat
    BY DEF UsbMscAssumption, Lesser, Dev
  <1>2. r = IF e.len > 0 THEN USBD_RxData(e, "data", Lesser(MediaPacket, e.len))
            ELSE USBD_MSC_BOT_TxCSW(e, "OK")
    BY DEF SCSI_Write
  <1> HIDE DEF n, r
  <1>3. b \in Seq(Nat)
    BY <1>1, BlocksOfType
  <1> HIDE DEF b
  <1>4. x \in Dev /\ x.acc = d.acc \o b /\ x.ret /\ SameBut(x, d, {"acc", "ret"})
    <2>1. d.acc \o b \in Seq(Nat)
      BY <1>3 DEF Dev
    <2>2. x \in Dev /\ x.acc = d.acc \o b /\ x.ret
      BY <2>1 DEF Dev
    <2>3. SameBut(x, d, {"acc", "ret"})
      BY DEF Dev, SameBut, Fields
    <2>4. QED
      BY <2>2, <2>3
  <1> HIDE DEF x
  <1>5. x.len = d.len /\ x.addr = d.addr /\ x.csw = d.csw /\ x.in = d.in /\ x.state = d.state
    BY <1>4 DEF SameBut, Fields
  <1>6. /\ e \in Dev /\ e.addr = (d.addr + n) % Word /\ e.len = d.len - n
        /\ e.csw.residue = d.csw.residue - n /\ e.csw.tag = d.csw.tag
        /\ SameBut(e, x, {"addr", "len", "csw"})
    BY <1>1, <1>4, <1>5, AdvanceEffect
  <1> HIDE DEF e
  <1>7. e.in = d.in /\ e.acc = d.acc \o b /\ e.state = d.state /\ e.ret
    BY <1>4, <1>5, <1>6 DEF SameBut, Fields
  <1>8. SameBut(e, d, {"acc", "addr", "len", "csw", "ret"})
    BY <1>4, <1>6 DEF SameBut
  <1> DEFINE Common ==
               /\ r \in Dev /\ r.ret
               /\ r.acc = d.acc \o b
               /\ r.addr = (d.addr + n) % Word /\ r.len = d.len - n
               /\ SameBut(r, d, {"in", "out", "acc", "addr", "len", "csw", "ret", "state"})
             More ==
               /\ r.state = d.state /\ r.in = d.in
               /\ r.out.st = "VALID" /\ r.out.what = "data"
               /\ r.csw.residue = d.csw.residue - n /\ r.csw.tag = d.csw.tag
             Last ==
               /\ r.state = "IDLE" /\ r.in.st = "VALID" /\ r.in.what = "csw"
               /\ r.out.st = "VALID" /\ r.out.what = "cbw"
               /\ r.in.body.tag = d.csw.tag
               /\ r.in.body.residue = d.csw.residue - n
               /\ r.in.body.status = "OK"
  <1>9. ASSUME d.len > n PROVE Common /\ More
    <2>1. e.len > 0 /\ Lesser(MediaPacket, e.len) \in Nat /\ "data" \in Contents
      BY <1>1, <1>6, <1>9 DEF Lesser, UsbMscAssumption, Contents
    <2>2. r = USBD_RxData(e, "data", Lesser(MediaPacket, e.len))
      BY <1>2, <2>1
    <2>3. /\ r \in Dev /\ SameBut(r, e, {"out"})
          /\ r.out = [st |-> "VALID", what |-> "data", len |-> Lesser(MediaPacket, e.len)]
      BY <1>6, <2>1, <2>2, RxDataEffect, Zenon
    <2>4. /\ r.in = e.in /\ r.acc = e.acc /\ r.state = e.state /\ r.ret = e.ret /\ r.csw = e.csw
          /\ r.addr = e.addr /\ r.len = e.len
      BY <2>3 DEF SameBut, Fields
    <2>5. SameBut(r, d, {"in", "out", "acc", "addr", "len", "csw", "ret", "state"})
      BY <1>8, <2>3 DEF SameBut
    <2>6. r.out.st = "VALID" /\ r.out.what = "data"
      BY <2>3
    <2>7. QED
      BY <1>1, <1>6, <1>7, <2>3, <2>4, <2>5, <2>6
  <1>10. ASSUME d.len = n PROVE Common /\ Last
    <2>1. ~(e.len > 0)
      BY <1>1, <1>6, <1>10
    <2>2. r = USBD_MSC_BOT_TxCSW(e, "OK")
      BY <1>2, <2>1
    <2>3. /\ r \in Dev /\ r.state = "IDLE" /\ r.in.st = "VALID" /\ r.in.what = "csw"
          /\ r.in.body.tag = e.csw.tag /\ r.in.body.residue = e.csw.residue
          /\ r.in.body.status = "OK"
          /\ r.out.st = "VALID" /\ r.out.what = "cbw"
          /\ SameBut(r, e, {"state", "csw", "in", "out"})
      BY <1>6, <2>2, TxCSWEffect, ZenonT(30)
    <2>4. r.acc = e.acc /\ r.ret = e.ret /\ r.addr = e.addr /\ r.len = e.len
      BY <2>3 DEF SameBut, Fields
    <2>5. SameBut(r, d, {"in", "out", "acc", "addr", "len", "csw", "ret", "state"})
      BY <1>8, <2>3 DEF SameBut
    <2>6. QED
      BY <1>1, <1>6, <1>7, <2>3, <2>4, <2>5
  <1>11. d.len > n \/ d.len = n
    BY <1>1
  <1>12. Common /\ (d.len > n => More) /\ (d.len = n => Last)
    <2>1. ~(d.len > n /\ d.len = n)
      BY <1>1
    <2>2. QED
      BY <1>9, <1>10, <1>11, <2>1, Zenon
  <1> HIDE DEF Common, More, Last
  <1>13. QED
    BY <1>1, <1>12, Zenon DEF n, b, r, Common, More, Last

-----------------------------------------------------------------------------
(* What SCSI_CmdHandler makes of a command: it refuses it, answers it from *)
(* memory, has nothing to send, or starts to read or to write.             *)

FailKeys == Keys \ {"NO_SENSE"}

(* What SCSI_ReadCapacity10 has set, or not yet. *)
Geometry(d) == (d.nbr = 0 /\ d.size = 0) \/ (d.nbr = BlkNbr /\ d.size = BlkSize)

Noted(r, d) == \E k \in FailKeys : r.sense = [d.sense EXCEPT ![d.put] = k] /\ r.put = Next4(d.put)

Refused(r, d) ==
    r \in Dev /\ ~r.ret /\ SameBut(r, d, {"sense", "put", "ret", "addr", "len", "state"}) /\ Noted(r, d)

Served(r, d) ==
    /\ r \in Dev /\ r.ret /\ d.cbw.op \in DataOps /\ r.dataLen > 0
    /\ SameBut(r, d, {"dataLen", "data", "ret", "txc", "nbr", "size"})
    /\ Geometry(d) => Geometry(r)
    /\ d.cbw.op # "REQUEST_SENSE" => r.txc = d.txc
    /\ d.cbw.op = "REQUEST_SENSE" =>
          IF d.txc # d.put THEN r.data = <<d.sense[d.txc]>> /\ r.txc = Next4(d.txc)
          ELSE r.data = <<"NO_SENSE">> /\ r.txc = d.txc

Empty(r, d) ==
    /\ r \in Dev /\ r.ret /\ d.cbw.op \in NoDataOps /\ r.dataLen = 0
    /\ SameBut(r, d, {"dataLen", "data", "ret"}) /\ (d.cbw.op = "TEST_UNIT_READY" => d.cbw.xfer = 0)

Scaled(d) == [Scale(d) EXCEPT !.state = "DATA_IN"]

ReadStarted(r, d) ==
    /\ d.cbw.op = "READ_10" /\ d.cbw.dir = "in" /\ InRange(d) /\ d.cbw.xfer = Scale(d).len
    /\ r = SCSI_Read(Scaled(d), TRUE)

WriteStarted(r, d) ==
    /\ d.cbw.op = "WRITE10" /\ d.cbw.dir = "out" /\ InRange(d) /\ d.cbw.xfer = Scale(d).len
    /\ r \in Dev /\ r.ret /\ r.state = "DATA_OUT" /\ r.out.st = "VALID" /\ r.out.what = "data"
    /\ SameBut(r, Scale(d), {"out", "state", "ret"})

LEMMA FailRefuses ==
    ASSUME NEW d \in Dev, NEW k \in FailKeys
    PROVE  Refused(Fail(d, k), d)
  <1>1. k \in Keys
    BY DEF FailKeys
  <1> DEFINE r == Fail(d, k)
  <1>2. /\ r \in Dev /\ ~r.ret /\ SameBut(r, d, {"sense", "put", "ret"})
        /\ r.sense = [d.sense EXCEPT ![d.put] = k] /\ r.put = Next4(d.put)
    BY <1>1, FailEffect, Zenon
  <1> HIDE DEF r
  <1>3. SameBut(r, d, {"sense", "put", "ret", "addr", "len", "state"})
    BY <1>2 DEF SameBut
  <1>4. Noted(r, d)
    BY <1>2, Zenon DEF Noted
  <1>5. QED
    BY <1>2, <1>3, <1>4 DEF Refused, r

LEMMA RefusalKeys ==
    ASSUME NEW d, NEW dir, NEW ready \in BOOLEAN
    PROVE  /\ Refusal(d, dir, ready) # "none" => Refusal(d, dir, ready) \in FailKeys
           /\ Refusal(d, dir, ready) = "none" => d.cbw.dir = dir /\ InRange(d)
  BY DEF Refusal, FailKeys, Keys

LEMMA ScaledEffect ==
    ASSUME UsbMscAssumption, NEW d \in Dev
    PROVE  LET r == Scaled(d)
           IN  /\ r \in Dev /\ r.addr = (d.cbw.blk * d.size) % Word
               /\ r.len = (d.cbw.n * d.size) % Word /\ r.len = Scale(d).len
               /\ r.state = "DATA_IN" /\ SameBut(r, d, {"addr", "len", "state"})
  <1> DEFINE s == Scale(d)
             r == [s EXCEPT !.state = "DATA_IN"]
  <1>1. /\ s \in Dev /\ s.addr = (d.cbw.blk * d.size) % Word
        /\ s.len = (d.cbw.n * d.size) % Word /\ SameBut(s, d, {"addr", "len"})
    BY ScaleEffect, Zenon
  <1> HIDE DEF s
  <1>2. r \in Dev /\ r.addr = s.addr /\ r.len = s.len /\ r.state = "DATA_IN"
    BY <1>1 DEF Dev, States
  <1>3. SameBut(r, s, {"state"})
    BY <1>1 DEF Dev, SameBut, Fields
  <1> HIDE DEF r
  <1>4. SameBut(r, d, {"addr", "len", "state"})
    BY <1>1, <1>3 DEF SameBut
  <1>5. QED
    BY <1>1, <1>2, <1>4 DEF r, s, Scaled

LEMMA Read10AtIdle ==
    ASSUME UsbMscAssumption, NEW d \in Dev, d.state = "IDLE", d.cbw.op = "READ_10",
           NEW ready \in BOOLEAN, NEW works \in BOOLEAN
    PROVE  LET r == SCSI_Read10(d, ready, works) IN Refused(r, d) \/ (works /\ ReadStarted(r, d))
  <1> DEFINE no == Refusal(d, "in", ready)
             e == Scaled(d)
             r == SCSI_Read10(d, ready, works)
  <1>1. e \in Dev /\ e.len = Scale(d).len /\ SameBut(e, d, {"addr", "len", "state"})
    BY ScaledEffect, Zenon
  <1>2. r = IF no # "none" THEN Fail(d, no)
            ELSE IF d.cbw.xfer # e.len THEN Fail(e, "ILLEGAL_REQUEST") ELSE SCSI_Read(e, works)
    BY DEF SCSI_Read10, Scaled
  <1>3. (no # "none" => no \in FailKeys) /\ (no = "none" => d.cbw.dir = "in" /\ InRange(d))
    BY RefusalKeys, Zenon
  <1> HIDE DEF r, e, no
  <1>4. ASSUME NEW k \in FailKeys PROVE Refused(Fail(e, k), d)
    <2>1. Refused(Fail(e, k), e)
      BY <1>1, FailRefuses, Zenon
    <2>2. SameBut(Fail(e, k), d, {"sense", "put", "ret", "addr", "len", "state"})
      BY <1>1, <2>1 DEF Refused, SameBut
    <2>3. e.sense = d.sense /\ e.put = d.put
      BY <1>1 DEF SameBut, Fields
    <2>4. Noted(Fail(e, k), d)
      BY <2>1, <2>3 DEF Refused, Noted
    <2>5. QED
      BY <2>1, <2>2, <2>4 DEF Refused
  <1>5. CASE no # "none"
    BY <1>2, <1>3, <1>5, FailRefuses DEF r
  <1>6. CASE no = "none" /\ d.cbw.xfer # e.len
    <2>1. r = Fail(e, "ILLEGAL_REQUEST") /\ "ILLEGAL_REQUEST" \in FailKeys
      BY <1>2, <1>6 DEF FailKeys, Keys
    <2>2. QED
      BY <1>4, <2>1 DEF r
  <1>7. CASE no = "none" /\ d.cbw.xfer = e.len /\ ~works
    <2>1. r = Fail(e, "HARDWARE_ERROR") /\ "HARDWARE_ERROR" \in FailKeys
      BY <1>2, <1>7 DEF FailKeys, Keys, SCSI_Read
    <2>2. QED
      BY <1>4, <2>1 DEF r
  <1>8. CASE no = "none" /\ d.cbw.xfer = e.len /\ works
    <2>1. works = TRUE /\ r = SCSI_Read(e, TRUE)
      BY <1>2, <1>8
    <2>2. ReadStarted(r, d)
      BY <1>1, <1>3, <1>8, <2>1 DEF ReadStarted, e
    <2>3. QED
      BY <1>8, <2>2 DEF r
  <1>9. QED
    BY <1>5, <1>6, <1>7, <1>8

LEMMA Write10AtIdle ==
    ASSUME UsbMscAssumption, NEW d \in Dev, d.state = "IDLE", d.cbw.op = "WRITE10",
           NEW ready \in BOOLEAN, NEW works \in BOOLEAN
    PROVE  LET r == SCSI_Write10(d, ready, works) IN Refused(r, d) \/ WriteStarted(r, d)
  <1> DEFINE no == Refusal(d, "out", ready)
             e == Scale(d)
             n == Lesser(e.len, MediaPacket)
             x == USBD_RxData(e, "data", n)
             r == SCSI_Write10(d, ready, works)
  <1>1. e \in Dev /\ SameBut(e, d, {"addr", "len"})
    BY ScaleEffect, Zenon
  <1>2. r = IF no # "none" THEN Fail(d, no)
            ELSE IF d.cbw.xfer # e.len THEN Fail(e, "ILLEGAL_REQUEST")
                 ELSE [x EXCEPT !.state = "DATA_OUT", !.ret = TRUE]
    BY DEF SCSI_Write10
  <1>3. (no # "none" => no \in FailKeys) /\ (no = "none" => d.cbw.dir = "out" /\ InRange(d))
    BY RefusalKeys, Zenon
  <1> HIDE DEF r, e, no, x
  <1>4. CASE no # "none"
    BY <1>2, <1>3, <1>4, FailRefuses DEF r
  <1>5. CASE no = "none" /\ d.cbw.xfer # e.len
    <2>1. r = Fail(e, "ILLEGAL_REQUEST") /\ "ILLEGAL_REQUEST" \in FailKeys
      BY <1>2, <1>5 DEF FailKeys, Keys
    <2>2. Refused(r, e)
      BY <1>1, <2>1, FailRefuses, Zenon
    <2>3. SameBut(r, d, {"sense", "put", "ret", "addr", "len", "state"})
      BY <1>1, <2>2 DEF Refused, SameBut
    <2>4. e.sense = d.sense /\ e.put = d.put
      BY <1>1 DEF SameBut, Fields
    <2>5. Noted(r, d)
      BY <2>2, <2>4 DEF Refused, Noted
    <2>6. QED
      BY <2>2, <2>3, <2>5 DEF Refused, r
  <1>6. CASE no = "none" /\ d.cbw.xfer = e.len
    <2>1. r = [x EXCEPT !.state = "DATA_OUT", !.ret = TRUE]
      BY <1>2, <1>6
    <2>2. n \in Nat /\ "data" \in Contents
      BY <1>1 DEF Dev, UsbMscAssumption, Lesser, Contents
    <2>3. x \in Dev /\ x.out = [st |-> "VALID", what |-> "data", len |-> n] /\ SameBut(x, e, {"out"})
      BY <1>1, <2>2, RxDataEffect, Zenon DEF x
    <2>4. r \in Dev /\ r.ret /\ r.state = "DATA_OUT" /\ r.out = x.out
      BY <2>1, <2>3 DEF Dev, States
    <2>5. SameBut(r, x, {"state", "ret"})
      BY <2>1, <2>3 DEF Dev, SameBut, Fields
    <2>6. SameBut(r, e, {"out", "state", "ret"})
      BY <2>3, <2>5 DEF SameBut
    <2>7. r.out.st = "VALID" /\ r.out.what = "data"
      BY <2>3, <2>4
    <2>8. WriteStarted(r, d)
      BY <1>3, <1>6, <2>4, <2>6, <2>7 DEF WriteStarted, e
    <2>9. QED
      BY <2>8 DEF r
  <1>7. QED
    BY <1>4, <1>5, <1>6

LEMMA AnswerServes ==
    ASSUME NEW d \in Dev, d.cbw.op \in DataOps \ {"REQUEST_SENSE"}, NEW n \in Nat, n > 0
    PROVE  Served(Answer(d, n, << >>), d)
  <1> DEFINE r == Answer(d, n, << >>)
  <1>1. << >> \in Seq(Item)
    OBVIOUS
  <1>2. r \in Dev /\ r.ret /\ r.dataLen = n /\ SameBut(r, d, {"dataLen", "data", "ret"})
    BY <1>1, AnswerEffect, Zenon
  <1> HIDE DEF r
  <1>3. r.txc = d.txc /\ r.nbr = d.nbr /\ r.size = d.size
    BY <1>2 DEF SameBut, Fields
  <1>4. SameBut(r, d, {"dataLen", "data", "ret", "txc", "nbr", "size"})
    BY <1>2 DEF SameBut
  <1>5. d.cbw.op # "REQUEST_SENSE" /\ d.cbw.op \in DataOps
    BY DEF DataOps
  <1>6. QED
    BY <1>2, <1>3, <1>4, <1>5 DEF Served, Geometry, r

LEMMA AnswerEmpty ==
    ASSUME NEW d \in Dev, d.cbw.op \in NoDataOps, d.cbw.op = "TEST_UNIT_READY" => d.cbw.xfer = 0
    PROVE  Empty(Answer(d, 0, << >>), d)
  <1> DEFINE r == Answer(d, 0, << >>)
  <1>1. << >> \in Seq(Item) /\ 0 \in Nat
    OBVIOUS
  <1>2. r \in Dev /\ r.ret /\ r.dataLen = 0 /\ SameBut(r, d, {"dataLen", "data", "ret"})
    BY <1>1, AnswerEffect, Zenon
  <1>3. QED
    BY <1>2 DEF Empty

LEMMA SenseServes ==
    ASSUME NEW d \in Dev, d.cbw.op = "REQUEST_SENSE"
    PROVE  Served(SCSI_RequestSense(d), d)
  <1> DEFINE r == SCSI_RequestSense(d)
  <1>1. d.sense \in [0..3 -> Keys] /\ d.txc \in 0..3 /\ Next4(d.txc) \in 0..3
    BY DEF Dev, Next4, SCSI_SENSE_LIST_NUMBER
  <1>2. 18 \in Nat /\ 18 > 0 /\ d.cbw.op \in DataOps
    BY DEF DataOps
  <1>3. CASE d.txc # d.put
    <2> DEFINE b == <<d.sense[d.txc]>>
               a == Answer(d, 18, b)
    <2>1. b \in Seq(Item)
      BY <1>1 DEF Item
    <2>2. r = [a EXCEPT !.txc = Next4(d.txc)]
      BY <1>3 DEF SCSI_RequestSense
    <2> HIDE DEF b, r
    <2>3. a \in Dev /\ a.ret /\ a.dataLen = 18 /\ a.data = b /\ SameBut(a, d, {"dataLen", "data", "ret"})
      BY <1>2, <2>1, AnswerEffect, Zenon
    <2> HIDE DEF a
    <2>4. /\ r \in Dev /\ r.ret /\ r.dataLen = 18 /\ r.data = b /\ r.txc = Next4(d.txc)
          /\ r.nbr = a.nbr /\ r.size = a.size
      BY <1>1, <2>2, <2>3 DEF Dev
    <2>5. SameBut(r, a, {"txc"})
      BY <2>2, <2>3 DEF Dev, SameBut, Fields
    <2>6. SameBut(r, d, {"dataLen", "data", "ret", "txc", "nbr", "size"})
      BY <2>3, <2>5 DEF SameBut
    <2>7. a.nbr = d.nbr /\ a.size = d.size
      BY <2>3 DEF SameBut, Fields
    <2>8. QED
      BY <1>2, <1>3, <2>4, <2>6, <2>7 DEF Served, Geometry, r, b
  <1>4. CASE d.txc = d.put
    <2> DEFINE b == <<"NO_SENSE">>
    <2>1. b \in Seq(Item)
      BY DEF Item, Keys
    <2>2. r = Answer(d, 18, b)
      BY <1>4 DEF SCSI_RequestSense
    <2> HIDE DEF b, r
    <2>3. r \in Dev /\ r.ret /\ r.dataLen = 18 /\ r.data = b /\ SameBut(r, d, {"dataLen", "data", "ret"})
      BY <1>2, <2>1, <2>2, AnswerEffect, Zenon
    <2>4. SameBut(r, d, {"dataLen", "data", "ret", "txc", "nbr", "size"})
      BY <2>3 DEF SameBut
    <2>5. r.txc = d.txc /\ r.nbr = d.nbr /\ r.size = d.size
      BY <2>3 DEF SameBut, Fields
    <2>6. QED
      BY <1>2, <1>4, <2>3, <2>4, <2>5 DEF Served, Geometry, r, b
  <1>5. QED
    BY <1>3, <1>4

LEMMA CapacityServes ==
    ASSUME UsbMscAssumption, NEW d \in Dev, d.cbw.op = "READ_CAPACITY_10"
    PROVE  Served(SCSI_ReadCapacity10(d, TRUE), d)
  <1> DEFINE r == SCSI_ReadCapacity10(d, TRUE)
             a == Answer(d, 8, << >>)
  <1>1. << >> \in Seq(Item) /\ 8 \in Nat /\ d.cbw.op \in DataOps
    BY DEF DataOps
  <1>2. r = [a EXCEPT !.nbr = BlkNbr, !.size = BlkSize]
    BY DEF SCSI_ReadCapacity10
  <1> HIDE DEF r
  <1>3. a \in Dev /\ a.ret /\ a.dataLen = 8 /\ SameBut(a, d, {"dataLen", "data", "ret"})
    BY <1>1, AnswerEffect, Zenon
  <1> HIDE DEF a
  <1>4. /\ r \in Dev /\ r.ret /\ r.dataLen = 8 /\ r.nbr = BlkNbr /\ r.size = BlkSize
        /\ r.txc = a.txc
    <2>1. BlkNbr \in Nat /\ BlkSize \in Nat
      BY DEF UsbMscAssumption
    <2>2. QED
      BY <1>2, <1>3, <2>1 DEF Dev
  <1>5. SameBut(r, a, {"nbr", "size"})
    BY <1>2, <1>3 DEF Dev, SameBut, Fields
  <1>6. SameBut(r, d, {"dataLen", "data", "ret", "txc", "nbr", "size"})
    BY <1>3, <1>5 DEF SameBut
  <1>7. a.txc = d.txc
    BY <1>3 DEF SameBut, Fields
  <1>8. QED
    <2>1. r.dataLen > 0 /\ d.cbw.op # "REQUEST_SENSE" /\ Geometry(r) /\ r.txc = d.txc
      BY <1>4, <1>7 DEF Geometry
    <2>2. QED
      BY <1>1, <1>4, <1>6, <2>1, Zenon DEF Served, r

(* A command that comes in when the device waits for one, or one that does *)
(* not depend on the state.                                                *)
LEMMA HandlerAtIdle ==
    ASSUME UsbMscAssumption, NEW d \in Dev,
           d.state = "IDLE" \/ d.cbw.op \notin {"READ_10", "WRITE10"},
           NEW ready \in BOOLEAN, NEW works \in BOOLEAN
    PROVE  LET r == SCSI_CmdHandler(d, ready, works)
           IN  \/ Refused(r, d) \/ Served(r, d) \/ Empty(r, d)
               \/ works /\ ReadStarted(r, d)
               \/ WriteStarted(r, d)
  <1> DEFINE r == SCSI_CmdHandler(d, ready, works)
  <1>0. {"ILLEGAL_REQUEST", "NOT_READY", "OUT_OF_RANGE"} \subseteq FailKeys
    BY DEF FailKeys, Keys
  <1>1. CASE d.cbw.op = "TEST_UNIT_READY"
    <2>1. r = SCSI_TestUnitReady(d, ready) /\ d.cbw.op \in NoDataOps
      BY <1>1 DEF SCSI_CmdHandler, NoDataOps
    <2>2. CASE d.cbw.xfer # 0
      BY <1>0, <2>1, <2>2, FailRefuses DEF SCSI_TestUnitReady
    <2>3. CASE d.cbw.xfer = 0 /\ ~ready
      BY <1>0, <2>1, <2>3, FailRefuses DEF SCSI_TestUnitReady
    <2>4. CASE d.cbw.xfer = 0 /\ ready
      BY <2>1, <2>4, AnswerEmpty DEF SCSI_TestUnitReady
    <2>5. QED
      BY <2>2, <2>3, <2>4
  <1>2. CASE d.cbw.op = "INQUIRY"
    <2>1. r = Answer(d, 36, << >>) /\ d.cbw.op \in DataOps \ {"REQUEST_SENSE"} /\ 36 \in Nat /\ 36 > 0
      BY <1>2 DEF SCSI_CmdHandler, DataOps
    <2>2. QED
      BY <2>1, AnswerServes, Zenon
  <1>3. CASE d.cbw.op = "MODE_SENSE"
    <2>1. r = Answer(d, 8, << >>) /\ d.cbw.op \in DataOps \ {"REQUEST_SENSE"} /\ 8 \in Nat /\ 8 > 0
      BY <1>3 DEF SCSI_CmdHandler, DataOps
    <2>2. QED
      BY <2>1, AnswerServes, Zenon
  <1>4. CASE d.cbw.op = "REQUEST_SENSE"
    <2>1. r = SCSI_RequestSense(d)
      BY <1>4 DEF SCSI_CmdHandler
    <2>2. QED
      BY <1>4, <2>1, SenseServes
  <1>5. CASE d.cbw.op = "READ_FORMAT_CAPACITIES"
    <2>1. r = SCSI_ReadFormatCapacity(d, ready) /\ d.cbw.op \in DataOps \ {"REQUEST_SENSE"}
      BY <1>5 DEF SCSI_CmdHandler, DataOps
    <2>2. CASE ready
      <3>1. r = Answer(d, 12, << >>) /\ 12 \in Nat /\ 12 > 0
        BY <2>1, <2>2 DEF SCSI_ReadFormatCapacity
      <3>2. QED
        BY <2>1, <3>1, AnswerServes, Zenon
    <2>3. CASE ~ready
      BY <1>0, <2>1, <2>3, FailRefuses DEF SCSI_ReadFormatCapacity
    <2>4. QED
      BY <2>2, <2>3
  <1>6. CASE d.cbw.op = "READ_CAPACITY_10"
    <2>1. r = SCSI_ReadCapacity10(d, ready)
      BY <1>6 DEF SCSI_CmdHandler
    <2>2. CASE ready
      <3>1. r = SCSI_ReadCapacity10(d, TRUE)
        BY <2>1, <2>2
      <3>2. QED
        BY <1>6, <3>1, CapacityServes
    <2>3. CASE ~ready
      BY <1>0, <2>1, <2>3, FailRefuses DEF SCSI_ReadCapacity10
    <2>4. QED
      BY <2>2, <2>3
  <1>7. CASE d.cbw.op = "READ_10"
    <2>1. r = SCSI_Read10(d, ready, works)
      BY <1>7 DEF SCSI_CmdHandler
    <2>2. Refused(r, d) \/ (works /\ ReadStarted(r, d))
      <3>1. d.state = "IDLE"
        BY <1>7
      <3>2. QED
        BY <1>7, <2>1, <3>1, Read10AtIdle, Zenon
    <2>3. QED
      BY <2>2
  <1>8. CASE d.cbw.op = "WRITE10"
    <2>1. r = SCSI_Write10(d, ready, works)
      BY <1>8 DEF SCSI_CmdHandler
    <2>2. Refused(r, d) \/ WriteStarted(r, d)
      <3>1. d.state = "IDLE"
        BY <1>8
      <3>2. QED
        BY <1>8, <2>1, <3>1, Write10AtIdle, Zenon
    <2>3. QED
      BY <2>2
  <1>9. CASE d.cbw.op = "VERIFY_10"
    <2>1. /\ r = IF InRange(d) THEN Answer(d, 0, << >>) ELSE Fail(d, "OUT_OF_RANGE")
          /\ d.cbw.op \in NoDataOps /\ d.cbw.op # "TEST_UNIT_READY"
      BY <1>9 DEF SCSI_CmdHandler, NoDataOps
    <2>2. CASE InRange(d)
      BY <2>1, <2>2, AnswerEmpty
    <2>3. CASE ~InRange(d)
      BY <1>0, <2>1, <2>3, FailRefuses
    <2>4. QED
      BY <2>2, <2>3
  <1>10. CASE d.cbw.op = "START_STOP_UNIT"
    <2>1. r = Answer(d, 0, << >>) /\ d.cbw.op \in NoDataOps /\ d.cbw.op # "TEST_UNIT_READY"
      BY <1>10 DEF SCSI_CmdHandler, NoDataOps
    <2>2. QED
      BY <2>1, AnswerEmpty
  <1>11. CASE d.cbw.op \notin DataOps \cup NoDataOps \cup {"READ_10", "WRITE10"}
    <2>1. r = Fail(d, "ILLEGAL_REQUEST")
      BY <1>11 DEF SCSI_CmdHandler, DataOps, NoDataOps
    <2>2. QED
      BY <1>0, <2>1, FailRefuses
  <1>12. QED
    BY <1>1, <1>2, <1>3, <1>4, <1>5, <1>6, <1>7, <1>8, <1>9, <1>10, <1>11 DEF DataOps, NoDataOps

(* The next packet of a read or a write. *)
LEMMA HandlerWhenBusy ==
    ASSUME NEW d \in Dev, d.state # "IDLE", NEW ready \in BOOLEAN, NEW works \in BOOLEAN
    PROVE  /\ d.cbw.op = "READ_10" =>
                 SCSI_CmdHandler(d, ready, works) =
                    IF works THEN SCSI_Read(d, TRUE) ELSE Fail(d, "HARDWARE_ERROR")
           /\ d.cbw.op = "WRITE10" =>
                 SCSI_CmdHandler(d, ready, works) =
                    IF works THEN SCSI_Write(d, TRUE) ELSE Fail(d, "HARDWARE_ERROR")
  <1>1. d.cbw.op = "READ_10" => SCSI_CmdHandler(d, ready, works) = SCSI_Read(d, works)
    BY DEF SCSI_CmdHandler, SCSI_Read10
  <1>2. d.cbw.op = "WRITE10" => SCSI_CmdHandler(d, ready, works) = SCSI_Write(d, works)
    BY DEF SCSI_CmdHandler, SCSI_Write10
  <1>3. SCSI_Read(d, works) = IF works THEN SCSI_Read(d, TRUE) ELSE Fail(d, "HARDWARE_ERROR")
    <2>1. CASE works = TRUE
      BY <2>1
    <2>2. CASE works = FALSE
      BY <2>2 DEF SCSI_Read
    <2>3. QED
      BY <2>1, <2>2
  <1>4. SCSI_Write(d, works) = IF works THEN SCSI_Write(d, TRUE) ELSE Fail(d, "HARDWARE_ERROR")
    <2>1. CASE works = TRUE
      BY <2>1
    <2>2. CASE works = FALSE
      BY <2>2 DEF SCSI_Write
    <2>3. QED
      BY <2>1, <2>2
  <1>5. QED
    BY <1>1, <1>2, <1>3, <1>4, Zenon

LEMMA HandlerType ==
    ASSUME UsbMscAssumption, NEW d \in Dev, NEW ready \in BOOLEAN, NEW works \in BOOLEAN
    PROVE  SCSI_CmdHandler(d, ready, works) \in Dev
  <1> DEFINE r == SCSI_CmdHandler(d, ready, works)
  <1>1. CASE d.state = "IDLE" \/ d.cbw.op \notin {"READ_10", "WRITE10"}
    <2>1. \/ Refused(r, d) \/ Served(r, d) \/ Empty(r, d) \/ ReadStarted(r, d) \/ WriteStarted(r, d)
      BY <1>1, HandlerAtIdle, Zenon
    <2>2. ReadStarted(r, d) => r \in Dev
      <3>1. Scaled(d) \in Dev
        BY ScaledEffect, Zenon
      <3>2. SCSI_Read(Scaled(d), TRUE) \in Dev
        BY <3>1, ReadEffect, Zenon
      <3>3. QED
        BY <3>2 DEF ReadStarted
    <2>3. QED
      BY <2>1, <2>2, Zenon DEF Refused, Served, Empty, WriteStarted
  <1>2. CASE d.state # "IDLE" /\ d.cbw.op \in {"READ_10", "WRITE10"}
    <2>1. "HARDWARE_ERROR" \in Keys
      BY DEF Keys
    <2>2. Fail(d, "HARDWARE_ERROR") \in Dev
      BY <2>1, FailEffect, Zenon
    <2>3. SCSI_Read(d, TRUE) \in Dev /\ SCSI_Write(d, TRUE) \in Dev
      BY ReadEffect, WriteEffect, Zenon
    <2>4. r \in {SCSI_Read(d, TRUE), SCSI_Write(d, TRUE), Fail(d, "HARDWARE_ERROR")}
      BY <1>2, HandlerWhenBusy
    <2>5. QED
      BY <2>2, <2>3, <2>4
  <1>3. QED
    BY <1>1, <1>2, Zenon

-----------------------------------------------------------------------------
(* The functions of the bulk-only transport. *)

(* USBD_MSC_BOT_DecodeCBW starts with an empty count. *)
Prepared(d) == [d EXCEPT !.csw.tag = d.tag, !.csw.residue = d.cbw.xfer, !.acc = << >>]

LEMMA PreparedEffect ==
    ASSUME NEW d \in Dev
    PROVE  LET e == Prepared(d)
           IN  /\ e \in Dev /\ e.csw.tag = d.tag /\ e.csw.residue = d.cbw.xfer /\ e.acc = << >>
               /\ SameBut(e, d, {"csw", "acc"})
  <1> DEFINE c == [d.csw EXCEPT !.tag = d.tag, !.residue = d.cbw.xfer]
             e == [d EXCEPT !.csw = c, !.acc = << >>]
  <1>1. d.csw \in Csw /\ d.tag \in Nat /\ d.cbw.xfer \in Nat /\ << >> \in Seq(Nat)
    BY DEF Dev, CommandType
  <1>2. c \in Csw /\ c.tag = d.tag /\ c.residue = d.cbw.xfer
    <2>1. d.cbw.xfer \in Int
      BY <1>1
    <2>2. QED
      BY <1>1, <2>1 DEF Csw
  <1>3. Prepared(d) = e
    BY <1>1 DEF Prepared, Dev, Csw
  <1> HIDE DEF c
  <1>4. e \in Dev /\ e.csw = c /\ e.acc = << >>
    BY <1>1, <1>2 DEF Dev
  <1>5. SameBut(e, d, {"csw", "acc"})
    BY DEF Dev, SameBut, Fields
  <1>6. QED
    BY <1>2, <1>3, <1>4, <1>5

(* An invalid wrapper is noted, and nothing else happens. *)
LEMMA InvalidEffect ==
    ASSUME NEW d \in Dev, d.cbw.op = "INVALID", NEW ready \in BOOLEAN, NEW works \in BOOLEAN
    PROVE  LET r == USBD_MSC_BOT_DecodeCBW(d, ready, works)
           IN  r \in Dev /\ SameBut(r, d, {"csw", "acc", "sense", "put", "status"})
  <1> DEFINE e == Prepared(d)
             s == [e.sense EXCEPT ![e.put] = "ILLEGAL_REQUEST"]
             p == Next4(e.put)
             x == [e EXCEPT !.sense = s, !.put = p]
             r == USBD_MSC_BOT_DecodeCBW(d, ready, works)
  <1>1. e \in Dev /\ SameBut(e, d, {"csw", "acc"})
    BY PreparedEffect, Zenon
  <1>2. r = [x EXCEPT !.status = "ERROR"]
    BY DEF USBD_MSC_BOT_DecodeCBW, SCSI_PutSenseCode, Prepared
  <1> HIDE DEF r, e
  <1>3. s \in [0..3 -> Keys] /\ p \in 0..3
    <2>1. e.sense \in [0..3 -> Keys] /\ e.put \in 0..3 /\ "ILLEGAL_REQUEST" \in Keys
      BY <1>1 DEF Dev, Keys
    <2>2. QED
      BY <2>1 DEF Next4, SCSI_SENSE_LIST_NUMBER
  <1> HIDE DEF s, p
  <1>4. r = [e EXCEPT !.sense = s, !.put = p, !.status = "ERROR"]
    BY <1>1, <1>2 DEF Dev
  <1>5. r \in Dev
    BY <1>1, <1>3, <1>4 DEF Dev
  <1>6. SameBut(r, e, {"sense", "put", "status"})
    BY <1>1, <1>4 DEF Dev, SameBut, Fields
  <1>7. SameBut(r, d, {"csw", "acc", "sense", "put", "status"})
    BY <1>1, <1>6 DEF SameBut
  <1>8. QED
    BY <1>5, <1>7 DEF r

LEMMA DecodeType ==
    ASSUME UsbMscAssumption, NEW d \in Dev, NEW ready \in BOOLEAN, NEW works \in BOOLEAN
    PROVE  USBD_MSC_BOT_DecodeCBW(d, ready, works) \in Dev
  <1> DEFINE e == Prepared(d)
             h == SCSI_CmdHandler(e, ready, works)
             r == USBD_MSC_BOT_DecodeCBW(d, ready, works)
  <1>1. e \in Dev
    BY PreparedEffect, Zenon
  <1>2. h \in Dev
    BY <1>1, HandlerType, Zenon
  <1>3. /\ USBD_MSC_BOT_Stall(h) \in Dev /\ USBD_MSC_BOT_TxData(h) \in Dev
        /\ USBD_MSC_BOT_TxCSW(h, "OK") \in Dev
    BY <1>2, StallEffect, BotTxDataEffect, TxCSWEffect, Zenon
  <1>4. CASE d.cbw.op = "INVALID"
    BY <1>4, InvalidEffect, Zenon
  <1>5. CASE d.cbw.op # "INVALID"
    <2>1. r \in {h, USBD_MSC_BOT_Stall(h), USBD_MSC_BOT_TxData(h), USBD_MSC_BOT_TxCSW(h, "OK")}
      BY <1>5 DEF USBD_MSC_BOT_DecodeCBW, Prepared
    <2> HIDE DEF r, h
    <2>2. QED
      BY <1>2, <1>3, <2>1 DEF r
  <1>6. QED
    BY <1>4, <1>5

LEMMA OutDataType ==
    ASSUME UsbMscAssumption, NEW d \in Dev, NEW ready \in BOOLEAN, NEW works \in BOOLEAN
    PROVE  USBD_MSC_BOT_OutData(d, ready, works) \in Dev
  <1> DEFINE h == SCSI_CmdHandler(d, ready, works)
             r == USBD_MSC_BOT_OutData(d, ready, works)
  <1>1. h \in Dev /\ USBD_MSC_BOT_DecodeCBW(d, ready, works) \in Dev
    BY HandlerType, DecodeType, Zenon
  <1>2. USBD_MSC_BOT_TxCSW(h, "FAIL") \in Dev
    BY <1>1, TxCSWEffect, Zenon
  <1>3. r \in {d, h, USBD_MSC_BOT_TxCSW(h, "FAIL"), USBD_MSC_BOT_DecodeCBW(d, ready, works)}
    BY DEF USBD_MSC_BOT_OutData
  <1> HIDE DEF r, h
  <1>4. QED
    BY <1>1, <1>2, <1>3 DEF r

LEMMA InDataType ==
    ASSUME UsbMscAssumption, NEW d \in Dev, NEW ready \in BOOLEAN, NEW works \in BOOLEAN
    PROVE  USBD_MSC_BOT_InData(d, ready, works) \in Dev
  <1> DEFINE h == SCSI_CmdHandler(d, ready, works)
             r == USBD_MSC_BOT_InData(d, ready, works)
  <1>1. h \in Dev
    BY HandlerType, Zenon
  <1>2. USBD_MSC_BOT_TxCSW(h, "FAIL") \in Dev /\ USBD_MSC_BOT_TxCSW(d, "OK") \in Dev
    BY <1>1, TxCSWEffect, Zenon
  <1>3. r \in {d, h, USBD_MSC_BOT_TxCSW(h, "FAIL"), USBD_MSC_BOT_TxCSW(d, "OK")}
    BY DEF USBD_MSC_BOT_InData
  <1> HIDE DEF r, h
  <1>4. QED
    BY <1>1, <1>2, <1>3 DEF r

(* The two halves of CLEAR_FEATURE(ENDPOINT_HALT): the endpoint, then the  *)
(* class.                                                                  *)
Unhalted(d, ep) ==
    IF ep = "in" THEN [d EXCEPT !.in.st = IF @ = "STALL" THEN "NAK" ELSE @]
    ELSE [d EXCEPT !.out.st = IF @ = "STALL" THEN "NAK" ELSE @]

LEMMA UnhaltedEffect ==
    ASSUME NEW d \in Dev
    PROVE  /\ Unhalted(d, "in") \in Dev /\ SameBut(Unhalted(d, "in"), d, {"in"})
           /\ Unhalted(d, "in").in.st = IF d.in.st = "STALL" THEN "NAK" ELSE d.in.st
           /\ Unhalted(d, "out") \in Dev /\ SameBut(Unhalted(d, "out"), d, {"out"})
           /\ Unhalted(d, "out").out.st = IF d.out.st = "STALL" THEN "NAK" ELSE d.out.st
           /\ Unhalted(d, "out").out.what = d.out.what
  <1> DEFINE i == [d.in EXCEPT !.st = IF @ = "STALL" THEN "NAK" ELSE @]
             o == [d.out EXCEPT !.st = IF @ = "STALL" THEN "NAK" ELSE @]
             x == [d EXCEPT !.in = i]
             y == [d EXCEPT !.out = o]
  <1>1. d.in \in InEp /\ d.out \in OutEp
    BY DEF Dev
  <1>2. i \in InEp /\ i.st = IF d.in.st = "STALL" THEN "NAK" ELSE d.in.st
    BY <1>1 DEF InEp, St
  <1>3. o \in OutEp /\ o.st = (IF d.out.st = "STALL" THEN "NAK" ELSE d.out.st) /\ o.what = d.out.what
    BY <1>1 DEF OutEp, St
  <1>4. Unhalted(d, "in") = x /\ Unhalted(d, "out") = y
    BY DEF Unhalted
  <1> HIDE DEF i, o
  <1>5. x \in Dev /\ x.in = i /\ y \in Dev /\ y.out = o
    BY <1>2, <1>3 DEF Dev
  <1>6. SameBut(x, d, {"in"}) /\ SameBut(y, d, {"out"})
    BY DEF Dev, SameBut, Fields
  <1> HIDE DEF x, y
  <1>7. QED
    BY <1>2, <1>3, <1>4, <1>5, <1>6, Zenon

LEMMA ClearFeatureType ==
    ASSUME NEW d \in Dev, NEW ep \in {"in", "out"}
    PROVE  USBD_MSV_BOT_ClearFeatureHandler(d, ep) \in Dev
  <1> DEFINE x == [d EXCEPT !.in.st = "NAK", !.status = "NORMAL"]
             i == [d.in EXCEPT !.st = "NAK"]
             r == USBD_MSV_BOT_ClearFeatureHandler(d, ep)
  <1>1. d.in \in InEp
    BY DEF Dev
  <1>2. i \in InEp
    BY <1>1 DEF InEp, St
  <1>3. x = [d EXCEPT !.in = i, !.status = "NORMAL"]
    BY DEF Dev
  <1> HIDE DEF i
  <1>4. x \in Dev
    BY <1>2, <1>3 DEF Dev
  <1>5. USBD_MSC_BOT_TxCSW(d, "FAIL") \in Dev
    BY TxCSWEffect, Zenon
  <1>6. r \in {d, x, USBD_MSC_BOT_TxCSW(d, "FAIL")}
    BY DEF USBD_MSV_BOT_ClearFeatureHandler
  <1> HIDE DEF r, x
  <1>7. QED
    BY <1>4, <1>5, <1>6 DEF r

LEMMA UnstallType ==
    ASSUME NEW d \in Dev, NEW ep \in {"in", "out"}
    PROVE  /\ Unstall(d, ep) \in Dev
           /\ AppClears => Unstall(d, ep) = USBD_MSV_BOT_ClearFeatureHandler(Unhalted(d, ep), ep)
  <1>1. Unhalted(d, ep) \in Dev
    BY UnhaltedEffect
  <1>2. USBD_MSV_BOT_ClearFeatureHandler(Unhalted(d, ep), ep) \in Dev
    BY <1>1, ClearFeatureType, Zenon
  <1>3. Unstall(d, ep) = IF AppClears THEN USBD_MSV_BOT_ClearFeatureHandler(Unhalted(d, ep), ep) ELSE d
    BY DEF Unstall, Unhalted
  <1>4. QED
    BY <1>2, <1>3

LEMMA ResetEffect ==
    ASSUME NEW d \in Dev
    PROVE  LET r == USBD_MSC_BOT_Reset(d)
           IN  /\ r \in Dev /\ r.state = "IDLE" /\ r.status = "RECOVERY"
               /\ r.out.st = "VALID" /\ r.out.what = "cbw"
               /\ SameBut(r, d, {"state", "status", "out"})
  <1> DEFINE e == [d EXCEPT !.state = "IDLE", !.status = "RECOVERY"]
             r == ReceiveCBW(e)
  <1>1. e \in Dev /\ e.state = "IDLE" /\ e.status = "RECOVERY"
    BY DEF Dev, States
  <1>2. SameBut(e, d, {"state", "status"})
    BY DEF Dev, SameBut, Fields
  <1> HIDE DEF e
  <1>3. r \in Dev /\ r.out.st = "VALID" /\ r.out.what = "cbw" /\ SameBut(r, e, {"out"})
    BY <1>1, ReceiveCBWEffect, Zenon
  <1> HIDE DEF r
  <1>4. r.state = e.state /\ r.status = e.status
    BY <1>3 DEF SameBut, Fields
  <1>5. SameBut(r, d, {"state", "status", "out"})
    BY <1>2, <1>3 DEF SameBut
  <1>6. QED
    BY <1>1, <1>3, <1>4, <1>5 DEF r, e, USBD_MSC_BOT_Reset

-----------------------------------------------------------------------------
(* Type correctness. *)

Stages == {"idle", "dataIn", "dataOut", "csw", "recover"}
HostType == [stage : Stages, tag : Nat, cmd : CommandType, got : Nat, body : Seq(Item), csw : Csw,
             due : Keys]
IrqType == [in : BOOLEAN, out : BOOLEAN]
MscType == bot \in Dev /\ done \in IrqType /\ peer \in HostType

LEMMA TypeParts ==
    ASSUME MscType
    PROVE  BotTypeOK
  <1>1. /\ bot.state \in States /\ bot.status \in {"NORMAL", "RECOVERY", "ERROR"}
        /\ bot.in \in InEp /\ bot.out \in OutEp /\ bot.addr \in 0..Word - 1
        /\ bot.len \in 0..Word - 1 /\ bot.put \in 0..3 /\ bot.txc \in 0..3 /\ bot.csw \in Csw
    BY DEF MscType, Dev
  <1>2. peer.got \in Nat /\ peer.stage \in Stages
    BY DEF MscType, HostType
  <1>3. bot.in.st \in St /\ bot.out.st \in St
    BY <1>1 DEF InEp, OutEp
  <1>4. bot.csw.residue \in Int
    BY <1>1 DEF Csw
  <1>5. QED
    BY <1>1, <1>2, <1>3, <1>4 DEF BotTypeOK, States, St, Stages, SCSI_SENSE_LIST_NUMBER

(* What the host's steps do to the device's endpoints. *)
InTaken(d) == [d EXCEPT !.in.st = "NAK"]

LEMMA InTakenEffect ==
    ASSUME NEW d \in Dev
    PROVE  /\ InTaken(d) \in Dev /\ InTaken(d).in.st = "NAK" /\ InTaken(d).in.what = d.in.what
           /\ SameBut(InTaken(d), d, {"in"})
  <1> DEFINE i == [d.in EXCEPT !.st = "NAK"]
             x == [d EXCEPT !.in = i]
  <1>1. d.in \in InEp
    BY DEF Dev
  <1>2. i \in InEp /\ i.st = "NAK" /\ i.what = d.in.what
    BY <1>1 DEF InEp, St
  <1>3. InTaken(d) = x
    BY DEF InTaken
  <1> HIDE DEF i
  <1>4. x \in Dev /\ x.in = i
    BY <1>2 DEF Dev
  <1>5. SameBut(x, d, {"in"})
    BY DEF Dev, SameBut, Fields
  <1> HIDE DEF x
  <1>6. QED
    BY <1>2, <1>3, <1>4, <1>5

LEMMA OutTakenEffect ==
    ASSUME NEW d \in Dev, NEW c \in CommandType, NEW t \in Nat
    PROVE  LET r == [d EXCEPT !.out.st = "NAK", !.cbw = c, !.tag = t]
           IN  /\ r \in Dev /\ r.out.st = "NAK" /\ r.cbw = c /\ r.tag = t
               /\ SameBut(r, d, {"out", "cbw", "tag"})
  <1> DEFINE o == [d.out EXCEPT !.st = "NAK"]
             x == [d EXCEPT !.out = o, !.cbw = c, !.tag = t]
             r == [d EXCEPT !.out.st = "NAK", !.cbw = c, !.tag = t]
  <1>1. d.out \in OutEp
    BY DEF Dev
  <1>2. o \in OutEp /\ o.st = "NAK"
    BY <1>1 DEF OutEp, St
  <1>3. r = x
    OBVIOUS
  <1> HIDE DEF o, r
  <1>4. x \in Dev /\ x.out = o /\ x.cbw = c /\ x.tag = t
    BY <1>2 DEF Dev
  <1>5. SameBut(x, d, {"out", "cbw", "tag"})
    BY DEF Dev, SameBut, Fields
  <1> HIDE DEF x
  <1>6. QED
    BY <1>2, <1>3, <1>4, <1>5 DEF r

LEMMA DataOutEffect ==
    ASSUME NEW d \in Dev
    PROVE  LET r == [d EXCEPT !.out.st = "NAK",
                              !.cbw.op = IF d.out.what = "cbw" THEN "INVALID" ELSE @]
           IN  /\ r \in Dev /\ r.out.st = "NAK" /\ (d.out.what # "cbw" => r.cbw = d.cbw)
               /\ SameBut(r, d, {"out", "cbw"})
  <1> DEFINE o == [d.out EXCEPT !.st = "NAK"]
             w == IF d.out.what = "cbw" THEN "INVALID" ELSE d.cbw.op
             c == [d.cbw EXCEPT !.op = w]
             x == [d EXCEPT !.out = o, !.cbw = c]
             r == [d EXCEPT !.out.st = "NAK",
                            !.cbw.op = IF d.out.what = "cbw" THEN "INVALID" ELSE @]
  <1>1. d.out \in OutEp /\ d.cbw \in CommandType
    BY DEF Dev
  <1>2. o \in OutEp /\ o.st = "NAK"
    BY <1>1 DEF OutEp, St
  <1>3. w \in Ops
    <2>1. "INVALID" \in Ops
      BY DEF Ops
    <2>2. d.cbw.op \in Ops
      BY <1>1 DEF CommandType
    <2>3. QED
      BY <2>1, <2>2
  <1>4. r = x
    OBVIOUS
  <1>5. d.out.what # "cbw" => w = d.cbw.op
    OBVIOUS
  <1> HIDE DEF w
  <1>6. c \in CommandType
    BY <1>1, <1>3 DEF CommandType
  <1>7. d.out.what # "cbw" => c = d.cbw
    BY <1>1, <1>5 DEF CommandType
  <1> HIDE DEF o, r, c
  <1>8. x \in Dev /\ x.out = o /\ x.cbw = c
    BY <1>2, <1>6 DEF Dev
  <1>9. SameBut(x, d, {"out", "cbw"})
    BY DEF Dev, SameBut, Fields
  <1> HIDE DEF x
  <1>10. QED
    BY <1>2, <1>4, <1>7, <1>8, <1>9 DEF r

LEMMA InitType ==
    ASSUME UsbMscAssumption, BotInit
    PROVE  MscType
  <1>1. NoCommand \in CommandType
    <2>1. "none" \in Ops
      BY DEF Ops
    <2>2. QED
      BY <2>1 DEF NoCommand, CommandType
  <1>2. [tag |-> 0, residue |-> 0, status |-> "OK"] \in Csw
    BY DEF Csw
  <1>3. << >> \in Seq(Item) /\ << >> \in Seq(Nat)
    OBVIOUS
  <1>4. [k \in 0..SCSI_SENSE_LIST_NUMBER - 1 |-> "NO_SENSE"] \in [0..3 -> Keys]
    BY DEF SCSI_SENSE_LIST_NUMBER, Keys
  <1>5. /\ [st |-> "NAK", what |-> "none", len |-> 0, body |-> << >>] \in InEp
        /\ [st |-> "VALID", what |-> "cbw", len |-> 31] \in OutEp
    BY <1>3 DEF InEp, OutEp, St, Contents
  <1>6. 0 \in 0..Word - 1
    BY DEF UsbMscAssumption
  <1>7. bot \in Dev
    BY <1>1, <1>2, <1>3, <1>4, <1>5, <1>6 DEF BotInit, Dev, States
  <1>8. done \in IrqType
    BY DEF BotInit, IrqType
  <1>9. peer \in HostType
    BY <1>1, <1>2, <1>3 DEF BotInit, HostType, Stages, Keys
  <1>10. QED
    BY <1>7, <1>8, <1>9 DEF MscType

(* The code the device last noted, which the host takes for the reason. *)
LEMMA LastKey ==
    ASSUME NEW d \in Dev
    PROVE  (d.put + 3) % 4 \in 0..3 /\ d.sense[(d.put + 3) % 4] \in Keys
  <1>1. d.put \in 0..3 /\ d.sense \in [0..3 -> Keys]
    BY DEF Dev
  <1>2. (d.put + 3) % 4 \in 0..3
    BY <1>1
  <1>3. QED
    BY <1>1, <1>2

LEMMA IsrType ==
    ASSUME UsbMscAssumption, MscType, Bulk
    PROVE  MscType'
  <1>1. PICK ready \in BOOLEAN, works \in BOOLEAN : Bulk_Out(ready, works) \/ Bulk_In(ready, works)
    BY DEF Bulk
  <1>2. bot' \in Dev
    <2>1. bot \in Dev
      BY DEF MscType
    <2>2. bot' \in {USBD_MSC_BOT_OutData(bot, ready, works), USBD_MSC_BOT_InData(bot, ready, works)}
      BY <1>1 DEF Bulk_Out, Bulk_In
    <2>3. QED
      BY <2>1, <2>2, OutDataType, InDataType, Zenon
  <1>3. done' \in IrqType
    BY <1>1 DEF Bulk_Out, Bulk_In, MscType, IrqType
  <1>4. peer' = peer
    BY <1>1 DEF Bulk_Out, Bulk_In
  <1>5. QED
    BY <1>2, <1>3, <1>4 DEF MscType

LEMMA SendType ==
    ASSUME MscType, NEW c \in CommandType, Host_SendCBW(c)
    PROVE  MscType'
  <1>1. bot \in Dev /\ peer.tag \in Nat /\ peer.tag + 1 \in Nat /\ << >> \in Seq(Item) /\ 0 \in Nat
    BY DEF MscType, HostType
  <1>2. bot' = [bot EXCEPT !.out.st = "NAK", !.cbw = c, !.tag = peer.tag + 1]
    BY DEF Host_SendCBW
  <1>3. bot' \in Dev
    BY <1>1, <1>2, OutTakenEffect, Zenon
  <1>4. done' \in IrqType
    BY DEF Host_SendCBW, MscType, IrqType
  <1>5. peer' \in HostType
    <2>1. DataStage(c) \in Stages
      BY DEF DataStage, Stages
    <2>2. peer \in HostType /\ peer' = [peer EXCEPT !.stage = DataStage(c), !.tag = peer.tag + 1,
                                                   !.cmd = c, !.got = 0, !.body = << >>]
      BY DEF MscType, Host_SendCBW
    <2>3. QED
      BY <1>1, <2>1, <2>2 DEF HostType
  <1>6. QED
    BY <1>3, <1>4, <1>5 DEF MscType

LEMMA DataInType ==
    ASSUME MscType, Host_DataIn \/ Host_TakeCSW
    PROVE  MscType' /\ bot' = InTaken(bot)
  <1>1. bot \in Dev /\ bot.in \in InEp /\ peer \in HostType
    BY DEF MscType, Dev
  <1>2. bot' = InTaken(bot)
    BY DEF Host_DataIn, Host_TakeCSW, InTaken
  <1>3. bot' \in Dev
    BY <1>1, <1>2, InTakenEffect
  <1>4. done' \in IrqType
    BY DEF Host_DataIn, Host_TakeCSW, MscType, IrqType
  <1>5. CASE Host_DataIn
    <2> DEFINE g == peer.got + bot.in.len
               b == IF bot.in.what = "csw" THEN peer.body ELSE peer.body \o bot.in.body
               s == IF (bot.in.what = "csw" \/ peer.cmd.op # "READ_10" \/ bot.in.len = 0)
                        \/ g >= peer.cmd.xfer THEN "csw" ELSE peer.stage
    <2>1. bot.in.len \in Nat /\ (bot.in.what # "csw" => bot.in.body \in Seq(Item))
      BY <1>1 DEF InEp
    <2>2. g \in Nat /\ b \in Seq(Item)
      BY <1>1, <2>1 DEF HostType
    <2>3. s \in Stages
      BY <1>1 DEF HostType, Stages
    <2>4. peer' = [peer EXCEPT !.got = g, !.body = b, !.stage = s]
      BY <1>5 DEF Host_DataIn
    <2> HIDE DEF g, b, s
    <2>5. peer' \in HostType
      BY <1>1, <2>2, <2>3, <2>4 DEF HostType
    <2>6. QED
      BY <1>2, <1>3, <1>4, <2>5 DEF MscType
  <1>6. CASE Host_TakeCSW
    <2>1. "idle" \in Stages /\ "recover" \in Stages
      BY DEF Stages
    <2>2. CASE bot.in.what = "csw" /\ bot.in.body.tag = peer.tag
      <3>1. bot.in.body \in Csw
        BY <1>1, <2>2 DEF InEp
      <3>2. Why(bot.in.body) \in Keys
        BY <1>1, LastKey DEF Why, Keys
      <3>3. peer' = [peer EXCEPT !.stage = "idle", !.csw = bot.in.body, !.due = Why(bot.in.body)]
        BY <1>6, <2>2 DEF Host_TakeCSW
      <3>4. peer' \in HostType
        BY <1>1, <2>1, <3>1, <3>2, <3>3 DEF HostType
      <3>5. QED
        BY <1>2, <1>3, <1>4, <3>4 DEF MscType
    <2>3. CASE ~(bot.in.what = "csw" /\ bot.in.body.tag = peer.tag)
      <3>1. peer' = [peer EXCEPT !.stage = "recover"]
        BY <1>6, <2>3 DEF Host_TakeCSW
      <3>2. peer' \in HostType
        BY <1>1, <2>1, <3>1 DEF HostType
      <3>3. QED
        BY <1>2, <1>3, <1>4, <3>2 DEF MscType
    <2>4. QED
      BY <2>2, <2>3
  <1>7. QED
    BY <1>5, <1>6

LEMMA OtherHostType ==
    ASSUME UsbMscAssumption, MscType,
           Host_DataOut \/ Host_ClearHalt \/ Host_Timeout \/ Host_Recover
    PROVE  MscType'
  <1>1. bot \in Dev /\ done \in IrqType /\ peer \in HostType
    BY DEF MscType
  <1>2. CASE Host_DataOut
    <2> DEFINE g == Lesser(peer.cmd.xfer, peer.got + MediaPacket)
               s == IF g = peer.cmd.xfer THEN "csw" ELSE peer.stage
    <2>1. bot' = [bot EXCEPT !.out.st = "NAK",
                             !.cbw.op = IF bot.out.what = "cbw" THEN "INVALID" ELSE @]
      BY <1>2 DEF Host_DataOut
    <2>2. bot' \in Dev
      BY <1>1, <2>1, DataOutEffect
    <2>3. done' \in IrqType
      BY <1>1, <1>2 DEF Host_DataOut, IrqType
    <2>4. g \in Nat
      <3>1. peer.cmd.xfer \in Nat /\ peer.got \in Nat /\ MediaPacket \in Nat
        BY <1>1 DEF HostType, CommandType, UsbMscAssumption
      <3>2. QED
        BY <3>1 DEF Lesser
    <2>5. s \in Stages
      BY <1>1 DEF HostType, Stages
    <2>6. peer' = [peer EXCEPT !.got = g, !.stage = s]
      BY <1>2 DEF Host_DataOut
    <2> HIDE DEF g, s
    <2>7. peer' \in HostType
      BY <1>1, <2>4, <2>5, <2>6 DEF HostType
    <2>8. QED
      BY <2>2, <2>3, <2>7 DEF MscType
  <1>3. CASE Host_ClearHalt
    <2>1. bot' \in Dev
      <3>1. bot' \in {Unstall(bot, "in"), Unstall(bot, "out")}
        BY <1>3 DEF Host_ClearHalt
      <3>2. QED
        BY <1>1, <3>1, UnstallType
    <2>2. done' = done
      BY <1>3 DEF Host_ClearHalt
    <2>3. peer' \in HostType
      <3>1. (IF AppClears THEN "csw" ELSE "recover") \in Stages
        BY DEF Stages
      <3>2. peer' = [peer EXCEPT !.stage = IF AppClears THEN "csw" ELSE "recover"]
        BY <1>3 DEF Host_ClearHalt
      <3>3. QED
        BY <1>1, <3>1, <3>2 DEF HostType
    <2>4. QED
      BY <1>1, <2>1, <2>2, <2>3 DEF MscType
  <1>4. CASE Host_Timeout
    <2>1. bot' = bot /\ done' = done /\ peer' = [peer EXCEPT !.stage = "recover"]
      BY <1>4 DEF Host_Timeout
    <2>2. peer' \in HostType
      BY <1>1, <2>1 DEF HostType, Stages
    <2>3. QED
      BY <1>1, <2>1, <2>2 DEF MscType
  <1>5. CASE Host_Recover
    <2>1. bot' \in Dev
      <3>1. USBD_MSC_BOT_Reset(bot) \in Dev
        BY <1>1, ResetEffect, Zenon
      <3>2. Unstall(USBD_MSC_BOT_Reset(bot), "in") \in Dev
        BY <3>1, UnstallType, Zenon
      <3>3. Unstall(Unstall(USBD_MSC_BOT_Reset(bot), "in"), "out") \in Dev
        BY <3>2, UnstallType, Zenon
      <3>4. QED
        BY <1>5, <3>3 DEF Host_Recover
    <2>2. done' = done
      BY <1>5 DEF Host_Recover
    <2>3. peer' \in HostType
      <3> DEFINE k == bot.sense[(bot.put + 3) % 4]
                 c == [tag |-> 0, residue |-> 0, status |-> "RESET"]
      <3>1. k \in Keys
        BY <1>1, LastKey
      <3>2. c \in Csw
        BY DEF Csw
      <3>3. peer' = [peer EXCEPT !.stage = "idle", !.due = k, !.csw = c]
        BY <1>5 DEF Host_Recover
      <3> HIDE DEF k, c
      <3>4. QED
        BY <1>1, <3>1, <3>2, <3>3 DEF HostType, Stages
    <2>4. QED
      BY <1>1, <2>1, <2>2, <2>3 DEF MscType
  <1>6. QED
    BY <1>2, <1>3, <1>4, <1>5

LEMMA NextType ==
    ASSUME UsbMscAssumption, Commands \subseteq CommandType, MscType, [BotNext]_botVars
    PROVE  MscType'
  <1>1. CASE Bulk
    BY <1>1, IsrType
  <1>2. CASE HostNext
    BY <1>2, DataInType, OtherHostType DEF HostNext
  <1>3. CASE \E c \in Commands : Host_SendCBW(c)
    BY <1>3, SendType
  <1>4. CASE UNCHANGED botVars
    BY <1>4 DEF botVars, MscType
  <1>5. QED
    BY <1>1, <1>2, <1>3, <1>4 DEF BotNext

(* The state of the transport, of the SCSI commands and of the host keeps  *)
(* its type, for every set of commands: the address and length of a        *)
(* transfer stay 32 bits, the ring of sense codes keeps its bounds.        *)
THEOREM MscTypeCorrect ==
    ASSUME UsbMscAssumption, Commands \subseteq CommandType
    PROVE  BotSpec => []BotTypeOK
  <1>1. BotInit => MscType
    BY InitType
  <1>2. MscType /\ [BotNext]_botVars => MscType'
    BY NextType
  <1>3. MscType => BotTypeOK
    BY TypeParts
  <1>4. QED
    BY <1>1, <1>2, <1>3, PTL DEF BotSpec

-----------------------------------------------------------------------------
(* Blocks and bytes. *)

(* The n blocks from b on. *)
Run(b, n) == [k \in 1..n |-> b + k - 1]

LEMMA Products ==
    ASSUME NEW a \in Nat, NEW b \in Nat, NEW s \in Nat, s > 0
    PROVE  /\ a * s \in Nat /\ (a <= b <=> a * s <= b * s) /\ (a = b <=> a * s = b * s)
           /\ (a * s) \div s = a /\ (a + b) * s = a * s + b * s
           /\ (b <= a => (a - b) * s = a * s - b * s)
           /\ (a > 0 <=> a * s > 0)
  <1>1. a * s \in Nat
    OBVIOUS
  <1>2. (a + b) * s = a * s + b * s
    OBVIOUS
  <1>3. b <= a => (a - b) * s = a * s - b * s
    OBVIOUS
  <1>4. a <= b => a * s <= b * s
    OBVIOUS
  <1>5. a > b => a * s > b * s
    OBVIOUS
  <1>6. (a * s) \div s = a
    OBVIOUS
  <1>7. a > 0 <=> a * s > 0
    OBVIOUS
  <1>8. (a <= b <=> a * s <= b * s) /\ (a = b <=> a * s = b * s)
    OBVIOUS
  <1>9. QED
    BY <1>1, <1>2, <1>3, <1>6, <1>7, <1>8

LEMMA RunFacts ==
    ASSUME NEW b \in Nat, NEW m \in Nat, NEW n \in Nat
    PROVE  /\ Run(b, m) \in Seq(Nat) /\ Len(Run(b, m)) = m /\ Run(b, 0) = << >>
           /\ Run(b, m) \o Run(b + m, n) = Run(b, m + n)
  <1>1. ASSUME NEW c \in Nat, NEW j \in Nat
        PROVE  Run(c, j) \in Seq(Nat) /\ Len(Run(c, j)) = j /\ \A k \in 1..j : Run(c, j)[k] = c + k - 1
    <2>1. Run(c, j) \in [1..j -> Nat]
      BY DEF Run
    <2>2. QED
      BY <2>1 DEF Run
  <1>2. Run(b, 0) = << >>
    BY <1>1
  <1>3. Run(b, m) \o Run(b + m, n) = Run(b, m + n)
    <2> DEFINE s == Run(b, m)
               t == Run(b + m, n)
               u == Run(b, m + n)
    <2>1. /\ s \in Seq(Nat) /\ Len(s) = m /\ \A k \in 1..m : s[k] = b + k - 1
          /\ t \in Seq(Nat) /\ Len(t) = n /\ \A k \in 1..n : t[k] = (b + m) + k - 1
          /\ u \in Seq(Nat) /\ Len(u) = m + n /\ \A k \in 1..(m + n) : u[k] = b + k - 1
      <3>1. b + m \in Nat /\ m + n \in Nat
        OBVIOUS
      <3>2. QED
        BY <1>1, <3>1
    <2> HIDE DEF s, t, u
    <2>2. s \o t \in Seq(Nat) /\ Len(s \o t) = m + n
      <3>1. s \in Seq(Nat) /\ t \in Seq(Nat) /\ Len(s) = m /\ Len(t) = n
        BY <2>1
      <3>2. QED
        BY <3>1, ConcatProperties
    <2>3. ASSUME NEW k \in 1..(m + n) PROVE (s \o t)[k] = u[k]
      <3>1. CASE k <= m
        <4>1. k \in 1..m
          BY <3>1
        <4>2. (s \o t)[k] = s[k]
          BY <2>1, <3>1
        <4>3. QED
          BY <2>1, <4>1, <4>2
      <3>2. CASE k > m
        <4>1. k - m \in 1..n
          BY <3>2
        <4>2. (s \o t)[k] = t[k - m]
          BY <2>1, <3>2, SMTT(20)
        <4>3. t[k - m] = (b + m) + (k - m) - 1
          BY <2>1, <4>1
        <4>4. QED
          BY <2>1, <4>2, <4>3
      <3>3. k <= m \/ k > m
        OBVIOUS
      <3>4. QED
        BY <3>1, <3>2, <3>3, Zenon
    <2>4. s \o t = u
      BY <2>1, <2>2, <2>3, SeqEqual
    <2>5. QED
      BY <2>4 DEF s, t, u
  <1>4. QED
    BY <1>1, <1>2, <1>3

(* How many blocks the next packet carries, of l blocks that are left. *)
PacketBlocks(l) == Lesser(MediaPacket \div BlkSize, l)

LEMMA PacketFacts ==
    ASSUME UsbMscAssumption, NEW l \in Nat
    PROVE  /\ PacketBlocks(l) \in 0..l /\ Lesser(MediaPacket, l * BlkSize) = PacketBlocks(l) * BlkSize
           /\ (l > 0 => PacketBlocks(l) > 0)
           /\ (PacketBlocks(l) # l => PacketBlocks(l) * BlkSize = MediaPacket)
  <1> DEFINE m == MediaPacket \div BlkSize
  <1>1. BlkSize \in Nat /\ BlkSize > 0 /\ MediaPacket \in Nat /\ MediaPacket > 0
    BY DEF UsbMscAssumption
  <1>2. m \in Nat /\ MediaPacket = m * BlkSize
    BY <1>1 DEF UsbMscAssumption
  <1> HIDE DEF m
  <1>3. m > 0
    BY <1>1, <1>2, Products
  <1>4. (m <= l <=> m * BlkSize <= l * BlkSize) /\ l * BlkSize \in Nat
    BY <1>1, <1>2, Products
  <1>5. PacketBlocks(l) = IF m <= l THEN m ELSE l
    BY DEF PacketBlocks, Lesser, m
  <1>6. Lesser(MediaPacket, l * BlkSize) = IF m * BlkSize <= l * BlkSize THEN m * BlkSize ELSE l * BlkSize
    BY <1>2 DEF Lesser
  <1>7. QED
    BY <1>2, <1>3, <1>4, <1>5, <1>6

LEMMA BlocksAre ==
    ASSUME UsbMscAssumption, NEW d \in Dev, d.size = BlkSize, NEW a \in Nat, NEW m \in Nat,
           d.addr = a * BlkSize
    PROVE  BlocksOf(d, m * BlkSize) = Run(a, m)
  <1>1. BlkSize \in Nat /\ BlkSize > 0
    BY DEF UsbMscAssumption
  <1>2. (m * BlkSize) \div BlkSize = m /\ (a * BlkSize) \div BlkSize = a
    BY <1>1, Products
  <1>3. Quot(m * BlkSize, d.size) = m /\ Quot(d.addr, d.size) = a
    BY <1>1, <1>2 DEF Quot
  <1>4. QED
    BY <1>3 DEF BlocksOf, Run

-----------------------------------------------------------------------------
(* The phases of a command, of a device d, its flags q and a host h. *)

Active == {"dataIn", "dataOut", "csw"}
BlockOps == {"READ_10", "WRITE10"}
Quiet(q) == ~q.in /\ ~q.out

MovedBy(d, h) == IF h.cmd.op = "WRITE10" THEN Len(d.acc) * BlkSize ELSE h.got

(* A status wrapper that tells the truth about the host's command. *)
Truthful(w, d, h) ==
    /\ w.residue = h.cmd.xfer - MovedBy(d, h)
    /\ (w.status = "OK" /\ h.cmd.op \in BlockOps) =>
           /\ d.acc = Run(h.cmd.blk, h.cmd.n)
           /\ h.cmd.op = "READ_10" => h.body = Run(h.cmd.blk, h.cmd.n)

(* The ring of sense codes, while the transport was not reset: no code     *)
(* waits; one does; what the host is owed at the start of a command, and   *)
(* has been told at its end.                                               *)
Even(d) == d.status = "NORMAL" => d.txc = d.put
Behind(d) == d.status = "NORMAL" => d.put = Next4(d.txc) /\ d.sense[d.txc] # "NO_SENSE"
Owed(d, h) ==
    d.status = "NORMAL" =>
        IF h.due = "NO_SENSE" THEN d.txc = d.put
        ELSE d.put = Next4(d.txc) /\ d.sense[d.txc] = h.due
Told(d, h) == (d.status = "NORMAL" /\ h.cmd.op = "REQUEST_SENSE") => h.body = <<h.due>>
Codes(status, d, h) ==
    IF status = "OK" THEN Even(d) /\ Told(d, h) ELSE Behind(d) /\ h.cmd.op # "REQUEST_SENSE"

(* Between two commands. *)
Idle(d, q, h) ==
    /\ h.stage = "idle" /\ ~q.out /\ d.state = "IDLE" /\ NoErr(d) /\ d.in.st = "NAK"
    /\ d.out.st = "VALID" /\ d.out.what = "cbw"
    /\ (h.csw.tag = h.tag /\ h.tag > 0) => Truthful(h.csw, d, h)
    /\ Owed(d, h)

(* The wrapper has arrived and is not yet decoded. *)
Sent(d, q, h) ==
    /\ h.stage = DataStage(h.cmd) /\ h.cmd \in Commands /\ q.out /\ ~q.in
    /\ d.state = "IDLE" /\ NoErr(d) /\ d.in.st = "NAK" /\ d.out.st = "NAK"
    /\ d.cbw = h.cmd /\ d.tag = h.tag /\ h.got = 0 /\ h.body = << >> /\ h.tag > 0
    /\ Owed(d, h) /\ (h.due # "NO_SENSE" => h.cmd.op = "REQUEST_SENSE")

(* Nothing will happen before the host's timeout. *)
Mute(d, q, h) ==
    /\ Quiet(q) /\ h.stage \in Active /\ d.in.st = "NAK" /\ h.tag > 0
    /\ h.stage = "dataOut" => d.out.st = "NAK"

Recovering(d, q, h) ==
    h.stage = "recover" /\ Quiet(q) /\ d.in.st # "VALID" /\ h.tag > 0

(* The command was refused. *)
Stalled(d, q, h) ==
    /\ Quiet(q) /\ h.stage \in Active /\ d.in.st = "STALL" /\ d.out.st # "VALID" /\ NoErr(d)
    /\ h.got = 0 /\ d.acc = << >> /\ d.csw.residue = h.cmd.xfer /\ d.csw.tag = h.tag /\ h.tag > 0
    /\ Behind(d) /\ h.cmd.op # "REQUEST_SENSE"

(* An answer from memory: on its way, taken. *)
Answering(d, q, h) ==
    /\ Quiet(q) /\ h.stage = "dataIn" /\ d.in.st = "VALID" /\ d.in.what = "data" /\ NoErr(d)
    /\ d.state = "SEND_DATA" /\ h.cmd.op \notin BlockOps
    /\ d.csw.residue = h.cmd.xfer - d.in.len /\ d.csw.tag = h.tag /\ h.got = 0 /\ h.tag > 0
    /\ Even(d) /\ h.body = << >>
    /\ (d.status = "NORMAL" /\ h.cmd.op = "REQUEST_SENSE") => d.in.body = <<h.due>>

AnswerTaken(d, q, h) ==
    /\ q.in /\ ~q.out /\ h.stage = "csw" /\ d.in.st = "NAK" /\ NoErr(d)
    /\ d.state = "SEND_DATA" /\ h.cmd.op \notin BlockOps
    /\ d.csw.residue = h.cmd.xfer - h.got /\ d.csw.tag = h.tag /\ h.tag > 0
    /\ Even(d) /\ Told(d, h)

(* A read or a write of which the first Len(d.acc) blocks are done. *)
Progress(d, h, op) ==
    /\ NoErr(d) /\ d.cbw = h.cmd /\ h.cmd \in Commands /\ h.cmd.op = op
    /\ d.csw.tag = h.tag /\ h.tag > 0 /\ Even(d)
    /\ d.size = BlkSize /\ Len(d.acc) <= h.cmd.n /\ h.cmd.xfer = h.cmd.n * BlkSize
    /\ d.acc = Run(h.cmd.blk, Len(d.acc))
    /\ d.addr = (h.cmd.blk + Len(d.acc)) * BlkSize
    /\ d.len = (h.cmd.n - Len(d.acc)) * BlkSize /\ d.csw.residue = d.len
    /\ h.cmd.blk + h.cmd.n <= BlkNbr

ReadState(d) == d.state = IF d.len = 0 THEN "LAST_DATA_IN" ELSE "DATA_IN"

ReadSent(d, q, h) ==
    /\ Progress(d, h, "READ_10") /\ ReadState(d) /\ Quiet(q) /\ h.stage = "dataIn"
    /\ d.in.st = "VALID" /\ d.in.what = "data" /\ d.in.len > 0
    /\ h.body \o d.in.body = d.acc /\ h.got + d.in.len = Len(d.acc) * BlkSize

ReadTaken(d, q, h) ==
    /\ Progress(d, h, "READ_10") /\ ReadState(d) /\ q.in /\ ~q.out /\ d.in.st = "NAK"
    /\ h.stage = (IF d.len = 0 THEN "csw" ELSE "dataIn")
    /\ h.body = d.acc /\ h.got = Len(d.acc) * BlkSize

(* A read failed: the host takes the status wrapper for data. *)
CswAsData(d, q, h) ==
    /\ Quiet(q) /\ h.stage = "dataIn" /\ d.in.st = "VALID" /\ d.in.what = "csw"
    /\ d.state = "IDLE" /\ h.tag > 0

Drained(d, q, h) ==
    q.in /\ ~q.out /\ h.stage = "csw" /\ d.in.st = "NAK" /\ d.state = "IDLE" /\ h.tag > 0

WriteWait(d, q, h) ==
    /\ Progress(d, h, "WRITE10") /\ d.state = "DATA_OUT" /\ Quiet(q) /\ h.stage = "dataOut"
    /\ d.in.st = "NAK" /\ d.out.st = "VALID" /\ d.out.what = "data"
    /\ d.len > 0 /\ h.got = Len(d.acc) * BlkSize

WriteGot(d, q, h) ==
    /\ Progress(d, h, "WRITE10") /\ d.state = "DATA_OUT" /\ q.out /\ ~q.in
    /\ d.in.st = "NAK" /\ d.out.st = "NAK" /\ d.len > 0
    /\ h.got = Lesser(h.cmd.xfer, Len(d.acc) * BlkSize + MediaPacket)
    /\ h.stage = IF h.got = h.cmd.xfer THEN "csw" ELSE "dataOut"

(* The status wrapper waits for the host. *)
Status(d, q, h) ==
    /\ Quiet(q) /\ h.stage = "csw" /\ d.state = "IDLE" /\ NoErr(d)
    /\ d.in.st = "VALID" /\ d.in.what = "csw" /\ d.in.body.tag = h.tag /\ h.tag > 0
    /\ d.out.st = "VALID" /\ d.out.what = "cbw" /\ Truthful(d.in.body, d, h)
    /\ Codes(d.in.body.status, d, h)

Phases(d, q, h) ==
    \/ Idle(d, q, h) \/ Sent(d, q, h) \/ Mute(d, q, h) \/ Recovering(d, q, h) \/ Stalled(d, q, h)
    \/ Answering(d, q, h) \/ AnswerTaken(d, q, h) \/ ReadSent(d, q, h) \/ ReadTaken(d, q, h)
    \/ CswAsData(d, q, h) \/ Drained(d, q, h) \/ WriteWait(d, q, h) \/ WriteGot(d, q, h)
    \/ Status(d, q, h)

MscInv == MscType /\ Geometry(bot) /\ Phases(bot, done, peer)

-----------------------------------------------------------------------------
(* What a step does to each part of the state. *)

LEMMA IsrFacts ==
    ASSUME MscType, NEW ready \in BOOLEAN, NEW works \in BOOLEAN
    PROVE  /\ Bulk_Out(ready, works) =>
                 /\ done.out /\ ~done'.out /\ done'.in = done.in /\ peer' = peer
                 /\ bot' = USBD_MSC_BOT_OutData(bot, ready, works)
                 /\ ~works => bot.cbw.op \in MayFail
           /\ Bulk_In(ready, works) =>
                 /\ done.in /\ ~done.out /\ ~done'.in /\ ~done'.out /\ peer' = peer
                 /\ bot' = USBD_MSC_BOT_InData(bot, ready, works)
                 /\ ~works => bot.cbw.op \in MayFail
  <1>1. done \in IrqType
    BY DEF MscType
  <1>2. QED
    BY <1>1 DEF Bulk_Out, Bulk_In, Storage, IrqType

LEMMA SendFacts ==
    ASSUME MscType, NEW c \in CommandType, Host_SendCBW(c)
    PROVE  /\ peer.stage = "idle" /\ bot.out.st = "VALID" /\ ~done.out /\ (FastBulk => ~done.in)
           /\ peer'.stage = DataStage(c) /\ peer'.tag = peer.tag + 1 /\ peer'.cmd = c
           /\ peer'.got = 0 /\ peer'.body = << >> /\ peer'.csw = peer.csw /\ peer'.due = peer.due
           /\ (peer.due # "NO_SENSE" => c.op = "REQUEST_SENSE")
           /\ done'.out /\ done'.in = done.in
           /\ bot' \in Dev /\ bot'.out.st = "NAK" /\ bot'.cbw = c /\ bot'.tag = peer.tag + 1
           /\ SameBut(bot', bot, {"out", "cbw", "tag"})
  <1>1. bot \in Dev /\ peer \in HostType /\ done \in IrqType
    BY DEF MscType
  <1>2. peer.tag + 1 \in Nat
    BY <1>1 DEF HostType
  <1>3. bot' = [bot EXCEPT !.out.st = "NAK", !.cbw = c, !.tag = peer.tag + 1]
    BY DEF Host_SendCBW
  <1>4. /\ bot' \in Dev /\ bot'.out.st = "NAK" /\ bot'.cbw = c /\ bot'.tag = peer.tag + 1
        /\ SameBut(bot', bot, {"out", "cbw", "tag"})
    <2> DEFINE r == [bot EXCEPT !.out.st = "NAK", !.cbw = c, !.tag = peer.tag + 1]
    <2>1. /\ r \in Dev /\ r.out.st = "NAK" /\ r.cbw = c /\ r.tag = peer.tag + 1
          /\ SameBut(r, bot, {"out", "cbw", "tag"})
      BY <1>1, <1>2, OutTakenEffect, Zenon
    <2>2. QED
      BY <1>3, <2>1
  <1>5. /\ peer'.stage = DataStage(c) /\ peer'.tag = peer.tag + 1 /\ peer'.cmd = c
        /\ peer'.got = 0 /\ peer'.body = << >> /\ peer'.csw = peer.csw /\ peer'.due = peer.due
    BY <1>1 DEF Host_SendCBW, HostType
  <1>6. done'.out /\ done'.in = done.in
    BY <1>1 DEF Host_SendCBW, IrqType
  <1>7. QED
    BY <1>4, <1>5, <1>6 DEF Host_SendCBW, NextCommand

LEMMA DataOutFacts ==
    ASSUME MscType, Host_DataOut
    PROVE  /\ peer.stage = "dataOut" /\ bot.out.st = "VALID"
           /\ peer'.got = Lesser(peer.cmd.xfer, peer.got + MediaPacket)
           /\ peer'.stage = (IF peer'.got = peer.cmd.xfer THEN "csw" ELSE "dataOut")
           /\ peer'.tag = peer.tag /\ peer'.cmd = peer.cmd /\ peer'.body = peer.body
           /\ peer'.csw = peer.csw /\ peer'.due = peer.due
           /\ done'.out /\ done'.in = done.in
           /\ bot' \in Dev /\ bot'.out.st = "NAK" /\ (bot.out.what # "cbw" => bot'.cbw = bot.cbw)
           /\ SameBut(bot', bot, {"out", "cbw"})
  <1>1. bot \in Dev /\ peer \in HostType /\ done \in IrqType
    BY DEF MscType
  <1>2. bot' = [bot EXCEPT !.out.st = "NAK",
                           !.cbw.op = IF bot.out.what = "cbw" THEN "INVALID" ELSE @]
    BY DEF Host_DataOut
  <1>3. /\ bot' \in Dev /\ bot'.out.st = "NAK" /\ (bot.out.what # "cbw" => bot'.cbw = bot.cbw)
        /\ SameBut(bot', bot, {"out", "cbw"})
    BY <1>1, <1>2, DataOutEffect, Zenon
  <1>4. /\ peer.stage = "dataOut" /\ bot.out.st = "VALID"
        /\ peer'.got = Lesser(peer.cmd.xfer, peer.got + MediaPacket)
        /\ peer'.stage = (IF peer'.got = peer.cmd.xfer THEN "csw" ELSE "dataOut")
        /\ peer'.tag = peer.tag /\ peer'.cmd = peer.cmd /\ peer'.body = peer.body
        /\ peer'.csw = peer.csw /\ peer'.due = peer.due
    BY <1>1 DEF Host_DataOut, HostType
  <1>5. done'.out /\ done'.in = done.in
    BY <1>1 DEF Host_DataOut, IrqType
  <1>6. QED
    BY <1>3, <1>4, <1>5

LEMMA DataInFacts ==
    ASSUME MscType, Host_DataIn
    PROVE  /\ peer.stage = "dataIn" /\ bot.in.st = "VALID" /\ bot.in.len \in Nat
           /\ peer'.got = peer.got + bot.in.len
           /\ peer'.body = (IF bot.in.what = "csw" THEN peer.body ELSE peer.body \o bot.in.body)
           /\ peer'.stage = (IF \/ bot.in.what = "csw" \/ peer.cmd.op # "READ_10" \/ bot.in.len = 0
                                \/ peer.got + bot.in.len >= peer.cmd.xfer THEN "csw" ELSE "dataIn")
           /\ peer'.tag = peer.tag /\ peer'.cmd = peer.cmd /\ peer'.csw = peer.csw
           /\ peer'.due = peer.due
           /\ done'.in /\ done'.out = done.out
           /\ bot' \in Dev /\ bot'.in.st = "NAK" /\ SameBut(bot', bot, {"in"})
  <1>1. bot \in Dev /\ peer \in HostType /\ done \in IrqType /\ bot.in \in InEp
    BY DEF MscType, Dev
  <1>2. bot' = InTaken(bot)
    BY DataInType
  <1>3. bot' \in Dev /\ bot'.in.st = "NAK" /\ SameBut(bot', bot, {"in"})
    BY <1>1, <1>2, InTakenEffect, Zenon
  <1>4. bot.in.len \in Nat
    BY <1>1 DEF InEp
  <1>5. /\ peer.stage = "dataIn" /\ bot.in.st = "VALID"
        /\ peer'.got = peer.got + bot.in.len
        /\ peer'.body = (IF bot.in.what = "csw" THEN peer.body ELSE peer.body \o bot.in.body)
        /\ peer'.stage = (IF \/ bot.in.what = "csw" \/ peer.cmd.op # "READ_10" \/ bot.in.len = 0
                             \/ peer.got + bot.in.len >= peer.cmd.xfer THEN "csw" ELSE "dataIn")
        /\ peer'.tag = peer.tag /\ peer'.cmd = peer.cmd /\ peer'.csw = peer.csw
        /\ peer'.due = peer.due
    BY <1>1 DEF Host_DataIn, HostType
  <1>6. done'.in /\ done'.out = done.out
    BY <1>1 DEF Host_DataIn, IrqType
  <1>7. QED
    BY <1>3, <1>4, <1>5, <1>6

LEMMA TakeFacts ==
    ASSUME MscType, Host_TakeCSW, bot.in.what = "csw" /\ bot.in.body.tag = peer.tag
    PROVE  /\ peer.stage = "csw" /\ bot.in.st = "VALID"
           /\ peer'.stage = "idle" /\ peer'.csw = bot.in.body
           /\ peer'.due = (IF bot.in.body.status = "OK" THEN "NO_SENSE"
                           ELSE bot.sense[(bot.put + 3) % 4])
           /\ peer'.tag = peer.tag /\ peer'.cmd = peer.cmd /\ peer'.got = peer.got
           /\ peer'.body = peer.body
           /\ done'.in /\ done'.out = done.out
           /\ bot' \in Dev /\ bot'.in.st = "NAK" /\ SameBut(bot', bot, {"in"})
  <1>1. bot \in Dev /\ peer \in HostType /\ done \in IrqType
    BY DEF MscType
  <1>2. bot' = InTaken(bot)
    BY DataInType
  <1>3. bot' \in Dev /\ bot'.in.st = "NAK" /\ SameBut(bot', bot, {"in"})
    BY <1>1, <1>2, InTakenEffect, Zenon
  <1>4. /\ peer.stage = "csw" /\ bot.in.st = "VALID"
        /\ peer'.stage = "idle" /\ peer'.csw = bot.in.body
        /\ peer'.due = (IF bot.in.body.status = "OK" THEN "NO_SENSE"
                        ELSE bot.sense[(bot.put + 3) % 4])
        /\ peer'.tag = peer.tag /\ peer'.cmd = peer.cmd /\ peer'.got = peer.got
        /\ peer'.body = peer.body
    BY <1>1 DEF Host_TakeCSW, HostType, Why
  <1>5. done'.in /\ done'.out = done.out
    BY <1>1 DEF Host_TakeCSW, IrqType
  <1>6. QED
    BY <1>3, <1>4, <1>5

LEMMA TimeoutFacts ==
    ASSUME MscType, Host_Timeout
    PROVE  /\ peer'.stage = "recover" /\ peer'.tag = peer.tag /\ bot' = bot /\ done' = done
           /\ peer'.due = peer.due
  <1>1. peer \in HostType
    BY DEF MscType
  <1>2. QED
    BY <1>1 DEF Host_Timeout, HostType

LEMMA ClearHaltFacts ==
    ASSUME MscType, AppClears, Host_ClearHalt
    PROVE  /\ peer'.stage = "csw" /\ peer'.tag = peer.tag /\ peer'.cmd = peer.cmd
           /\ peer'.got = peer.got /\ peer'.body = peer.body /\ peer'.csw = peer.csw
           /\ peer'.due = peer.due /\ done' = done
           /\ peer.stage = "dataOut" =>
                 bot' = USBD_MSV_BOT_ClearFeatureHandler(Unhalted(bot, "out"), "out")
           /\ peer.stage # "dataOut" =>
                 bot' = USBD_MSV_BOT_ClearFeatureHandler(Unhalted(bot, "in"), "in")
  <1>1. peer \in HostType /\ bot \in Dev
    BY DEF MscType
  <1>2. /\ peer'.stage = "csw" /\ peer'.tag = peer.tag /\ peer'.cmd = peer.cmd
        /\ peer'.got = peer.got /\ peer'.body = peer.body /\ peer'.csw = peer.csw
        /\ peer'.due = peer.due /\ done' = done
    BY <1>1 DEF Host_ClearHalt, HostType
  <1>3. bot' = Unstall(bot, IF peer.stage = "dataOut" THEN "out" ELSE "in")
    BY DEF Host_ClearHalt
  <1>4. /\ Unstall(bot, "in") = USBD_MSV_BOT_ClearFeatureHandler(Unhalted(bot, "in"), "in")
        /\ Unstall(bot, "out") = USBD_MSV_BOT_ClearFeatureHandler(Unhalted(bot, "out"), "out")
    BY <1>1, UnstallType
  <1>5. QED
    BY <1>2, <1>3, <1>4

(* After a reset of the transport the class takes no notice of             *)
(* CLEAR_FEATURE.                                                          *)
LEMMA RecoverFacts ==
    ASSUME MscType, AppClears, Host_Recover
    PROVE  /\ peer'.stage = "idle" /\ peer'.tag = peer.tag /\ peer'.csw.tag = 0 /\ done' = done
           /\ bot' \in Dev /\ bot'.state = "IDLE" /\ bot'.status = "RECOVERY"
           /\ bot'.out.st = "VALID" /\ bot'.out.what = "cbw"
           /\ bot'.in.st = (IF bot.in.st = "STALL" THEN "NAK" ELSE bot.in.st)
           /\ SameBut(bot', bot, {"state", "status", "out", "in"})
  <1> DEFINE r == USBD_MSC_BOT_Reset(bot)
             x == Unhalted(r, "in")
             y == Unhalted(x, "out")
  <1>1. peer \in HostType /\ bot \in Dev
    BY DEF MscType
  <1>2. /\ peer'.stage = "idle" /\ peer'.tag = peer.tag /\ peer'.csw.tag = 0 /\ done' = done
    BY <1>1 DEF Host_Recover, HostType
  <1>3. /\ r \in Dev /\ r.state = "IDLE" /\ r.status = "RECOVERY"
        /\ r.out.st = "VALID" /\ r.out.what = "cbw"
        /\ SameBut(r, bot, {"state", "status", "out"})
    BY <1>1, ResetEffect, Zenon
  <1>4. bot' = Unstall(Unstall(r, "in"), "out")
    BY DEF Host_Recover
  <1> HIDE DEF r
  <1>5. /\ x \in Dev /\ SameBut(x, r, {"in"})
        /\ x.in.st = IF r.in.st = "STALL" THEN "NAK" ELSE r.in.st
    BY <1>3, UnhaltedEffect, Zenon
  <1>6. Unstall(r, "in") = USBD_MSV_BOT_ClearFeatureHandler(x, "in")
    BY <1>3, UnstallType, Zenon
  <1> HIDE DEF x
  <1>7. x.state = "IDLE" /\ x.status = "RECOVERY" /\ x.out = r.out /\ r.in = bot.in
    BY <1>3, <1>5 DEF SameBut, Fields
  <1>8. Unstall(r, "in") = x
    BY <1>6, <1>7 DEF USBD_MSV_BOT_ClearFeatureHandler
  <1>9. /\ y \in Dev /\ SameBut(y, x, {"out"}) /\ y.out.what = x.out.what
        /\ y.out.st = IF x.out.st = "STALL" THEN "NAK" ELSE x.out.st
    BY <1>5, UnhaltedEffect, Zenon
  <1>10. Unstall(x, "out") = USBD_MSV_BOT_ClearFeatureHandler(y, "out")
    BY <1>5, UnstallType, Zenon
  <1> HIDE DEF y
  <1>11. y.state = "IDLE" /\ y.status = "RECOVERY" /\ y.in = x.in
    BY <1>7, <1>9 DEF SameBut, Fields
  <1>12. Unstall(x, "out") = y
    BY <1>10, <1>11 DEF USBD_MSV_BOT_ClearFeatureHandler
  <1>13. bot' = y
    BY <1>4, <1>8, <1>12
  <1>14. y.out.st = "VALID" /\ y.out.what = "cbw"
         /\ y.in.st = (IF bot.in.st = "STALL" THEN "NAK" ELSE bot.in.st)
    BY <1>3, <1>5, <1>7, <1>9, <1>11
  <1>15. SameBut(y, bot, {"state", "status", "out", "in"})
    BY <1>3, <1>5, <1>9 DEF SameBut
  <1>16. QED
    BY <1>2, <1>9, <1>11, <1>13, <1>14, <1>15

(* Which step is possible when. *)
LEMMA Guards ==
    ASSUME BotNext
    PROVE  \/ done.out /\ \E ready, works \in BOOLEAN : Bulk_Out(ready, works)
           \/ done.in /\ ~done.out /\ \E ready, works \in BOOLEAN : Bulk_In(ready, works)
           \/ peer.stage = "idle" /\ \E c \in Commands : Host_SendCBW(c)
           \/ peer.stage = "dataOut" /\ bot.out.st = "VALID" /\ Host_DataOut
           \/ peer.stage = "dataIn" /\ bot.in.st = "VALID" /\ Host_DataIn
           \/ peer.stage = "csw" /\ bot.in.st = "VALID" /\ Host_TakeCSW
           \/ /\ peer.stage \in Active /\ Host_ClearHalt
              /\ (IF peer.stage = "dataOut" THEN bot.out.st ELSE bot.in.st) = "STALL"
           \/ /\ peer.stage \in Active /\ Host_Timeout /\ Quiet(done)
              /\ (IF peer.stage = "dataOut" THEN bot.out.st ELSE bot.in.st) = "NAK"
           \/ peer.stage = "recover" /\ Quiet(done) /\ Host_Recover
  <1>1. CASE Bulk
    BY <1>1, Zenon DEF Bulk, Bulk_Out, Bulk_In
  <1>2. CASE \E c \in Commands : Host_SendCBW(c)
    BY <1>2, Zenon DEF Host_SendCBW
  <1>3. CASE Host_DataOut
    BY <1>3 DEF Host_DataOut
  <1>4. CASE Host_DataIn
    BY <1>4 DEF Host_DataIn
  <1>5. CASE Host_TakeCSW
    BY <1>5 DEF Host_TakeCSW
  <1>6. CASE Host_ClearHalt
    BY <1>6 DEF Host_ClearHalt, EpMet, Active
  <1>7. CASE Host_Timeout
    BY <1>7 DEF Host_Timeout, EpMet, Active, Quiet
  <1>8. CASE Host_Recover
    BY <1>8 DEF Host_Recover, Quiet
  <1>9. QED
    BY <1>1, <1>2, <1>3, <1>4, <1>5, <1>6, <1>7, <1>8, Zenon DEF BotNext, HostNext

-----------------------------------------------------------------------------
(* Each phase is followed by one of the phases. *)

LEMMA GeometryKept ==
    ASSUME NEW d, NEW e, Geometry(d), e.nbr = d.nbr, e.size = d.size
    PROVE  Geometry(e)
  BY DEF Geometry

LEMMA IdleStep ==
    ASSUME Conforming, MscType, Geometry(bot), Idle(bot, done, peer), BotNext
    PROVE  Geometry(bot') /\ (Idle(bot, done, peer)' \/ Sent(bot, done, peer)')
  <1>1. \/ \E ready, works \in BOOLEAN : Bulk_In(ready, works)
        \/ \E c \in Commands : Host_SendCBW(c)
    BY Guards DEF Idle, Active
  <1>2. ASSUME NEW ready \in BOOLEAN, NEW works \in BOOLEAN, Bulk_In(ready, works)
        PROVE  Geometry(bot') /\ Idle(bot, done, peer)'
    <2>1. ~done'.out /\ peer' = peer /\ bot' = USBD_MSC_BOT_InData(bot, ready, works)
      BY <1>2, IsrFacts
    <2>2. bot' = bot
      BY <2>1 DEF USBD_MSC_BOT_InData, Idle
    <2>3. QED
      BY <2>1, <2>2 DEF Idle
  <1>3. ASSUME NEW c \in Commands, Host_SendCBW(c)
        PROVE  Geometry(bot') /\ Sent(bot, done, peer)'
    <2>1. c \in CommandType /\ FastBulk /\ peer.tag \in Nat /\ done.in \in BOOLEAN
      BY DEF Conforming, MscType, HostType, IrqType
    <2>2. /\ peer'.stage = DataStage(c) /\ peer'.tag = peer.tag + 1 /\ peer'.cmd = c
          /\ peer'.got = 0 /\ peer'.body = << >> /\ ~done.in /\ peer'.due = peer.due
          /\ (peer.due # "NO_SENSE" => c.op = "REQUEST_SENSE")
          /\ done'.out /\ done'.in = done.in
          /\ bot'.out.st = "NAK" /\ bot'.cbw = c /\ bot'.tag = peer.tag + 1
          /\ SameBut(bot', bot, {"out", "cbw", "tag"})
      BY <1>3, <2>1, SendFacts
    <2>3. /\ bot'.state = bot.state /\ bot'.status = bot.status /\ bot'.in = bot.in
          /\ bot'.nbr = bot.nbr /\ bot'.size = bot.size
          /\ bot'.sense = bot.sense /\ bot'.put = bot.put /\ bot'.txc = bot.txc
      BY <2>2 DEF SameBut, Fields
    <2>4. peer'.tag > 0
      BY <2>1, <2>2
    <2>5. Owed(bot', peer')
      BY <2>2, <2>3 DEF Idle, Owed
    <2>6. QED
      BY <2>2, <2>3, <2>4, <2>5, GeometryKept DEF Idle, Sent, NoErr
  <1>4. QED
    BY <1>1, <1>2, <1>3

LEMMA MuteStep ==
    ASSUME MscType, Geometry(bot), Mute(bot, done, peer), BotNext
    PROVE  Geometry(bot') /\ Recovering(bot, done, peer)'
  <1>1. Host_Timeout
    BY Guards DEF Mute, Active, Quiet
  <1>2. peer'.stage = "recover" /\ peer'.tag = peer.tag /\ bot' = bot /\ done' = done
    BY <1>1, TimeoutFacts
  <1>3. QED
    BY <1>2 DEF Mute, Recovering, Quiet

LEMMA RecoveringStep ==
    ASSUME Conforming, MscType, Geometry(bot), Recovering(bot, done, peer), BotNext
    PROVE  Geometry(bot') /\ Idle(bot, done, peer)'
  <1>1. Host_Recover /\ AppClears
    BY Guards DEF Recovering, Active, Quiet, Conforming
  <1>2. /\ peer'.stage = "idle" /\ peer'.tag = peer.tag /\ peer'.csw.tag = 0 /\ done' = done
        /\ bot'.state = "IDLE" /\ bot'.status = "RECOVERY"
        /\ bot'.out.st = "VALID" /\ bot'.out.what = "cbw"
        /\ bot'.in.st = (IF bot.in.st = "STALL" THEN "NAK" ELSE bot.in.st)
        /\ SameBut(bot', bot, {"state", "status", "out", "in"})
    BY <1>1, RecoverFacts
  <1>3. bot'.nbr = bot.nbr /\ bot'.size = bot.size
    BY <1>2 DEF SameBut, Fields
  <1>4. bot.in.st \in St
    BY DEF MscType, Dev, InEp
  <1>5. peer.tag \in Nat
    BY DEF MscType, HostType
  <1>6. Owed(bot', peer')
    BY <1>2 DEF Owed
  <1>7. QED
    BY <1>2, <1>3, <1>4, <1>5, <1>6, GeometryKept DEF Recovering, Idle, NoErr, Quiet, St

LEMMA DrainedStep ==
    ASSUME MscType, Geometry(bot), Drained(bot, done, peer), BotNext
    PROVE  Geometry(bot') /\ Mute(bot, done, peer)'
  <1>1. PICK ready \in BOOLEAN, works \in BOOLEAN : Bulk_In(ready, works)
    BY Guards DEF Drained, Active, Quiet
  <1>2. ~done'.out /\ ~done'.in /\ peer' = peer /\ bot' = USBD_MSC_BOT_InData(bot, ready, works)
    BY <1>1, IsrFacts
  <1>3. bot' = bot
    BY <1>2 DEF USBD_MSC_BOT_InData, Drained
  <1>4. QED
    BY <1>2, <1>3 DEF Drained, Mute, Active, Quiet

LEMMA CswAsDataStep ==
    ASSUME MscType, Geometry(bot), CswAsData(bot, done, peer), BotNext
    PROVE  Geometry(bot') /\ Drained(bot, done, peer)'
  <1>1. Host_DataIn
    BY Guards DEF CswAsData, Active, Quiet
  <1>2. /\ peer'.tag = peer.tag /\ peer'.stage = "csw" /\ done'.in /\ done'.out = done.out
        /\ bot'.in.st = "NAK" /\ SameBut(bot', bot, {"in"})
    BY <1>1, DataInFacts DEF CswAsData
  <1>3. bot'.state = bot.state /\ bot'.nbr = bot.nbr /\ bot'.size = bot.size
    BY <1>2 DEF SameBut, Fields
  <1>4. QED
    BY <1>2, <1>3, GeometryKept DEF CswAsData, Drained, Quiet

LEMMA StatusStep ==
    ASSUME MscType, Geometry(bot), Status(bot, done, peer), BotNext
    PROVE  Geometry(bot') /\ Idle(bot, done, peer)'
  <1>1. Host_TakeCSW
    BY Guards DEF Status, Active, Quiet
  <1>2. /\ peer'.stage = "idle" /\ peer'.csw = bot.in.body
        /\ peer'.tag = peer.tag /\ peer'.cmd = peer.cmd /\ peer'.got = peer.got
        /\ peer'.body = peer.body /\ done'.out = done.out
        /\ peer'.due = (IF bot.in.body.status = "OK" THEN "NO_SENSE"
                        ELSE bot.sense[(bot.put + 3) % 4])
        /\ bot'.in.st = "NAK" /\ SameBut(bot', bot, {"in"})
    BY <1>1, TakeFacts DEF Status
  <1>3. /\ bot'.state = bot.state /\ bot'.status = bot.status /\ bot'.out = bot.out
        /\ bot'.acc = bot.acc /\ bot'.nbr = bot.nbr /\ bot'.size = bot.size
        /\ bot'.sense = bot.sense /\ bot'.put = bot.put /\ bot'.txc = bot.txc
    BY <1>2 DEF SameBut, Fields
  <1>4. Truthful(bot.in.body, bot, peer) => Truthful(peer'.csw, bot', peer')
    BY <1>2, <1>3 DEF Truthful, MovedBy
  <1>5. Owed(bot', peer')
    <2>1. Codes(bot.in.body.status, bot, peer) /\ bot.txc \in 0..3
      BY DEF Status, MscType, Dev
    <2>2. CASE bot.in.body.status = "OK"
      BY <1>2, <1>3, <2>1, <2>2 DEF Codes, Even, Owed
    <2>3. CASE bot.in.body.status # "OK"
      <3>1. bot.put = Next4(bot.txc) => (bot.put + 3) % 4 = bot.txc
        BY <2>1 DEF Next4, SCSI_SENSE_LIST_NUMBER
      <3>2. QED
        BY <1>2, <1>3, <2>1, <2>3, <3>1 DEF Codes, Behind, Owed
    <2>4. QED
      BY <2>2, <2>3
  <1>6. QED
    BY <1>2, <1>3, <1>4, <1>5, GeometryKept DEF Status, Idle, NoErr, Quiet

(* USBD_MSC_BOT_TxCSW ends a command whose counts are right. *)
LEMMA CswFollows ==
    ASSUME NEW d \in Dev, NEW q, NEW h, NEW s \in {"OK", "FAIL"}, Geometry(d),
           Quiet(q), h.stage = "csw", NoErr(d), d.csw.tag = h.tag, h.tag > 0,
           d.csw.residue = h.cmd.xfer - MovedBy(d, h),
           (s = "OK" /\ h.cmd.op \in BlockOps) =>
               /\ d.acc = Run(h.cmd.blk, h.cmd.n)
               /\ h.cmd.op = "READ_10" => h.body = Run(h.cmd.blk, h.cmd.n),
           Codes(s, d, h)
    PROVE  LET r == USBD_MSC_BOT_TxCSW(d, s) IN Geometry(r) /\ Status(r, q, h)
  <1> DEFINE r == USBD_MSC_BOT_TxCSW(d, s)
  <1>1. /\ r.state = "IDLE" /\ r.in.st = "VALID" /\ r.in.what = "csw"
        /\ r.in.body.tag = d.csw.tag /\ r.in.body.residue = d.csw.residue /\ r.in.body.status = s
        /\ r.out.st = "VALID" /\ r.out.what = "cbw"
        /\ SameBut(r, d, {"state", "csw", "in", "out"})
    BY TxCSWEffect, ZenonT(30)
  <1> HIDE DEF r
  <1>2. /\ r.status = d.status /\ r.acc = d.acc /\ r.nbr = d.nbr /\ r.size = d.size
        /\ r.sense = d.sense /\ r.put = d.put /\ r.txc = d.txc
    BY <1>1 DEF SameBut, Fields
  <1>3. MovedBy(r, h) = MovedBy(d, h)
    BY <1>2 DEF MovedBy
  <1>4. Truthful(r.in.body, r, h)
    BY <1>1, <1>2, <1>3 DEF Truthful
  <1>5. Geometry(r)
    BY <1>2, GeometryKept
  <1>6. Codes(r.in.body.status, r, h)
    BY <1>1, <1>2 DEF Codes, Even, Behind, Told
  <1>7. Status(r, q, h)
    BY <1>1, <1>2, <1>4, <1>6 DEF Status, NoErr
  <1>8. QED
    BY <1>5, <1>7 DEF r

LEMMA StalledStep ==
    ASSUME UsbMscAssumption, Conforming, MscType, Geometry(bot), Stalled(bot, done, peer), BotNext
    PROVE  /\ Geometry(bot')
           /\ \/ Stalled(bot, done, peer)' \/ Status(bot, done, peer)' \/ Mute(bot, done, peer)'
              \/ Recovering(bot, done, peer)'
  <1>1. Host_ClearHalt \/ Host_Timeout
    BY Guards DEF Stalled, Active, Quiet
  <1>2. CASE Host_Timeout
    <2>1. peer'.stage = "recover" /\ peer'.tag = peer.tag /\ bot' = bot /\ done' = done
      BY <1>2, TimeoutFacts
    <2>2. QED
      BY <2>1 DEF Stalled, Recovering, Quiet
  <1>3. CASE Host_ClearHalt
    <2>1. /\ peer'.stage = "csw" /\ peer'.tag = peer.tag /\ peer'.cmd = peer.cmd
          /\ peer'.got = peer.got /\ peer'.body = peer.body /\ done' = done
          /\ peer.stage = "dataOut" =>
                bot' = USBD_MSV_BOT_ClearFeatureHandler(Unhalted(bot, "out"), "out")
          /\ peer.stage # "dataOut" =>
                bot' = USBD_MSV_BOT_ClearFeatureHandler(Unhalted(bot, "in"), "in")
      BY <1>3, ClearHaltFacts DEF Conforming
    <2>2. bot \in Dev /\ bot.status \in {"NORMAL", "RECOVERY"} /\ bot.out.st \in St
      BY DEF MscType, Dev, OutEp, Stalled, NoErr
    <2>3. CASE peer.stage = "dataOut"
      <3> DEFINE e == Unhalted(bot, "out")
      <3>1. SameBut(e, bot, {"out"}) /\ e.out.st = IF bot.out.st = "STALL" THEN "NAK" ELSE bot.out.st
        BY <2>2, UnhaltedEffect, Zenon
      <3>2. bot' = USBD_MSV_BOT_ClearFeatureHandler(e, "out")
        BY <2>1, <2>3
      <3> HIDE DEF e
      <3>3. /\ e.status = bot.status /\ e.in = bot.in /\ e.acc = bot.acc /\ e.csw = bot.csw
            /\ e.nbr = bot.nbr /\ e.size = bot.size
            /\ e.sense = bot.sense /\ e.put = bot.put /\ e.txc = bot.txc
        BY <3>1 DEF SameBut, Fields
      <3>4. bot' = e
        BY <2>2, <3>2, <3>3 DEF USBD_MSV_BOT_ClearFeatureHandler
      <3>5. e.out.st # "VALID"
        BY <2>2, <3>1 DEF Stalled
      <3>6. Geometry(bot')
        BY <3>3, <3>4, GeometryKept
      <3>7. Behind(e)
        BY <3>3 DEF Stalled, Behind
      <3>8. Stalled(bot, done, peer)'
        BY <2>1, <3>3, <3>4, <3>5, <3>7 DEF Stalled, NoErr, Active, Quiet
      <3>9. QED
        BY <3>6, <3>8
    <2>4. CASE peer.stage # "dataOut"
      <3> DEFINE e == Unhalted(bot, "in")
      <3>1. /\ e \in Dev /\ SameBut(e, bot, {"in"})
            /\ e.in.st = IF bot.in.st = "STALL" THEN "NAK" ELSE bot.in.st
        BY <2>2, UnhaltedEffect, Zenon
      <3>2. bot' = USBD_MSV_BOT_ClearFeatureHandler(e, "in")
        BY <2>1, <2>4
      <3> HIDE DEF e
      <3>3. /\ e.status = bot.status /\ e.out = bot.out /\ e.acc = bot.acc /\ e.csw = bot.csw
            /\ e.nbr = bot.nbr /\ e.size = bot.size
            /\ e.sense = bot.sense /\ e.put = bot.put /\ e.txc = bot.txc
        BY <3>1 DEF SameBut, Fields
      <3>4. Geometry(e)
        BY <3>3, GeometryKept
      <3>5. CASE bot.status = "NORMAL"
        <4>1. bot' = USBD_MSC_BOT_TxCSW(e, "FAIL")
          BY <3>2, <3>3, <3>5 DEF USBD_MSV_BOT_ClearFeatureHandler
        <4>2. MovedBy(e, peer') = 0 /\ peer.cmd.xfer \in Nat
          <5>1. Len(e.acc) * BlkSize = 0
            BY <3>3 DEF Stalled, UsbMscAssumption
          <5>2. QED
            BY <2>1, <3>3, <5>1 DEF MovedBy, Stalled, MscType, HostType, CommandType
        <4>3. /\ Quiet(done') /\ peer'.stage = "csw" /\ NoErr(e) /\ e.csw.tag = peer'.tag
              /\ peer'.tag > 0 /\ e.csw.residue = peer'.cmd.xfer - MovedBy(e, peer')
          BY <2>1, <3>3, <3>5, <4>2 DEF Stalled, NoErr
        <4>4. Codes("FAIL", e, peer')
          BY <2>1, <3>3 DEF Stalled, Codes, Behind
        <4>5. Geometry(bot') /\ Status(bot', done', peer')
          BY <3>1, <3>4, <4>1, <4>3, <4>4, CswFollows
        <4>6. QED
          BY <4>5
      <3>6. CASE bot.status = "RECOVERY"
        <4>1. bot' = e
          BY <3>2, <3>3, <3>6 DEF USBD_MSV_BOT_ClearFeatureHandler
        <4>2. Mute(bot, done, peer)'
          BY <2>1, <3>1, <4>1 DEF Mute, Stalled, Active
        <4>3. QED
          BY <3>4, <4>1, <4>2
      <3>7. QED
        BY <2>2, <3>5, <3>6
    <2>5. QED
      BY <2>3, <2>4
  <1>4. QED
    BY <1>1, <1>2, <1>3

LEMMA AnsweringStep ==
    ASSUME MscType, Geometry(bot), Answering(bot, done, peer), BotNext
    PROVE  Geometry(bot') /\ AnswerTaken(bot, done, peer)'
  <1>1. Host_DataIn
    BY Guards DEF Answering, Active, Quiet
  <1>2. /\ bot.in.len \in Nat /\ peer'.got = peer.got + bot.in.len
        /\ peer'.body = (IF bot.in.what = "csw" THEN peer.body ELSE peer.body \o bot.in.body)
        /\ peer'.stage = (IF \/ bot.in.what = "csw" \/ peer.cmd.op # "READ_10" \/ bot.in.len = 0
                             \/ peer.got + bot.in.len >= peer.cmd.xfer THEN "csw" ELSE "dataIn")
        /\ peer'.tag = peer.tag /\ peer'.cmd = peer.cmd /\ done'.in /\ done'.out = done.out
        /\ peer'.due = peer.due /\ bot'.in.st = "NAK" /\ SameBut(bot', bot, {"in"})
    BY <1>1, DataInFacts
  <1>3. peer'.stage = "csw" /\ peer'.got = bot.in.len
    BY <1>2 DEF Answering, BlockOps
  <1>4. /\ bot'.state = bot.state /\ bot'.status = bot.status /\ bot'.csw = bot.csw
        /\ bot'.nbr = bot.nbr /\ bot'.size = bot.size /\ bot'.put = bot.put /\ bot'.txc = bot.txc
    BY <1>2 DEF SameBut, Fields
  <1>5. Even(bot') /\ Told(bot', peer')
    <2>1. peer.body = << >> /\ bot.in.what = "data"
      BY DEF Answering
    <2>2. bot.in.body \in Seq(Item)
      BY <2>1 DEF MscType, Dev, InEp
    <2>3. peer'.body = bot.in.body
      BY <1>2, <2>1, <2>2
    <2>4. QED
      BY <1>2, <1>4, <2>3 DEF Answering, Even, Told
  <1>6. QED
    BY <1>2, <1>3, <1>4, <1>5, GeometryKept DEF Answering, AnswerTaken, NoErr, Quiet

LEMMA AnswerTakenStep ==
    ASSUME MscType, Geometry(bot), AnswerTaken(bot, done, peer), BotNext
    PROVE  Geometry(bot') /\ Status(bot, done, peer)'
  <1>1. PICK ready \in BOOLEAN, works \in BOOLEAN : Bulk_In(ready, works)
    BY Guards DEF AnswerTaken, Active, Quiet
  <1>2. ~done'.out /\ ~done'.in /\ peer' = peer /\ bot' = USBD_MSC_BOT_InData(bot, ready, works)
    BY <1>1, IsrFacts
  <1>3. bot' = USBD_MSC_BOT_TxCSW(bot, "OK")
    BY <1>2 DEF USBD_MSC_BOT_InData, AnswerTaken
  <1>4. bot \in Dev /\ Quiet(done') /\ peer' = peer
    BY <1>2 DEF MscType, Quiet
  <1>5. bot.csw.residue = peer.cmd.xfer - MovedBy(bot, peer) /\ peer.cmd.op \notin BlockOps
    BY DEF AnswerTaken, MovedBy, BlockOps
  <1>6. Codes("OK", bot, peer)
    BY DEF AnswerTaken, Codes
  <1>7. Geometry(bot') /\ Status(bot', done', peer)
    BY <1>3, <1>4, <1>5, <1>6, CswFollows DEF AnswerTaken
  <1>8. QED
    BY <1>4, <1>7

(* The numbers of a read or a write under way. *)
LEMMA ProgressFacts ==
    ASSUME UsbMscAssumption, NEW d \in Dev, NEW h \in HostType, NEW op, Progress(d, h, op)
    PROVE  /\ Len(d.acc) \in Nat /\ h.cmd.n \in Nat /\ h.cmd.blk \in Nat /\ h.cmd.xfer \in Nat
           /\ d.len \in Nat /\ Len(d.acc) * BlkSize \in Nat
           /\ h.cmd.xfer = Len(d.acc) * BlkSize + d.len
           /\ d.len = 0 <=> Len(d.acc) = h.cmd.n
  <1>1. d.acc \in Seq(Nat) /\ h.cmd \in CommandType /\ d.len \in Nat
    BY DEF Dev, HostType, UsbMscAssumption
  <1>2. Len(d.acc) \in Nat /\ h.cmd.n \in Nat /\ h.cmd.blk \in Nat /\ h.cmd.xfer \in Nat
    BY <1>1 DEF CommandType
  <1>3. BlkSize \in Nat /\ BlkSize > 0
    BY DEF UsbMscAssumption
  <1>4. Len(d.acc) <= h.cmd.n /\ h.cmd.xfer = h.cmd.n * BlkSize /\ d.len = (h.cmd.n - Len(d.acc)) * BlkSize
    BY DEF Progress
  <1> DEFINE a == Len(d.acc)
             n == h.cmd.n
  <1> HIDE DEF a, n
  <1>5. a \in Nat /\ n \in Nat /\ a <= n
    BY <1>2, <1>4 DEF a, n
  <1>6. a * BlkSize \in Nat /\ (n - a) * BlkSize = n * BlkSize - a * BlkSize
        /\ (n = a <=> n * BlkSize = a * BlkSize) /\ n * BlkSize \in Nat
    BY <1>3, <1>5, Products
  <1>7. h.cmd.xfer = n * BlkSize /\ d.len = (n - a) * BlkSize
    BY <1>4 DEF a, n
  <1>8. h.cmd.xfer = a * BlkSize + d.len /\ (d.len = 0 <=> a = n)
    BY <1>6, <1>7
  <1>9. QED
    BY <1>1, <1>2, <1>6, <1>8 DEF a, n

(* The blocks of the next packet go on where the last ones ended. *)
LEMMA NextBlocks ==
    ASSUME UsbMscAssumption, Conforming, NEW d \in Dev, NEW h \in HostType, NEW op,
           Progress(d, h, op)
    PROVE  LET k == Lesser(MediaPacket, d.len)
               a == d.acc \o BlocksOf(d, k)
           IN  /\ k \in Nat /\ (d.len > 0 => k > 0) /\ (k # d.len => k = MediaPacket)
               /\ a = Run(h.cmd.blk, Len(a)) /\ Len(a) <= h.cmd.n /\ Len(a) \in Nat
               /\ (d.addr + k) % Word = (h.cmd.blk + Len(a)) * BlkSize
               /\ d.len - k = (h.cmd.n - Len(a)) * BlkSize
               /\ Len(a) * BlkSize = Len(d.acc) * BlkSize + k
               /\ k = d.len <=> Len(a) = h.cmd.n
  <1> DEFINE c == Len(d.acc)
             n == h.cmd.n
             b == h.cmd.blk
             l == n - c
             m == PacketBlocks(l)
             k == Lesser(MediaPacket, d.len)
             a == d.acc \o BlocksOf(d, k)
  <1>1. /\ c \in Nat /\ n \in Nat /\ b \in Nat /\ d.len \in Nat
        /\ d.len = 0 <=> c = n
    BY ProgressFacts
  <1>2. /\ c <= n /\ d.acc = Run(b, c) /\ d.addr = (b + c) * BlkSize /\ d.len = l * BlkSize
        /\ b + n <= BlkNbr /\ d.size = BlkSize
    BY DEF Progress
  <1>3. /\ BlkSize \in Nat /\ BlkSize > 0 /\ BlkNbr \in Nat /\ BlkNbr * BlkSize < Word
        /\ MediaPacket \in Nat /\ Word \in Nat
    BY DEF UsbMscAssumption, Conforming
  <1> HIDE DEF c, n, b
  <1>4. l \in Nat /\ b + c \in Nat
    BY <1>1, <1>2
  <1>5. /\ m \in 0..l /\ Lesser(MediaPacket, l * BlkSize) = m * BlkSize
        /\ (l > 0 => m > 0) /\ (m # l => m * BlkSize = MediaPacket)
    BY <1>4, PacketFacts
  <1> HIDE DEF m
  <1>6. k = m * BlkSize
    BY <1>2, <1>5
  <1>7. BlocksOf(d, k) = Run(b + c, m)
    BY <1>2, <1>4, <1>5, <1>6, BlocksAre
  <1> HIDE DEF k
  <1>8. a = Run(b, c + m) /\ Len(a) = c + m
    <2>1. c + m \in Nat /\ m \in Nat
      BY <1>1, <1>4, <1>5
    <2>2. Run(b, c) \o Run(b + c, m) = Run(b, c + m) /\ Len(Run(b, c + m)) = c + m
      BY <1>1, <2>1, RunFacts
    <2>3. QED
      BY <1>2, <1>7, <2>2
  <1> HIDE DEF a
  <1>9. c + m \in Nat /\ c + m <= n /\ m \in Nat /\ n - (c + m) = l - m
    BY <1>1, <1>2, <1>4, <1>5
  <1>10. /\ (c + m) * BlkSize = c * BlkSize + m * BlkSize
         /\ (l - m) * BlkSize = l * BlkSize - m * BlkSize
         /\ (l = m <=> l * BlkSize = m * BlkSize) /\ m * BlkSize \in Nat
         /\ (m > 0 <=> m * BlkSize > 0) /\ (l > 0 <=> l * BlkSize > 0)
    <2>1. m <= l
      BY <1>4, <1>5
    <2>2. QED
      BY <1>1, <1>3, <1>4, <1>9, <2>1, Products
  <1>11. (d.addr + k) % Word = (b + (c + m)) * BlkSize
    <2> DEFINE e == (b + (c + m)) * BlkSize
    <2>1. (b + c) * BlkSize + m * BlkSize = e
      <3>1. ((b + c) + m) * BlkSize = (b + c) * BlkSize + m * BlkSize
        BY <1>3, <1>4, <1>9, Products
      <3>2. (b + c) + m = b + (c + m)
        BY <1>1, <1>9
      <3>3. QED
        BY <3>1, <3>2
    <2>2. e \in Nat /\ e <= BlkNbr * BlkSize
      <3>1. b + (c + m) \in Nat /\ b + (c + m) <= BlkNbr
        BY <1>1, <1>2, <1>3, <1>9
      <3>2. QED
        BY <1>3, <3>1, Products
    <2> HIDE DEF e
    <2>3. BlkNbr * BlkSize \in Nat
      BY <1>3
    <2>4. e < Word
      BY <1>3, <2>2, <2>3
    <2>5. e % Word = e
      BY <2>2, <2>4, WordFacts
    <2>6. d.addr + k = e
      BY <1>2, <1>6, <2>1
    <2>7. QED
      BY <2>5, <2>6 DEF e
  <1>12. /\ k \in Nat /\ (d.len > 0 => k > 0) /\ (k # d.len => k = MediaPacket)
         /\ (k = d.len <=> c + m = n)
    BY <1>1, <1>2, <1>5, <1>6, <1>9, <1>10
  <1>13. d.len - k = (n - (c + m)) * BlkSize
    BY <1>2, <1>6, <1>9, <1>10
  <1>14. (c + m) * BlkSize = c * BlkSize + k
    BY <1>6, <1>10
  <1>15. /\ k \in Nat /\ (d.len > 0 => k > 0) /\ (k # d.len => k = MediaPacket)
         /\ a = Run(b, Len(a)) /\ Len(a) <= n /\ Len(a) \in Nat
         /\ (d.addr + k) % Word = (b + Len(a)) * BlkSize
         /\ d.len - k = (n - Len(a)) * BlkSize
         /\ Len(a) * BlkSize = c * BlkSize + k
         /\ k = d.len <=> Len(a) = n
    BY <1>8, <1>9, <1>11, <1>12, <1>13, <1>14
  <1>16. QED
    BY <1>15, Zenon DEF k, a, b, n, c

LEMMA ProgressMade ==
    ASSUME UsbMscAssumption, Conforming, NEW d \in Dev, NEW h \in HostType, NEW op,
           Progress(d, h, op), NEW r \in Dev, NEW k, k = Lesser(MediaPacket, d.len),
           r.acc = d.acc \o BlocksOf(d, k), r.addr = (d.addr + k) % Word, r.len = d.len - k,
           r.csw.residue = d.csw.residue - k, r.csw.tag = d.csw.tag, r.cbw = d.cbw,
           r.status = d.status, r.size = d.size, r.put = d.put, r.txc = d.txc
    PROVE  Progress(r, h, op) /\ Len(r.acc) * BlkSize = Len(d.acc) * BlkSize + k
  <1>1. /\ r.acc = Run(h.cmd.blk, Len(r.acc)) /\ Len(r.acc) <= h.cmd.n
        /\ r.addr = (h.cmd.blk + Len(r.acc)) * BlkSize
        /\ r.len = (h.cmd.n - Len(r.acc)) * BlkSize
        /\ Len(r.acc) * BlkSize = Len(d.acc) * BlkSize + k
    BY NextBlocks, Zenon
  <1>2. r.csw.residue = r.len
    BY DEF Progress
  <1>3. QED
    BY <1>1, <1>2 DEF Progress, NoErr, Even

(* SCSI_Read hands the next packet of a read to the endpoint. *)
LEMMA ReadGoesOn ==
    ASSUME UsbMscAssumption, Conforming, NEW d \in Dev, NEW q, NEW h \in HostType, Geometry(d),
           Progress(d, h, "READ_10"), d.state = "DATA_IN", d.len > 0, Quiet(q),
           h.stage = "dataIn", h.body = d.acc, h.got = Len(d.acc) * BlkSize
    PROVE  LET r == SCSI_Read(d, TRUE) IN Geometry(r) /\ ReadSent(r, q, h)
  <1> DEFINE r == SCSI_Read(d, TRUE)
             k == Lesser(MediaPacket, d.len)
             b == BlocksOf(d, k)
  <1>1. /\ r \in Dev /\ r.in = [st |-> "VALID", what |-> "data", len |-> k, body |-> b]
        /\ r.acc = d.acc \o b /\ r.addr = (d.addr + k) % Word /\ r.len = d.len - k
        /\ r.csw.residue = d.csw.residue - k /\ r.csw.tag = d.csw.tag
        /\ r.state = (IF r.len = 0 THEN "LAST_DATA_IN" ELSE d.state)
        /\ SameBut(r, d, {"in", "acc", "addr", "len", "csw", "ret", "state"})
    BY ReadEffect, Zenon
  <1>2. k \in Nat /\ k > 0
    BY NextBlocks, Zenon
  <1> HIDE DEF r
  <1>3. /\ r.cbw = d.cbw /\ r.status = d.status /\ r.size = d.size /\ r.nbr = d.nbr
        /\ r.put = d.put /\ r.txc = d.txc
    BY <1>1 DEF SameBut, Fields
  <1>4. Progress(r, h, "READ_10") /\ Len(r.acc) * BlkSize = Len(d.acc) * BlkSize + k
    BY <1>1, <1>3, ProgressMade, ZenonT(30)
  <1> HIDE DEF k, b
  <1>5. r.in.st = "VALID" /\ r.in.what = "data" /\ r.in.len = k /\ r.in.body = b
    BY <1>1
  <1>6. h.body \o r.in.body = r.acc /\ h.got + r.in.len = Len(r.acc) * BlkSize
    BY <1>1, <1>4, <1>5
  <1>7. ReadState(r)
    BY <1>1 DEF ReadState
  <1>8. ReadSent(r, q, h)
    BY <1>2, <1>4, <1>5, <1>6, <1>7 DEF ReadSent
  <1>9. Geometry(r)
    BY <1>3, GeometryKept
  <1>10. QED
    BY <1>8, <1>9 DEF r

LEMMA ReadSentStep ==
    ASSUME UsbMscAssumption, MscType, Geometry(bot), ReadSent(bot, done, peer), BotNext
    PROVE  Geometry(bot') /\ ReadTaken(bot, done, peer)'
  <1>1. Host_DataIn
    BY Guards DEF ReadSent, Active, Quiet
  <1>2. /\ bot.in.len \in Nat /\ peer'.got = peer.got + bot.in.len
        /\ peer'.body = (IF bot.in.what = "csw" THEN peer.body ELSE peer.body \o bot.in.body)
        /\ peer'.stage = (IF \/ bot.in.what = "csw" \/ peer.cmd.op # "READ_10" \/ bot.in.len = 0
                             \/ peer.got + bot.in.len >= peer.cmd.xfer THEN "csw" ELSE "dataIn")
        /\ peer'.tag = peer.tag /\ peer'.cmd = peer.cmd /\ done'.in /\ done'.out = done.out
        /\ bot'.in.st = "NAK" /\ SameBut(bot', bot, {"in"})
    BY <1>1, DataInFacts
  <1>3. /\ bot'.state = bot.state /\ bot'.status = bot.status /\ bot'.csw = bot.csw
        /\ bot'.nbr = bot.nbr /\ bot'.size = bot.size /\ bot'.acc = bot.acc /\ bot'.cbw = bot.cbw
        /\ bot'.addr = bot.addr /\ bot'.len = bot.len /\ bot'.put = bot.put /\ bot'.txc = bot.txc
    BY <1>2 DEF SameBut, Fields
  <1>4. Progress(bot, peer, "READ_10") /\ bot \in Dev /\ peer \in HostType
    BY DEF ReadSent, MscType
  <1>5. Progress(bot', peer', "READ_10") /\ ReadState(bot')
    BY <1>2, <1>3, <1>4 DEF Progress, NoErr, Even, ReadState, ReadSent
  <1>6. peer'.got = Len(bot.acc) * BlkSize /\ peer'.body = bot.acc
    BY <1>2 DEF ReadSent
  <1>7. /\ peer.cmd.xfer = Len(bot.acc) * BlkSize + bot.len /\ bot.len \in Nat
        /\ Len(bot.acc) * BlkSize \in Nat
    BY <1>4, ProgressFacts, Zenon
  <1>8. peer'.stage = IF bot.len = 0 THEN "csw" ELSE "dataIn"
    BY <1>2, <1>6, <1>7 DEF ReadSent, Progress
  <1>9. QED
    BY <1>2, <1>3, <1>5, <1>6, <1>8, GeometryKept DEF ReadTaken, ReadSent, Quiet

LEMMA ReadTakenStep ==
    ASSUME UsbMscAssumption, Conforming, MscType, Geometry(bot), ReadTaken(bot, done, peer), BotNext
    PROVE  /\ Geometry(bot')
           /\ ReadSent(bot, done, peer)' \/ Status(bot, done, peer)' \/ CswAsData(bot, done, peer)'
  <1>1. PICK ready \in BOOLEAN, works \in BOOLEAN : Bulk_In(ready, works)
    BY Guards DEF ReadTaken, Active, Quiet
  <1>2. ~done'.out /\ ~done'.in /\ peer' = peer /\ bot' = USBD_MSC_BOT_InData(bot, ready, works)
    BY <1>1, IsrFacts
  <1>3. Progress(bot, peer, "READ_10") /\ bot \in Dev /\ peer \in HostType /\ Quiet(done')
    BY <1>2 DEF ReadTaken, MscType, Quiet
  <1>4. /\ peer.cmd.xfer = Len(bot.acc) * BlkSize + bot.len /\ bot.len \in Nat
        /\ Len(bot.acc) * BlkSize \in Nat /\ (bot.len = 0 <=> Len(bot.acc) = peer.cmd.n)
    BY <1>3, ProgressFacts, Zenon
  <1>5. /\ bot.cbw = peer.cmd /\ peer.cmd.op = "READ_10" /\ bot.csw.residue = bot.len
        /\ NoErr(bot) /\ bot.csw.tag = peer.tag /\ peer.tag > 0
        /\ bot.acc = Run(peer.cmd.blk, Len(bot.acc))
    BY <1>3 DEF Progress
  <1>6. CASE bot.len = 0
    <2>1. bot.state = "LAST_DATA_IN" /\ peer.stage = "csw"
      BY <1>6 DEF ReadTaken, ReadState
    <2>2. bot' = USBD_MSC_BOT_TxCSW(bot, "OK")
      BY <1>2, <2>1 DEF USBD_MSC_BOT_InData
    <2>3. bot.csw.residue = peer.cmd.xfer - MovedBy(bot, peer)
      BY <1>4, <1>5, <1>6 DEF MovedBy, ReadTaken
    <2>4. bot.acc = Run(peer.cmd.blk, peer.cmd.n) /\ peer.body = bot.acc
      BY <1>4, <1>5, <1>6 DEF ReadTaken
    <2>5. Codes("OK", bot, peer)
      BY <1>3, <1>5 DEF Codes, Told, Progress
    <2>6. Geometry(bot') /\ Status(bot', done', peer)
      BY <1>3, <1>5, <2>1, <2>2, <2>3, <2>4, <2>5, CswFollows
    <2>7. QED
      BY <1>2, <2>6
  <1>7. CASE bot.len # 0
    <2>1. bot.state = "DATA_IN" /\ peer.stage = "dataIn" /\ bot.len > 0
      BY <1>4, <1>7 DEF ReadTaken, ReadState
    <2>2. SCSI_CmdHandler(bot, ready, works) =
             IF works THEN SCSI_Read(bot, TRUE) ELSE Fail(bot, "HARDWARE_ERROR")
      BY <1>3, <1>5, <2>1, HandlerWhenBusy
    <2>3. CASE works
      <3>1. SCSI_Read(bot, TRUE).ret
        BY <1>3, ReadEffect, Zenon
      <3>2. bot' = SCSI_Read(bot, TRUE)
        BY <1>2, <2>1, <2>2, <2>3, <3>1 DEF USBD_MSC_BOT_InData
      <3>3. peer.body = bot.acc /\ peer.got = Len(bot.acc) * BlkSize
        BY DEF ReadTaken
      <3>4. Geometry(bot') /\ ReadSent(bot', done', peer)
        BY <1>3, <2>1, <3>2, <3>3, ReadGoesOn, Zenon
      <3>5. QED
        BY <1>2, <3>4
    <2>4. CASE ~works
      <3> DEFINE e == Fail(bot, "HARDWARE_ERROR")
                 r == USBD_MSC_BOT_TxCSW(e, "FAIL")
      <3>1. "HARDWARE_ERROR" \in Keys
        BY DEF Keys
      <3>2. e \in Dev /\ ~e.ret /\ SameBut(e, bot, {"sense", "put", "ret"})
        BY <1>3, <3>1, FailEffect, Zenon
      <3>3. bot' = r
        BY <1>2, <2>1, <2>2, <2>4, <3>2 DEF USBD_MSC_BOT_InData
      <3> HIDE DEF e
      <3>4. /\ r.state = "IDLE" /\ r.in.st = "VALID" /\ r.in.what = "csw"
            /\ SameBut(r, e, {"state", "csw", "in", "out"})
        BY <3>2, TxCSWEffect, Zenon
      <3> HIDE DEF r
      <3>5. r.nbr = bot.nbr /\ r.size = bot.size
        BY <3>2, <3>4 DEF SameBut, Fields
      <3>6. Geometry(bot')
        BY <3>3, <3>5, GeometryKept
      <3>7. CswAsData(bot', done', peer)
        BY <1>3, <1>5, <2>1, <3>3, <3>4 DEF CswAsData
      <3>8. QED
        BY <1>2, <3>6, <3>7
    <2>5. QED
      BY <2>3, <2>4
  <1>8. QED
    BY <1>6, <1>7

LEMMA WriteWaitStep ==
    ASSUME MscType, Geometry(bot), WriteWait(bot, done, peer), BotNext
    PROVE  Geometry(bot') /\ WriteGot(bot, done, peer)'
  <1>1. Host_DataOut
    BY Guards DEF WriteWait, Active, Quiet
  <1>2. /\ peer'.got = Lesser(peer.cmd.xfer, peer.got + MediaPacket)
        /\ peer'.stage = (IF peer'.got = peer.cmd.xfer THEN "csw" ELSE "dataOut")
        /\ peer'.tag = peer.tag /\ peer'.cmd = peer.cmd
        /\ done'.out /\ done'.in = done.in
        /\ bot'.out.st = "NAK" /\ (bot.out.what # "cbw" => bot'.cbw = bot.cbw)
        /\ SameBut(bot', bot, {"out", "cbw"})
    BY <1>1, DataOutFacts
  <1>3. /\ bot'.state = bot.state /\ bot'.status = bot.status /\ bot'.csw = bot.csw
        /\ bot'.nbr = bot.nbr /\ bot'.size = bot.size /\ bot'.acc = bot.acc
        /\ bot'.addr = bot.addr /\ bot'.len = bot.len /\ bot'.in = bot.in
        /\ bot'.put = bot.put /\ bot'.txc = bot.txc
    BY <1>2 DEF SameBut, Fields
  <1>4. bot'.cbw = bot.cbw
    BY <1>2 DEF WriteWait
  <1>5. Progress(bot', peer', "WRITE10")
    BY <1>2, <1>3, <1>4 DEF Progress, NoErr, Even, WriteWait
  <1>6. peer'.got = Lesser(peer'.cmd.xfer, Len(bot'.acc) * BlkSize + MediaPacket)
    BY <1>2, <1>3 DEF WriteWait
  <1>7. QED
    BY <1>2, <1>3, <1>5, <1>6, GeometryKept DEF WriteGot, WriteWait, Quiet

LEMMA WriteGotStep ==
    ASSUME UsbMscAssumption, Conforming, MscType, Geometry(bot), WriteGot(bot, done, peer), BotNext
    PROVE  /\ Geometry(bot')
           /\ WriteWait(bot, done, peer)' \/ Status(bot, done, peer)'
  <1>1. PICK ready \in BOOLEAN, works \in BOOLEAN : Bulk_Out(ready, works)
    BY Guards DEF WriteGot, Active, Quiet
  <1>2. /\ ~done'.out /\ done'.in = done.in /\ peer' = peer
        /\ bot' = USBD_MSC_BOT_OutData(bot, ready, works) /\ (~works => bot.cbw.op \in MayFail)
    BY <1>1, IsrFacts
  <1>3. /\ Progress(bot, peer, "WRITE10") /\ bot \in Dev /\ peer \in HostType /\ Quiet(done')
        /\ bot.state = "DATA_OUT" /\ bot.in.st = "NAK" /\ bot.len > 0
    BY <1>2 DEF WriteGot, MscType, Quiet
  <1> DEFINE a == Len(bot.acc) * BlkSize
             k == Lesser(MediaPacket, bot.len)
  <1>4. /\ peer.cmd.xfer = a + bot.len /\ bot.len \in Nat /\ a \in Nat /\ peer.cmd.xfer \in Nat
        /\ MediaPacket \in Nat
    BY <1>3, ProgressFacts, Zenon DEF UsbMscAssumption
  <1>5. /\ bot.cbw = peer.cmd /\ peer.cmd.op = "WRITE10" /\ bot.csw.residue = bot.len
        /\ NoErr(bot) /\ bot.csw.tag = peer.tag /\ peer.tag > 0 /\ peer.cmd \in Commands
        /\ peer.cmd.xfer = peer.cmd.n * BlkSize
    BY <1>3 DEF Progress
  <1>6. /\ peer.got = Lesser(peer.cmd.xfer, a + MediaPacket)
        /\ peer.stage = IF peer.got = peer.cmd.xfer THEN "csw" ELSE "dataOut"
    BY DEF WriteGot
  <1>7. SCSI_CmdHandler(bot, ready, works) =
           IF works THEN SCSI_Write(bot, TRUE) ELSE Fail(bot, "HARDWARE_ERROR")
    BY <1>3, <1>5, HandlerWhenBusy
  <1> HIDE DEF a
  <1>8. CASE works
    <2> DEFINE r == SCSI_Write(bot, TRUE)
    <2>1. /\ r \in Dev /\ r.ret /\ r.acc = bot.acc \o BlocksOf(bot, k)
          /\ r.addr = (bot.addr + k) % Word /\ r.len = bot.len - k
          /\ SameBut(r, bot, {"in", "out", "acc", "addr", "len", "csw", "ret", "state"})
          /\ bot.len > k => /\ r.state = bot.state /\ r.in = bot.in
                            /\ r.out.st = "VALID" /\ r.out.what = "data"
                            /\ r.csw.residue = bot.csw.residue - k /\ r.csw.tag = bot.csw.tag
          /\ bot.len = k => /\ r.state = "IDLE" /\ r.in.st = "VALID" /\ r.in.what = "csw"
                            /\ r.out.st = "VALID" /\ r.out.what = "cbw"
                            /\ r.in.body.tag = bot.csw.tag /\ r.in.body.status = "OK"
                            /\ r.in.body.residue = bot.csw.residue - k
      BY <1>3, WriteEffect, Zenon
    <2>2. bot' = r
      BY <1>2, <1>3, <1>7, <1>8, <2>1 DEF USBD_MSC_BOT_OutData
    <2> HIDE DEF r
    <2>3. /\ r.cbw = bot.cbw /\ r.status = bot.status /\ r.size = bot.size /\ r.nbr = bot.nbr
          /\ r.put = bot.put /\ r.txc = bot.txc
      BY <2>1 DEF SameBut, Fields
    <2>4. /\ k \in Nat /\ k > 0 /\ (k # bot.len => k = MediaPacket)
          /\ r.acc = Run(peer.cmd.blk, Len(r.acc))
          /\ Len(r.acc) * BlkSize = a + k
          /\ (k = bot.len <=> Len(r.acc) = peer.cmd.n)
      BY <1>3, <2>1, NextBlocks, Zenon DEF a
    <2>5. k <= bot.len /\ k <= MediaPacket
      BY <1>4 DEF Lesser
    <2>6. Geometry(bot')
      BY <2>2, <2>3, GeometryKept
    <2>7. CASE bot.len > k
      <3>1. Progress(r, peer, "WRITE10")
        BY <1>3, <2>1, <2>3, <2>7, ProgressMade, Zenon
      <3> HIDE DEF k
      <3>2. k = MediaPacket /\ r.len > 0
        BY <1>4, <2>1, <2>4, <2>7
      <3>3. peer.got = a + k /\ peer.got # peer.cmd.xfer
        BY <1>4, <1>6, <2>4, <2>7, <3>2 DEF Lesser
      <3>4. WriteWait(bot', done', peer)
        BY <1>3, <1>6, <2>1, <2>2, <2>4, <2>7, <3>1, <3>2, <3>3 DEF WriteWait
      <3>5. QED
        BY <1>2, <2>6, <3>4
    <2>8. CASE bot.len = k
      <3>1. peer.stage = "csw"
        BY <1>4, <1>6, <2>5, <2>8 DEF Lesser
      <3> HIDE DEF k
      <3>2. MovedBy(r, peer) = peer.cmd.xfer
        BY <1>4, <1>5, <2>4, <2>8 DEF MovedBy
      <3>3. Truthful(r.in.body, r, peer)
        BY <1>4, <1>5, <2>1, <2>4, <2>8, <3>2 DEF Truthful
      <3>4. Codes("OK", r, peer)
        BY <1>3, <1>5, <2>3 DEF Codes, Even, Told, Progress
      <3>5. Status(bot', done', peer)
        BY <1>3, <1>5, <2>1, <2>2, <2>3, <2>8, <3>1, <3>3, <3>4 DEF Status, NoErr
      <3>6. QED
        BY <1>2, <2>6, <3>5
    <2>9. QED
      <3>1. bot.len > k \/ bot.len = k
        BY <1>4, <2>4, <2>5
      <3>2. QED
        BY <2>7, <2>8, <3>1
  <1>9. CASE ~works
    <2> DEFINE e == Fail(bot, "HARDWARE_ERROR")
    <2>1. "HARDWARE_ERROR" \in Keys
      BY DEF Keys
    <2>2. /\ e \in Dev /\ ~e.ret /\ SameBut(e, bot, {"sense", "put", "ret"})
          /\ e.sense = [bot.sense EXCEPT ![bot.put] = "HARDWARE_ERROR"] /\ e.put = Next4(bot.put)
      BY <1>3, <2>1, FailEffect, Zenon
    <2>3. bot' = USBD_MSC_BOT_TxCSW(e, "FAIL")
      BY <1>2, <1>3, <1>7, <1>9, <2>2 DEF USBD_MSC_BOT_OutData
    <2> HIDE DEF e
    <2>4. /\ e.acc = bot.acc /\ e.csw = bot.csw /\ e.status = bot.status
          /\ e.nbr = bot.nbr /\ e.size = bot.size /\ e.txc = bot.txc
      BY <2>2 DEF SameBut, Fields
    <2>5. peer.cmd.xfer <= MediaPacket
      BY <1>2, <1>5, <1>9 DEF Conforming, ConformingCommand
    <2>6. peer.stage = "csw"
      BY <1>4, <1>6, <2>5 DEF Lesser
    <2>7. e.csw.residue = peer.cmd.xfer - MovedBy(e, peer)
      BY <1>4, <1>5, <2>4 DEF MovedBy, a
    <2>8. NoErr(e) /\ Geometry(e)
      BY <1>5, <2>4, GeometryKept DEF NoErr
    <2>9. Codes("FAIL", e, peer)
      <3>1. Even(bot) /\ bot.sense \in [0..3 -> Keys] /\ bot.put \in 0..3
        BY <1>3 DEF Progress, Dev
      <3>2. e.sense[bot.put] # "NO_SENSE"
        BY <2>2, <3>1
      <3>3. QED
        BY <1>5, <2>2, <2>4, <3>1, <3>2 DEF Codes, Even, Behind
    <2>10. Geometry(bot') /\ Status(bot', done', peer)
      BY <1>3, <1>5, <2>2, <2>3, <2>4, <2>6, <2>7, <2>8, <2>9, CswFollows
    <2>11. QED
      BY <1>2, <2>10
  <1>10. QED
    BY <1>8, <1>9

(* USBD_MSC_BOT_DecodeCBW has set up the counts for the host's command. *)
Fresh(d, q, h) ==
    /\ d \in Dev /\ h \in HostType /\ Quiet(q) /\ Geometry(d) /\ h.cmd \in Commands
    /\ h.stage = DataStage(h.cmd) /\ h.got = 0 /\ h.body = << >> /\ h.tag > 0
    /\ d.state = "IDLE" /\ NoErr(d) /\ d.in.st = "NAK" /\ d.out.st = "NAK" /\ d.cbw = h.cmd
    /\ d.csw.tag = h.tag /\ d.csw.residue = h.cmd.xfer /\ d.acc = << >>
    /\ Owed(d, h) /\ (h.due # "NO_SENSE" => h.cmd.op = "REQUEST_SENSE")

LEMMA RefusedStalls ==
    ASSUME NEW d, NEW q, NEW h, Fresh(d, q, h), NEW r, Refused(r, d), d.cbw.op # "REQUEST_SENSE"
    PROVE  LET s == USBD_MSC_BOT_Stall(r) IN Geometry(s) /\ Stalled(s, q, h)
  <1> DEFINE s == USBD_MSC_BOT_Stall(r)
  <1>1. r \in Dev /\ SameBut(r, d, {"sense", "put", "ret", "addr", "len", "state"})
    BY DEF Refused
  <1>2. /\ r.status = d.status /\ r.out = d.out /\ r.acc = d.acc /\ r.csw = d.csw
        /\ r.nbr = d.nbr /\ r.size = d.size /\ r.txc = d.txc
    BY <1>1 DEF SameBut, Fields
  <1>3. /\ s.in.st = "STALL" /\ SameBut(s, r, {"in", "out"})
        /\ NoErr(r) /\ r.out.st = "NAK" => 
             s.out.st = IF r.cbw.dir = "out" /\ r.cbw.xfer # 0 /\ r.status = "NORMAL"
                        THEN "STALL" ELSE "NAK"
    BY <1>1, StallEffect, Zenon
  <1> HIDE DEF s
  <1>4. /\ s.status = d.status /\ s.acc = d.acc /\ s.csw = d.csw /\ s.nbr = d.nbr /\ s.size = d.size
        /\ s.txc = d.txc /\ s.put = r.put /\ s.sense = r.sense
    BY <1>2, <1>3 DEF SameBut, Fields
  <1>5. s.out.st # "VALID"
    BY <1>2, <1>3 DEF Fresh, NoErr
  <1>6. h.stage \in Active
    BY DEF Fresh, DataStage, Active
  <1>7. Behind(s) /\ h.cmd.op # "REQUEST_SENSE"
    <2>1. PICK k \in FailKeys : r.sense = [d.sense EXCEPT ![d.put] = k] /\ r.put = Next4(d.put)
      BY Zenon DEF Refused, Noted
    <2>2. d.sense \in [0..3 -> Keys] /\ d.put \in 0..3
      BY DEF Fresh, Dev
    <2>3. r.sense[d.put] # "NO_SENSE"
      BY <2>1, <2>2 DEF FailKeys
    <2>4. QED
      BY <1>4, <2>1, <2>3 DEF Fresh, Owed, Behind
  <1>8. Stalled(s, q, h)
    BY <1>3, <1>4, <1>5, <1>6, <1>7 DEF Stalled, Fresh, NoErr
  <1>9. Geometry(s)
    BY <1>4, GeometryKept DEF Fresh
  <1>10. QED
    BY <1>8, <1>9 DEF s

LEMMA ServedAnswers ==
    ASSUME Conforming, NEW d, NEW q, NEW h, Fresh(d, q, h), NEW r, Served(r, d)
    PROVE  /\ r.ret /\ r.state = "IDLE" /\ r.dataLen > 0
           /\ LET s == USBD_MSC_BOT_TxData(r) IN Geometry(s) /\ Answering(s, q, h)
  <1> DEFINE s == USBD_MSC_BOT_TxData(r)
             n == Lesser(r.dataLen, r.cbw.xfer)
  <1>1. /\ r \in Dev /\ r.ret /\ r.dataLen > 0 /\ d.cbw.op \in DataOps /\ Geometry(r)
        /\ SameBut(r, d, {"dataLen", "data", "ret", "txc", "nbr", "size"})
    BY DEF Served, Fresh
  <1>2. r.status = d.status /\ r.csw = d.csw /\ r.state = d.state /\ r.put = d.put
    BY <1>1 DEF SameBut, Fields
  <1>3. /\ n \in Nat /\ s.state = "SEND_DATA"
        /\ s.in = [st |-> "VALID", what |-> "data", len |-> n, body |-> r.data]
        /\ s.csw.residue = r.csw.residue - n /\ s.csw.tag = r.csw.tag
        /\ SameBut(s, r, {"in", "csw", "state"})
    BY <1>1, BotTxDataEffect, Zenon
  <1> HIDE DEF s, n
  <1>4. /\ s.status = r.status /\ s.nbr = r.nbr /\ s.size = r.size
        /\ s.put = r.put /\ s.txc = r.txc
    BY <1>3 DEF SameBut, Fields
  <1>5. h.cmd.dir = "in" /\ h.cmd.xfer > 0 /\ h.cmd.op \in DataOps
    BY <1>1 DEF Fresh, Conforming, ConformingCommand
  <1>6. h.stage = "dataIn" /\ h.cmd.op \notin BlockOps
    BY <1>5 DEF Fresh, DataStage, DataOps, BlockOps
  <1>7. s.in.st = "VALID" /\ s.in.what = "data" /\ s.in.len = n /\ s.in.body = r.data
    BY <1>3
  <1>8. Even(r) /\ ((d.status = "NORMAL" /\ h.cmd.op = "REQUEST_SENSE") => r.data = <<h.due>>)
    <2>1. /\ d.cbw.op # "REQUEST_SENSE" => r.txc = d.txc
          /\ d.cbw.op = "REQUEST_SENSE" =>
                IF d.txc # d.put THEN r.data = <<d.sense[d.txc]>> /\ r.txc = Next4(d.txc)
                ELSE r.data = <<"NO_SENSE">> /\ r.txc = d.txc
      BY DEF Served
    <2>2. d.txc \in 0..3 /\ Next4(d.txc) # d.txc
      BY DEF Fresh, Dev, Next4, SCSI_SENSE_LIST_NUMBER
    <2>3. d.cbw = h.cmd /\ Owed(d, h) /\ (h.due # "NO_SENSE" => h.cmd.op = "REQUEST_SENSE")
      BY DEF Fresh
    <2>4. QED
      BY <1>2, <2>1, <2>2, <2>3 DEF Owed, Even
  <1>9. Answering(s, q, h)
    BY <1>2, <1>3, <1>4, <1>6, <1>7, <1>8 DEF Answering, Fresh, NoErr, Even
  <1>10. Geometry(s)
    BY <1>1, <1>4, GeometryKept
  <1>11. QED
    BY <1>1, <1>2, <1>9, <1>10 DEF s, Fresh

LEMMA EmptyEnds ==
    ASSUME Conforming, NEW d, NEW q, NEW h, Fresh(d, q, h), NEW r, Empty(r, d)
    PROVE  /\ r.ret /\ r.state = "IDLE" /\ ~(r.dataLen > 0)
           /\ LET s == USBD_MSC_BOT_TxCSW(r, "OK") IN Geometry(s) /\ Status(s, q, h)
  <1>1. /\ r \in Dev /\ r.ret /\ r.dataLen = 0 /\ d.cbw.op \in NoDataOps
        /\ SameBut(r, d, {"dataLen", "data", "ret"})
        /\ (d.cbw.op = "TEST_UNIT_READY" => d.cbw.xfer = 0)
    BY DEF Empty
  <1>2. /\ r.status = d.status /\ r.csw = d.csw /\ r.state = d.state /\ r.acc = d.acc
        /\ r.nbr = d.nbr /\ r.size = d.size /\ r.put = d.put /\ r.txc = d.txc
    BY <1>1 DEF SameBut, Fields
  <1>3. h.cmd.xfer = 0 /\ h.cmd.op \notin BlockOps /\ h.cmd.op # "REQUEST_SENSE"
    BY <1>1 DEF Fresh, Conforming, ConformingCommand, NoDataOps, BlockOps
  <1>4. h.stage = "csw" /\ MovedBy(r, h) = 0
    BY <1>3 DEF Fresh, DataStage, MovedBy, BlockOps
  <1>5. Geometry(r) /\ NoErr(r) /\ r.csw.tag = h.tag /\ r.csw.residue = h.cmd.xfer - MovedBy(r, h)
    BY <1>2, <1>3, <1>4, GeometryKept DEF Fresh, NoErr
  <1>6. Codes("OK", r, h)
    BY <1>2, <1>3 DEF Fresh, Owed, Codes, Even, Told
  <1>7. LET s == USBD_MSC_BOT_TxCSW(r, "OK") IN Geometry(s) /\ Status(s, q, h)
    BY <1>1, <1>3, <1>4, <1>5, <1>6, CswFollows DEF Fresh
  <1>8. QED
    BY <1>1, <1>2, <1>7 DEF Fresh

(* A transfer of as many bytes as the blocks have is accepted only after   *)
(* SCSI_ReadCapacity10 has set the geometry, and lies in the medium.       *)
LEMMA Admitted ==
    ASSUME UsbMscAssumption, Conforming, NEW d, NEW q, NEW h, Fresh(d, q, h), InRange(d),
           h.cmd.xfer = (h.cmd.n * d.size) % Word, h.cmd.xfer > 0
    PROVE  /\ d.size = BlkSize /\ h.cmd.blk + h.cmd.n <= BlkNbr
           /\ h.cmd.xfer = h.cmd.n * BlkSize
           /\ (h.cmd.n * d.size) % Word = h.cmd.n * BlkSize
           /\ (h.cmd.blk * d.size) % Word = h.cmd.blk * BlkSize
  <1> DEFINE n == h.cmd.n
             b == h.cmd.blk
  <1>1. n \in Nat /\ b \in Nat /\ b + n < Word
    BY DEF Fresh, HostType, CommandType, Conforming, ConformingCommand
  <1>2. /\ BlkSize \in Nat /\ BlkSize > 0 /\ BlkNbr \in Nat /\ BlkNbr * BlkSize < Word
        /\ Word \in Nat /\ Word > 0
    BY DEF UsbMscAssumption, Conforming
  <1>3. d.cbw.n = n /\ d.cbw.blk = b
    BY DEF Fresh
  <1>4. h.cmd.xfer = (n * d.size) % Word
    OBVIOUS
  <1> HIDE DEF n, b
  <1>5. d.size # 0
    <2>1. d.size = 0 => n * d.size = 0
      BY <1>1
    <2>2. 0 % Word = 0
      BY <1>2
    <2>3. QED
      BY <1>4, <2>1, <2>2
  <1>6. d.size = BlkSize /\ d.nbr = BlkNbr
    BY <1>5 DEF Fresh, Geometry
  <1>7. b + n <= BlkNbr
    <2>1. n + b \in Nat /\ n + b < Word
      BY <1>1
    <2>2. (n + b) % Word = n + b
      BY <2>1, WordFacts
    <2>3. BlkNbr >= (n + b) % Word
      BY <1>3, <1>6 DEF InRange
    <2>4. QED
      BY <1>1, <1>2, <2>2, <2>3
  <1>8. ASSUME NEW x \in Nat, x <= BlkNbr
        PROVE  (x * BlkSize) % Word = x * BlkSize
    <2>1. x * BlkSize \in Nat /\ x * BlkSize <= BlkNbr * BlkSize /\ BlkNbr * BlkSize \in Nat
      BY <1>2, <1>8, Products
    <2>2. x * BlkSize < Word
      BY <1>2, <2>1
    <2>3. QED
      BY <2>1, <2>2, WordFacts
  <1>9. (n * BlkSize) % Word = n * BlkSize /\ (b * BlkSize) % Word = b * BlkSize
    <2>1. n <= BlkNbr /\ b <= BlkNbr
      BY <1>1, <1>2, <1>7
    <2>2. QED
      BY <1>1, <1>8, <2>1
  <1>10. QED
    BY <1>4, <1>6, <1>7, <1>9 DEF n, b

(* What a read or a write starts from. *)
LEMMA ProgressStarts ==
    ASSUME UsbMscAssumption, Conforming, NEW d, NEW q, NEW h, Fresh(d, q, h), InRange(d),
           h.cmd.xfer = (h.cmd.n * d.size) % Word, h.cmd.xfer > 0, NEW r \in Dev,
           r.addr = (d.cbw.blk * d.size) % Word, r.len = (d.cbw.n * d.size) % Word,
           r.status = d.status, r.cbw = d.cbw, r.csw = d.csw, r.size = d.size, r.acc = d.acc,
           r.put = d.put, r.txc = d.txc, h.cmd.op # "REQUEST_SENSE"
    PROVE  /\ Progress(r, h, h.cmd.op) /\ r.len > 0 /\ h.got = Len(r.acc) * BlkSize
           /\ h.body = r.acc
  <1>1. /\ d.size = BlkSize /\ h.cmd.blk + h.cmd.n <= BlkNbr
        /\ h.cmd.xfer = h.cmd.n * BlkSize
        /\ (h.cmd.n * d.size) % Word = h.cmd.n * BlkSize
        /\ (h.cmd.blk * d.size) % Word = h.cmd.blk * BlkSize
    BY Admitted, Zenon
  <1>2. h.cmd.n \in Nat /\ h.cmd.blk \in Nat
    BY DEF Fresh, HostType, CommandType
  <1>3. /\ Len(r.acc) = 0 /\ h.cmd.blk + Len(r.acc) = h.cmd.blk
        /\ h.cmd.n - Len(r.acc) = h.cmd.n /\ Len(r.acc) <= h.cmd.n
    BY <1>2 DEF Fresh
  <1>4. r.acc = Run(h.cmd.blk, Len(r.acc))
    BY <1>2, <1>3, RunFacts DEF Fresh
  <1>5. /\ r.addr = (h.cmd.blk + Len(r.acc)) * BlkSize
        /\ r.len = (h.cmd.n - Len(r.acc)) * BlkSize /\ r.len = h.cmd.xfer
    BY <1>1, <1>3 DEF Fresh
  <1>6. Even(r)
    BY DEF Fresh, Owed, Even
  <1>7. Progress(r, h, h.cmd.op)
    BY <1>1, <1>3, <1>4, <1>5, <1>6 DEF Progress, Fresh, NoErr
  <1>8. h.got = Len(r.acc) * BlkSize /\ h.body = r.acc
    BY <1>3 DEF Fresh, UsbMscAssumption
  <1>9. QED
    BY <1>5, <1>7, <1>8

LEMMA ReadStarts ==
    ASSUME UsbMscAssumption, Conforming, NEW d, NEW q, NEW h, Fresh(d, q, h), NEW r,
           ReadStarted(r, d)
    PROVE  r.ret /\ r.state \notin {"IDLE", "SEND_DATA"} /\ Geometry(r) /\ ReadSent(r, q, h)
  <1> DEFINE e == Scaled(d)
  <1>1. /\ d.cbw.op = "READ_10" /\ d.cbw.dir = "in" /\ InRange(d) /\ d.cbw.xfer = Scale(d).len
        /\ r = SCSI_Read(e, TRUE)
    BY DEF ReadStarted
  <1>2. /\ e \in Dev /\ e.addr = (d.cbw.blk * d.size) % Word
        /\ e.len = (d.cbw.n * d.size) % Word /\ e.len = Scale(d).len
        /\ e.state = "DATA_IN" /\ SameBut(e, d, {"addr", "len", "state"})
    BY ScaledEffect, Zenon DEF Fresh
  <1> HIDE DEF e
  <1>3. /\ e.status = d.status /\ e.cbw = d.cbw /\ e.csw = d.csw /\ e.size = d.size /\ e.acc = d.acc
        /\ e.nbr = d.nbr /\ e.put = d.put /\ e.txc = d.txc
    BY <1>2 DEF SameBut, Fields
  <1>4. /\ h.cmd.op = "READ_10" /\ h.cmd.dir = "in" /\ h.cmd.xfer > 0
        /\ h.cmd.xfer = (h.cmd.n * d.size) % Word
    BY <1>1, <1>2 DEF Fresh, Conforming, ConformingCommand
  <1>5. Progress(e, h, h.cmd.op) /\ e.len > 0 /\ h.got = Len(e.acc) * BlkSize /\ h.body = e.acc
    <2>1. /\ e \in Dev /\ e.addr = (d.cbw.blk * d.size) % Word /\ e.len = (d.cbw.n * d.size) % Word
          /\ InRange(d) /\ h.cmd.xfer = (h.cmd.n * d.size) % Word /\ h.cmd.xfer > 0
          /\ h.cmd.op # "REQUEST_SENSE"
      BY <1>1, <1>2, <1>4
    <2>2. QED
      BY <1>3, <2>1, ProgressStarts
  <1>6. h.stage = "dataIn" /\ h \in HostType /\ Quiet(q) /\ Geometry(e)
    BY <1>3, <1>4, GeometryKept DEF Fresh, DataStage
  <1>7. Geometry(r) /\ ReadSent(r, q, h)
    BY <1>1, <1>2, <1>4, <1>5, <1>6, ReadGoesOn, Zenon
  <1>8. r.ret
    BY <1>1, <1>2, ReadEffect, Zenon
  <1>9. r.state \in {"DATA_IN", "LAST_DATA_IN"}
    BY <1>7 DEF ReadSent, ReadState
  <1>10. QED
    BY <1>7, <1>8, <1>9

LEMMA WriteStarts ==
    ASSUME UsbMscAssumption, Conforming, NEW d, NEW q, NEW h, Fresh(d, q, h), NEW r,
           WriteStarted(r, d)
    PROVE  /\ r.ret /\ r.state \notin {"IDLE", "SEND_DATA"} /\ Geometry(r)
           /\ WriteWait(r, q, h) \/ Mute(r, q, h)
  <1> DEFINE e == Scale(d)
  <1>1. /\ d.cbw.op = "WRITE10" /\ d.cbw.dir = "out" /\ InRange(d) /\ d.cbw.xfer = e.len
        /\ r \in Dev /\ r.ret /\ r.state = "DATA_OUT" /\ r.out.st = "VALID" /\ r.out.what = "data"
        /\ SameBut(r, e, {"out", "state", "ret"})
    BY DEF WriteStarted
  <1>2. /\ e.addr = (d.cbw.blk * d.size) % Word
        /\ e.len = (d.cbw.n * d.size) % Word /\ SameBut(e, d, {"addr", "len"})
    BY ScaleEffect, Zenon DEF Fresh
  <1> HIDE DEF e
  <1>3. /\ r.status = d.status /\ r.cbw = d.cbw /\ r.csw = d.csw /\ r.size = d.size /\ r.acc = d.acc
        /\ r.nbr = d.nbr /\ r.in = d.in /\ r.addr = e.addr /\ r.len = e.len
        /\ r.put = d.put /\ r.txc = d.txc
    BY <1>1, <1>2 DEF SameBut, Fields
  <1>4. h.cmd.op = "WRITE10" /\ h.cmd.dir = "out" /\ h.cmd.xfer = (h.cmd.n * d.size) % Word
    BY <1>1, <1>2 DEF Fresh
  <1>5. Geometry(r)
    BY <1>3, GeometryKept DEF Fresh
  <1>6. CASE h.cmd.xfer > 0
    <2>1. Progress(r, h, h.cmd.op) /\ r.len > 0 /\ h.got = Len(r.acc) * BlkSize
      <3>1. /\ r.addr = (d.cbw.blk * d.size) % Word /\ r.len = (d.cbw.n * d.size) % Word
            /\ h.cmd.op # "REQUEST_SENSE"
        BY <1>2, <1>3, <1>4
      <3>2. QED
        BY <1>1, <1>3, <1>4, <1>6, <3>1, ProgressStarts
    <2>2. h.stage = "dataOut" /\ Quiet(q) /\ r.in.st = "NAK"
      BY <1>3, <1>4, <1>6 DEF Fresh, DataStage
    <2>3. WriteWait(r, q, h)
      BY <1>1, <1>4, <2>1, <2>2 DEF WriteWait
    <2>4. QED
      BY <1>1, <1>5, <2>3
  <1>7. CASE h.cmd.xfer = 0
    <2>1. h.stage = "csw" /\ Quiet(q) /\ r.in.st = "NAK" /\ h.tag > 0
      BY <1>3, <1>7 DEF Fresh, DataStage
    <2>2. Mute(r, q, h)
      BY <2>1 DEF Mute, Active
    <2>3. QED
      BY <1>1, <1>5, <2>2
  <1>8. QED
    <2>1. h.cmd.xfer \in Nat
      BY DEF Fresh, HostType, CommandType
    <2>2. QED
      BY <1>6, <1>7, <2>1

LEMMA SentStep ==
    ASSUME UsbMscAssumption, Conforming, MscType, Geometry(bot), Sent(bot, done, peer), BotNext
    PROVE  /\ Geometry(bot')
           /\ \/ Mute(bot, done, peer)' \/ Stalled(bot, done, peer)' \/ Answering(bot, done, peer)'
              \/ Status(bot, done, peer)' \/ ReadSent(bot, done, peer)' \/ WriteWait(bot, done, peer)'
  <1>1. PICK ready \in BOOLEAN, works \in BOOLEAN : Bulk_Out(ready, works)
    <2>1. peer.stage \in Active /\ peer.stage # "idle" /\ peer.stage # "recover"
      BY DEF Sent, DataStage, Active
    <2>2. QED
      BY <2>1, Guards DEF Sent, Quiet
  <1>2. /\ ~done'.out /\ done'.in = done.in /\ peer' = peer
        /\ bot' = USBD_MSC_BOT_OutData(bot, ready, works)
    BY <1>1, IsrFacts
  <1>3. bot' = USBD_MSC_BOT_DecodeCBW(bot, ready, works) /\ bot \in Dev /\ peer \in HostType
    BY <1>2 DEF USBD_MSC_BOT_OutData, Sent, MscType
  <1>4. Quiet(done') /\ peer.stage \in Active
    BY <1>2 DEF Quiet, Sent, DataStage, Active
  <1>5. CASE bot.cbw.op = "INVALID"
    <2>1. SameBut(bot', bot, {"csw", "acc", "sense", "put", "status"})
      BY <1>3, <1>5, InvalidEffect, Zenon
    <2>2. bot'.in = bot.in /\ bot'.out = bot.out /\ bot'.nbr = bot.nbr /\ bot'.size = bot.size
      BY <2>1 DEF SameBut, Fields
    <2>3. Mute(bot', done', peer)
      BY <1>4, <2>2 DEF Mute, Sent
    <2>4. Geometry(bot')
      BY <2>2, GeometryKept
    <2>5. QED
      BY <1>2, <2>3, <2>4
  <1>6. CASE bot.cbw.op # "INVALID"
    <2> DEFINE e == Prepared(bot)
               r == SCSI_CmdHandler(e, ready, works)
    <2>1. /\ e \in Dev /\ e.csw.tag = bot.tag /\ e.csw.residue = bot.cbw.xfer /\ e.acc = << >>
          /\ SameBut(e, bot, {"csw", "acc"})
      BY <1>3, PreparedEffect, Zenon
    <2>2. bot' = IF ~r.ret THEN USBD_MSC_BOT_Stall(r)
                 ELSE IF r.state \in {"IDLE", "SEND_DATA"}
                      THEN IF r.dataLen > 0 THEN USBD_MSC_BOT_TxData(r)
                           ELSE USBD_MSC_BOT_TxCSW(r, "OK")
                      ELSE r
      BY <1>3, <1>6 DEF USBD_MSC_BOT_DecodeCBW, Prepared
    <2> HIDE DEF e
    <2>3. /\ e.state = bot.state /\ e.status = bot.status /\ e.in = bot.in /\ e.out = bot.out
          /\ e.cbw = bot.cbw /\ e.nbr = bot.nbr /\ e.size = bot.size
          /\ e.sense = bot.sense /\ e.put = bot.put /\ e.txc = bot.txc
      BY <2>1 DEF SameBut, Fields
    <2>4. Fresh(e, done', peer)
      <3>1. Owed(e, peer)
        BY <2>3 DEF Sent, Owed
      <3>2. QED
        BY <1>3, <1>4, <2>1, <2>3, <3>1, GeometryKept DEF Fresh, Sent, NoErr
    <2>5. \/ Refused(r, e) \/ Served(r, e) \/ Empty(r, e) \/ ReadStarted(r, e) \/ WriteStarted(r, e)
      <3>1. e.state = "IDLE"
        BY <2>3 DEF Sent
      <3>2. QED
        BY <2>1, <3>1, HandlerAtIdle, Zenon
    <2>6. e.cbw.op = "REQUEST_SENSE" => Served(r, e)
      <3>1. e.cbw.op = "REQUEST_SENSE" => r = SCSI_RequestSense(e)
        BY DEF SCSI_CmdHandler
      <3>2. QED
        BY <2>1, <3>1, SenseServes, Zenon
    <2> HIDE DEF r
    <2>7. CASE Refused(r, e)
      <3>1. bot' = USBD_MSC_BOT_Stall(r)
        BY <2>2, <2>7 DEF Refused
      <3>2. e.cbw.op # "REQUEST_SENSE"
        BY <2>7, <2>6 DEF Refused, Served
      <3>3. Geometry(bot') /\ Stalled(bot', done', peer)
        BY <2>4, <2>7, <3>1, <3>2, RefusedStalls, Zenon
      <3>4. QED
        BY <1>2, <3>3
    <2>8. CASE Served(r, e)
      <3>1. bot' = USBD_MSC_BOT_TxData(r)
        BY <2>2, <2>4, <2>8, ServedAnswers
      <3>2. Geometry(bot') /\ Answering(bot', done', peer)
        BY <2>4, <2>8, <3>1, ServedAnswers, Zenon
      <3>3. QED
        BY <1>2, <3>2
    <2>9. CASE Empty(r, e)
      <3>1. bot' = USBD_MSC_BOT_TxCSW(r, "OK")
        BY <2>2, <2>4, <2>9, EmptyEnds
      <3>2. Geometry(bot') /\ Status(bot', done', peer)
        BY <2>4, <2>9, <3>1, EmptyEnds, Zenon
      <3>3. QED
        BY <1>2, <3>2
    <2>10. CASE ReadStarted(r, e)
      <3>1. r.ret /\ r.state \notin {"IDLE", "SEND_DATA"} /\ Geometry(r) /\ ReadSent(r, done', peer)
        BY <2>4, <2>10, ReadStarts, Zenon
      <3>2. bot' = r
        BY <2>2, <3>1
      <3>3. QED
        BY <1>2, <3>1, <3>2
    <2>11. CASE WriteStarted(r, e)
      <3>1. /\ r.ret /\ r.state \notin {"IDLE", "SEND_DATA"} /\ Geometry(r)
            /\ WriteWait(r, done', peer) \/ Mute(r, done', peer)
        BY <2>4, <2>11, WriteStarts, Zenon
      <3>2. bot' = r
        BY <2>2, <3>1
      <3>3. QED
        BY <1>2, <3>1, <3>2
    <2>12. QED
      BY <2>5, <2>7, <2>8, <2>9, <2>10, <2>11, Zenon
  <1>7. QED
    BY <1>5, <1>6, Zenon

(* The inductive invariant: the device, the flags and the host are always  *)
(* in one of the phases together.                                          *)
LEMMA PhasesHold ==
    ASSUME UsbMscAssumption, Conforming
    PROVE  BotSpec => []MscInv
  <1>1. Commands \subseteq CommandType
    BY DEF Conforming
  <1>2. BotInit => MscInv
    <2> SUFFICES ASSUME BotInit PROVE MscInv
      OBVIOUS
    <2>1. MscType
      BY InitType
    <2>2. /\ peer.stage = "idle" /\ ~done.out /\ bot.state = "IDLE" /\ bot.status = "NORMAL"
          /\ bot.in.st = "NAK" /\ bot.out.st = "VALID" /\ bot.out.what = "cbw"
          /\ ~(peer.tag > 0) /\ bot.nbr = 0 /\ bot.size = 0
          /\ peer.due = "NO_SENSE" /\ bot.put = 0 /\ bot.txc = 0
      BY DEF BotInit
    <2>3. Idle(bot, done, peer) /\ Geometry(bot)
      BY <2>2 DEF Idle, NoErr, Geometry, Owed
    <2>4. QED
      BY <2>1, <2>3 DEF MscInv, Phases
  <1>3. MscInv /\ [BotNext]_botVars => MscInv'
    <2> SUFFICES ASSUME MscInv, [BotNext]_botVars PROVE MscInv'
      OBVIOUS
    <2>1. CASE UNCHANGED botVars
      BY <2>1 DEF botVars, MscInv, MscType
    <2>2. CASE BotNext
      <3>1. MscType /\ Geometry(bot) /\ Phases(bot, done, peer)
        BY DEF MscInv
      <3>2. MscType'
        BY <1>1, <2>2, <3>1, NextType
      <3>3. Geometry(bot') /\ Phases(bot, done, peer)'
        <4> USE <2>2, <3>1
        <4>1. CASE Idle(bot, done, peer)
          BY <4>1, IdleStep, Zenon DEF Phases
        <4>2. CASE Sent(bot, done, peer)
          BY <4>2, SentStep, Zenon DEF Phases
        <4>3. CASE Mute(bot, done, peer)
          BY <4>3, MuteStep, Zenon DEF Phases
        <4>4. CASE Recovering(bot, done, peer)
          BY <4>4, RecoveringStep, Zenon DEF Phases
        <4>5. CASE Stalled(bot, done, peer)
          BY <4>5, StalledStep, Zenon DEF Phases
        <4>6. CASE Answering(bot, done, peer)
          BY <4>6, AnsweringStep, Zenon DEF Phases
        <4>7. CASE AnswerTaken(bot, done, peer)
          BY <4>7, AnswerTakenStep, Zenon DEF Phases
        <4>8. CASE ReadSent(bot, done, peer)
          BY <4>8, ReadSentStep, Zenon DEF Phases
        <4>9. CASE ReadTaken(bot, done, peer)
          BY <4>9, ReadTakenStep, Zenon DEF Phases
        <4>10. CASE CswAsData(bot, done, peer)
          BY <4>10, CswAsDataStep, Zenon DEF Phases
        <4>11. CASE Drained(bot, done, peer)
          BY <4>11, DrainedStep, Zenon DEF Phases
        <4>12. CASE WriteWait(bot, done, peer)
          BY <4>12, WriteWaitStep, Zenon DEF Phases
        <4>13. CASE WriteGot(bot, done, peer)
          BY <4>13, WriteGotStep, Zenon DEF Phases
        <4>14. CASE Status(bot, done, peer)
          BY <4>14, StatusStep, Zenon DEF Phases
        <4>15. QED
          BY <4>1, <4>2, <4>3, <4>4, <4>5, <4>6, <4>7, <4>8, <4>9, <4>10, <4>11, <4>12, <4>13,
             <4>14, Zenon DEF Phases
      <3>4. QED
        BY <3>2, <3>3 DEF MscInv
    <2>3. QED
      BY <2>1, <2>2
  <1>4. QED
    BY <1>2, <1>3, PTL DEF BotSpec

(* In every phase but the first the host waits for its command. *)
LEMMA OnlyIdle ==
    ASSUME MscInv, peer.stage = "idle"
    PROVE  Idle(bot, done, peer)
  BY DEF MscInv, Phases, Sent, DataStage, Mute, Active, Recovering, Stalled, Answering, AnswerTaken,
         ReadSent, ReadTaken, CswAsData, Drained, WriteWait, WriteGot, Status

(* The status wrapper the host gets for a command is true, whatever was    *)
(* refused, failed or was reset before it: the residue is what did not     *)
(* reach the host (a read, an answer) or the medium (a write), and an OK   *)
(* means that SCSI_Read or SCSI_Write asked the storage for exactly the    *)
(* blocks of the command, in order, over all its packets, with the byte    *)
(* address and length kept in 32 bits.                                     *)
THEOREM StatusTrue ==
    ASSUME UsbMscAssumption, Conforming
    PROVE  BotSpec => []CswTrue
  <1>1. MscInv => CswTrue
    <2> SUFFICES ASSUME MscInv, Answered PROVE Truthful(peer.csw, bot, peer)
      BY DEF CswTrue, Truthful, Moved, MovedBy, Asked, Run, BlockOps
    <2>1. peer.stage = "idle" /\ peer.csw.tag = peer.tag /\ peer.tag > 0
      BY DEF Answered
    <2>2. QED
      BY <2>1, OnlyIdle DEF Idle
  <1>2. QED
    BY <1>1, PhasesHold, PTL

(* Between two commands, once the interrupts are handled, the device waits *)
(* for a command wrapper: also after one that was refused, or invalid, or  *)
(* ended by a reset of the transport (USBD_MSC_BOT_Reset) in any phase.    *)
THEOREM ReadyAfterAnswer ==
    ASSUME UsbMscAssumption, Conforming
    PROVE  BotSpec => []ReadyForNext
  <1>1. MscInv => ReadyForNext
    BY OnlyIdle DEF ReadyForNext, Idle
  <1>2. QED
    BY <1>1, PhasesHold, PTL

(* A REQUEST_SENSE that ends well has told the host of its last failure:   *)
(* over refusals, failures of the storage and commands without end, the    *)
(* ring of four codes that SCSI_PutSenseCode fills and SCSI_RequestSense   *)
(* empties holds that code and no other (until a reset of the transport,   *)
(* after which the host cannot know which failure was the last).           *)
THEOREM SenseReported ==
    ASSUME UsbMscAssumption, Conforming
    PROVE  BotSpec => SenseCurrent
  <1>1. MscInv /\ [BotNext]_botVars => [SenseTold]_botVars
    <2> SUFFICES ASSUME MscInv, BotNext, peer.stage = "csw", peer'.stage = "idle",
                        peer.cmd.op = "REQUEST_SENSE", peer'.csw.status = "OK",
                        bot.status = "NORMAL"
                 PROVE  peer.body = <<peer.due>>
      BY DEF SenseTold
    <2>1. MscType /\ AppClears /\ peer' # peer
      BY DEF MscInv, Conforming
    <2>2. Host_TakeCSW
      <3>1. ~(\E ready, works \in BOOLEAN : Bulk_Out(ready, works) \/ Bulk_In(ready, works))
        BY <2>1, IsrFacts
      <3>2. ~Host_ClearHalt /\ ~Host_Timeout
        BY <2>1, ClearHaltFacts, TimeoutFacts
      <3>3. QED
        BY <3>1, <3>2, Guards
    <2>3. bot.in.st = "VALID" /\ bot.in.what = "csw" /\ bot.in.body.tag = peer.tag
      BY <2>1, <2>2 DEF Host_TakeCSW, MscType, HostType
    <2>4. peer'.csw = bot.in.body
      BY <2>1, <2>2, <2>3, TakeFacts
    <2>5. Status(bot, done, peer)
      BY <2>3 DEF MscInv, Phases, Idle, Sent, DataStage, Mute, Recovering, Stalled, Answering,
                  AnswerTaken, ReadSent, ReadTaken, CswAsData, Drained, WriteWait, WriteGot
    <2>6. QED
      BY <2>4, <2>5 DEF Status, Codes, Told
  <1>2. QED
    BY <1>1, PhasesHold, PTL DEF BotSpec, SenseCurrent
=============================================================================
