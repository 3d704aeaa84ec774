-------------------------- MODULE UsbControlProofs --------------------------
(***************************************************************************)
(* Proofs about UsbControl, for every size of packet, every set of proper  *)
(* requests, every class handler and any number of transfers given up and  *)
(* resets of the bus: the device answers to the address the host uses, and *)
(* a transfer that ended well has carried exactly its own bytes.           *)
(*                                                                         *)
(* The handler leaves most of an abandoned transfer in g_usbDev.  What the *)
(* proof needs is that none of it is looked at before the next SETUP has   *)
(* replaced it: an endpoint that is VALID, or a packet that waits for the  *)
(* handler, belongs to the request the host is making.                     *)
(***************************************************************************)
EXTENDS UsbControl, TLAPS

Reqs == Requests \cup {NoRequest}
Ids == {Id(r) : r \in Reqs}
Statuses == {"NAK", "VALID", "STALL", "DIS"}
Stages == {"idle", "dataIn", "dataOut", "statusIn", "statusOut", "done", "stalled"}

Dev == [ctrlState : {"WAIT_SETUP", "DATA_IN", "DATA_OUT", "WAIT_STATUS_IN", "WAIT_STATUS_OUT"},
        req : Reqs, pma : Reqs, classReqHandler : ClassHandlers, pBuf : [id : Ids, off : Nat], bufLen : Nat, packNum : Nat,
        zeroPackFill : BOOLEAN, outLen : Nat, outPack : Nat, outGot : Nat,
        tx : Statuses, rx : Statuses, pkt : [id : Ids, off : Nat, len : Nat], addr : Nat]

(* The type of the state, with its records. *)
ControlType ==
    /\ dev \in Dev
    /\ irq \in [tx : BOOLEAN, rx : BOOLEAN, setup : BOOLEAN, rst : BOOLEAN]
    /\ host \in [stage : Stages, req : Reqs, got : Nat, bad : BOOLEAN, addr : Nat]
    /\ budget \in [aborts : Nat, resets : Nat]

(* At most one packet is offered, asked for or waiting for the handler,    *)
(* and it is of the kind the host's stage calls for.                       *)
FlowInv ==
    /\ dev.tx = "VALID" => dev.rx # "VALID" /\ ~irq.rx /\ ~irq.tx
    /\ dev.rx = "VALID" => ~irq.rx /\ ~irq.tx
    /\ irq.tx => ~irq.rx /\ host.stage \notin {"dataOut", "statusIn"}
    /\ irq.setup => irq.rx
    /\ irq.rx /\ ~irq.setup => host.stage \notin {"dataIn", "statusOut"}
    /\ irq.rst => ~Active /\ host.stage # "done" /\ host.addr = 0

(* The request under way is the host's. *)
ReqInv ==
    /\ Active /\ irq.setup => dev.pma = host.req
    /\ Active /\ ~irq.setup => dev.req = host.req
    /\ host.stage \in {"dataIn", "statusOut"} => ToHost(host.req)
    /\ host.stage = "dataIn" => host.req.wLength > 0
    /\ host.stage = "dataOut" => ~ToHost(host.req)
    /\ host.stage = "statusIn" /\ (ToHost(host.req) \/ irq.setup) => host.req.wLength = 0
    /\ host.stage = "done" /\ ~ToHost(host.req) => ~irq.rx

(* The address: between the status stage of SET_ADDRESS and its handling   *)
(* the host is ahead, by the value in the request.                         *)
AddrInv ==
    /\ (dev.tx = "VALID" \/ irq.tx) /\ dev.req.bRequest = "SET_ADDRESS"
          => dev.ctrlState = "WAIT_STATUS_IN"
    /\ ~irq.rst /\ ~irq.tx => dev.addr = host.addr
    /\ ~irq.rst /\ irq.tx /\ dev.req.bRequest = "SET_ADDRESS" => host.addr = dev.req.size
    /\ ~irq.rst /\ irq.tx /\ dev.req.bRequest # "SET_ADDRESS" => host.addr = dev.addr

ControlInv == ControlType /\ FlowInv /\ ReqInv /\ AddrInv

-----------------------------------------------------------------------------
Total(r) == Min(r.wLength, r.size)

(* A device that goes on with an answer of which the host has got n bytes. *)
Rest(n) ==
    /\ dev.ctrlState = "DATA_IN"
    /\ dev.pBuf = [id |-> Id(dev.req), off |-> n] /\ dev.bufLen = Total(dev.req) - n
    /\ dev.packNum = Packets(dev.bufLen)
    /\ Total(dev.req) % MPS = 0 /\ Total(dev.req) < dev.req.wLength => dev.zeroPackFill

(* The host reads an answer. *)
InInv ==
    host.stage = "dataIn" =>
        /\ ~host.bad /\ host.got <= Total(host.req) /\ host.got % MPS = 0
        /\ irq.setup => host.got = 0
        /\ irq.tx => Rest(host.got) /\ host.got < host.req.wLength
        /\ dev.tx = "VALID" =>
              /\ dev.ctrlState = "DATA_IN"
              /\ dev.pkt.len = Min(MPS, Total(host.req) - host.got)
              /\ dev.pkt.len > 0 => dev.pkt.id = Id(host.req) /\ dev.pkt.off = host.got
              /\ dev.pkt.len = MPS => Rest(host.got + MPS)

(* The host writes data. *)
Writing == ~ToHost(host.req) /\ ~irq.setup
OutInv ==
    /\ host.stage = "dataOut" => ~host.bad /\ host.got < host.req.wLength
    /\ irq.setup /\ Active => host.got = 0
    /\ Writing /\ host.stage = "dataOut" /\ dev.rx = "VALID" =>
          /\ dev.ctrlState = "DATA_OUT" /\ dev.outPack = Packets(dev.outLen)
          /\ dev.outGot = host.got /\ dev.outGot + dev.outLen = host.req.wLength
    /\ Writing /\ host.stage \in {"dataOut", "statusIn"} /\ irq.rx =>
          /\ dev.ctrlState = "DATA_OUT" /\ dev.outPack = Packets(dev.outLen)
          /\ dev.outLen > 0 /\ dev.outGot + dev.outLen = host.req.wLength
          /\ host.got = dev.outGot + Min(dev.outLen, MPS)
          /\ host.stage = "statusIn" <=> host.got = host.req.wLength

(* The end of a transfer. *)
EndInv ==
    /\ host.stage = "statusOut" => ~host.bad /\ host.got = Total(host.req)
    /\ host.stage = "statusIn" =>
          /\ ~host.bad /\ (ToHost(host.req) => host.got = 0)
          /\ dev.tx = "VALID" =>
                /\ dev.pkt.len = 0
                /\ ~ToHost(host.req) => dev.outGot = host.req.wLength
    /\ DataExact

TransferInv == InInv /\ OutInv /\ EndInv

-----------------------------------------------------------------------------
(* The constants. *)
LEMMA ReqFacts ==
    /\ MPS \in Nat /\ MPS > 0 /\ NoRequest \in Reqs /\ NoId \in Ids
    /\ NoRequest.wLength = 0 /\ NoRequest.size = 0 /\ NoRequest.type = "none"
    /\ \A r \in Reqs : r.wLength \in Nat /\ r.size \in Nat /\ Id(r) \in Ids
  <1>1. MPS \in Nat /\ MPS > 0 /\ NoRequest \in Reqs
    BY UsbControlAssumption DEF Reqs
  <1>2. NoRequest.wLength = 0 /\ NoRequest.size = 0 /\ NoRequest.type = "none"
    BY DEF NoRequest
  <1>3. \A r \in Reqs : r.wLength \in Nat /\ r.size \in Nat
    BY <1>2, UsbControlAssumption DEF Reqs
  <1>4. \A r \in Reqs : Id(r) \in Ids
    BY DEF Ids
  <1>5. QED
    BY <1>1, <1>2, <1>3, <1>4 DEF NoId

(* Whole packets, without a division. *)
LEMMA QuotientFacts ==
    ASSUME NEW n \in Nat
    PROVE  /\ n \div MPS \in Nat /\ n % MPS \in Nat /\ n % MPS < MPS
           /\ n = MPS * (n \div MPS) + (n % MPS)
  <1>1. MPS \in Nat /\ MPS > 0
    BY ReqFacts
  <1>2. n \div MPS \in Int /\ n % MPS \in 0..(MPS - 1)
    BY <1>1
  <1>3. n = MPS * (n \div MPS) + (n % MPS)
    BY <1>1
  <1>4. n \div MPS >= 0
    BY <1>1
  <1>5. QED
    BY <1>1, <1>2, <1>3, <1>4

LEMMA QuotientUnique ==
    ASSUME NEW k \in Nat, NEW q \in Nat, NEW b \in Nat, b < k
    PROVE  (k * q + b) \div k = q /\ (k * q + b) % k = b
  OBVIOUS

LEMMA PacketsFacts ==
    ASSUME NEW n \in Nat
    PROVE  /\ Packets(n) \in Nat /\ Packets(0) = 0
           /\ 0 < n /\ n <= MPS => Packets(n) = 1
           /\ n > MPS => Packets(n) = Packets(n - MPS) + 1 /\ Packets(n) > 1
  BY ReqFacts, QuotientFacts, QuotientUnique DEF Packets

LEMMA FullFacts ==
    ASSUME NEW n \in Nat
    PROVE  /\ 0 % MPS = 0 /\ (n + MPS) % MPS = n % MPS
           /\ n < MPS => n % MPS = n
  <1>1. MPS \in Nat /\ MPS > 0
    BY ReqFacts
  <1>2. 0 % MPS = 0 /\ (n < MPS => n % MPS = n)
    BY <1>1
  <1>3. (n + MPS) % MPS = n % MPS
    <2> DEFINE q == n \div MPS
               b == n % MPS
    <2>1. q \in Nat /\ b \in Nat /\ b < MPS /\ n = MPS * q + b
      BY QuotientFacts
    <2>2. n + MPS = MPS * (q + 1) + b
      BY <1>1, <2>1
    <2> HIDE DEF q, b
    <2>3. q + 1 \in Nat
      BY <2>1
    <2>4. (MPS * (q + 1) + b) % MPS = b
      BY <1>1, <2>1, <2>3, QuotientUnique
    <2>5. QED
      BY <2>2, <2>4 DEF b
  <1>4. QED
    BY <1>2, <1>3

-----------------------------------------------------------------------------
(* What the functions of the library do to the device. *)
LEMMA NakFacts ==
    ASSUME NEW d \in Dev
    PROVE  /\ Nak(d) \in Dev /\ Nak(d).tx = "NAK" /\ Nak(d).rx = "NAK"
           /\ Nak(d).ctrlState = d.ctrlState /\ Nak(d).req = d.req /\ Nak(d).pma = d.pma
           /\ Nak(d).pBuf = d.pBuf /\ Nak(d).bufLen = d.bufLen /\ Nak(d).packNum = d.packNum
           /\ Nak(d).zeroPackFill = d.zeroPackFill /\ Nak(d).outLen = d.outLen
           /\ Nak(d).outPack = d.outPack /\ Nak(d).outGot = d.outGot
           /\ Nak(d).pkt = d.pkt /\ Nak(d).addr = d.addr
  BY DEF Nak, Dev, Statuses

LEMMA LoadFacts ==
    ASSUME NEW d \in Dev, NEW id \in Ids, NEW off \in Nat, NEW len \in Nat
    PROVE  LET e == Load(d, id, off, len)
           IN  /\ e \in Dev /\ e.tx = "VALID" /\ e.rx = d.rx
               /\ e.pkt = [id |-> id, off |-> off, len |-> len]
               /\ e.ctrlState = d.ctrlState /\ e.req = d.req /\ e.pma = d.pma
               /\ e.pBuf = d.pBuf /\ e.bufLen = d.bufLen /\ e.packNum = d.packNum
               /\ e.zeroPackFill = d.zeroPackFill /\ e.outLen = d.outLen
               /\ e.outPack = d.outPack /\ e.outGot = d.outGot /\ e.addr = d.addr
  BY DEF Load, Dev, Statuses

(* The first packet of an answer of len bytes. *)
LEMMA InDataFacts ==
    ASSUME NEW d \in Dev, NEW len \in Nat
    PROVE  LET e == USBD_CtrlInData(d, len)
           IN  /\ e \in Dev /\ e.tx = "VALID" /\ e.rx = d.rx /\ e.req = d.req
               /\ e.pma = d.pma /\ e.addr = d.addr /\ e.outGot = d.outGot
               /\ ToHost(d.req) => e.ctrlState = "DATA_IN"
               /\ ~ToHost(d.req) /\ len = 0 => e.ctrlState = "WAIT_STATUS_IN"
               /\ e.pkt.len = Min(MPS, len)
               /\ len > 0 => e.pkt.id = Id(d.req) /\ e.pkt.off = 0
               /\ len >= MPS =>
                     /\ e.bufLen = len - MPS /\ e.pBuf = [id |-> Id(d.req), off |-> MPS]
                     /\ e.packNum = Packets(len - MPS)
                     /\ len % MPS = 0 /\ len < d.req.wLength => e.zeroPackFill
  <1> DEFINE e == USBD_CtrlInData(d, len)
             id == IF len = 0 THEN NoId ELSE Id(d.req)
             zero == IF len > 0 /\ len < d.req.wLength /\ len % MPS = 0
                     THEN TRUE ELSE d.zeroPackFill
             next == IF ToHost(d.req) THEN "DATA_IN" ELSE "WAIT_STATUS_IN"
  <1>1. d.req \in Reqs /\ d.zeroPackFill \in BOOLEAN
    BY DEF Dev
  <1>2. id \in Ids /\ MPS \in Nat /\ MPS > 0 /\ (len > 0 => id = Id(d.req))
    BY <1>1, ReqFacts
  <1>3. zero \in BOOLEAN
    BY <1>1
  <1>4. len > 0 /\ len % MPS = 0 /\ len < d.req.wLength => zero
    OBVIOUS
  <1>5. CASE len >= MPS
    <2> DEFINE l == Load(d, id, 0, MPS)
    <2>1. e = [l EXCEPT !.bufLen = len - MPS, !.pBuf = [id |-> id, off |-> MPS],
                        !.packNum = Packets(len - MPS), !.zeroPackFill = zero,
                        !.ctrlState = "DATA_IN"]
      BY <1>5 DEF USBD_CtrlInData
    <2>2. /\ l \in Dev /\ l.tx = "VALID" /\ l.rx = d.rx /\ l.req = d.req
          /\ l.pma = d.pma /\ l.addr = d.addr /\ l.outGot = d.outGot
          /\ l.pkt = [id |-> id, off |-> 0, len |-> MPS]
      BY <1>2, LoadFacts
    <2>3. len - MPS \in Nat /\ Packets(len - MPS) \in Nat /\ [id |-> id, off |-> MPS] \in [id : Ids, off : Nat]
      BY <1>2, <1>5, PacketsFacts
    <2>4. Min(MPS, len) = MPS /\ len > 0
      BY <1>2, <1>5 DEF Min
    <2> HIDE DEF l, id, zero, e
    <2>5. e \in Dev
      BY <1>3, <2>1, <2>2, <2>3 DEF Dev
    <2>6. /\ e.tx = l.tx /\ e.rx = l.rx /\ e.req = l.req /\ e.pma = l.pma /\ e.addr = l.addr
          /\ e.outGot = l.outGot /\ e.ctrlState = "DATA_IN" /\ e.pkt = l.pkt
          /\ e.bufLen = len - MPS /\ e.pBuf = [id |-> id, off |-> MPS]
          /\ e.packNum = Packets(len - MPS) /\ e.zeroPackFill = zero
      BY <2>1, <2>2 DEF Dev
    <2>7. QED
      BY <1>2, <1>4, <2>2, <2>4, <2>5, <2>6 DEF e
  <1>6. CASE ~(len >= MPS)
    <2> DEFINE l == Load(d, id, 0, len)
    <2>1. e = [l EXCEPT !.zeroPackFill = zero, !.ctrlState = next]
      BY <1>6 DEF USBD_CtrlInData
    <2>2. /\ l \in Dev /\ l.tx = "VALID" /\ l.rx = d.rx /\ l.req = d.req
          /\ l.pma = d.pma /\ l.addr = d.addr /\ l.outGot = d.outGot
          /\ l.pkt = [id |-> id, off |-> 0, len |-> len]
      BY <1>2, LoadFacts
    <2>3. next \in {"DATA_IN", "WAIT_STATUS_IN"} /\ (ToHost(d.req) => next = "DATA_IN")
          /\ (~ToHost(d.req) => next = "WAIT_STATUS_IN")
      OBVIOUS
    <2>4. Min(MPS, len) = len
      BY <1>2, <1>6 DEF Min
    <2> HIDE DEF l, id, zero, e, next
    <2>5. e \in Dev
      BY <1>3, <2>1, <2>2, <2>3 DEF Dev
    <2>6. /\ e.tx = l.tx /\ e.rx = l.rx /\ e.req = l.req /\ e.pma = l.pma /\ e.addr = l.addr
          /\ e.outGot = l.outGot /\ e.ctrlState = next /\ e.pkt = l.pkt
      BY <2>1, <2>2 DEF Dev
    <2>7. QED
      BY <1>2, <1>6, <2>2, <2>3, <2>4, <2>5, <2>6 DEF e
  <1>7. QED
    BY <1>5, <1>6

(* The device asks for data. *)
LEMMA OutDataFacts ==
    ASSUME NEW d \in Dev, NEW len \in Nat
    PROVE  LET e == USBD_CtrlOutData(d, len)
           IN  /\ e \in Dev /\ e.rx = "VALID" /\ e.tx = d.tx /\ e.req = d.req
               /\ e.pma = d.pma /\ e.addr = d.addr /\ e.outGot = d.outGot
               /\ len > 0 => /\ e.outLen = len /\ e.outPack = Packets(len)
                             /\ e.ctrlState = "DATA_OUT"
  <1>1. Packets(len) \in Nat
    BY PacketsFacts
  <1>2. QED
    BY <1>1 DEF USBD_CtrlOutData, Dev, Statuses

(* A further packet of an answer. *)
LEMMA SendMoreFacts ==
    ASSUME NEW d \in Dev, d.packNum > 0
    PROVE  LET e == SendMore(d)
               n == Min(d.bufLen, MPS)
           IN  /\ e \in Dev /\ e.tx = "VALID" /\ e.rx = d.rx /\ e.req = d.req
               /\ e.pma = d.pma /\ e.addr = d.addr /\ e.outGot = d.outGot
               /\ e.ctrlState = d.ctrlState /\ e.zeroPackFill = d.zeroPackFill
               /\ e.pkt = [id |-> d.pBuf.id, off |-> d.pBuf.off, len |-> n]
               /\ e.pBuf = [id |-> d.pBuf.id, off |-> d.pBuf.off + n]
               /\ e.bufLen = d.bufLen - n /\ e.packNum = d.packNum - 1
  <1> DEFINE n == Min(d.bufLen, MPS)
             l == Load(d, d.pBuf.id, d.pBuf.off, n)
             e == SendMore(d)
  <1>1. d.bufLen \in Nat /\ d.packNum \in Nat /\ d.pBuf \in [id : Ids, off : Nat]
        /\ d.pBuf.id \in Ids /\ d.pBuf.off \in Nat
    BY DEF Dev
  <1>2. n \in Nat /\ d.bufLen - n \in Nat /\ d.packNum - 1 \in Nat
    BY <1>1, ReqFacts DEF Min
  <1>3. /\ l \in Dev /\ l.tx = "VALID" /\ l.rx = d.rx /\ l.req = d.req
        /\ l.pma = d.pma /\ l.addr = d.addr /\ l.outGot = d.outGot
        /\ l.ctrlState = d.ctrlState /\ l.zeroPackFill = d.zeroPackFill
        /\ l.pBuf = d.pBuf /\ l.bufLen = d.bufLen /\ l.packNum = d.packNum
        /\ l.pkt = [id |-> d.pBuf.id, off |-> d.pBuf.off, len |-> n]
    BY <1>1, <1>2, LoadFacts
  <1>4. e = [l EXCEPT !.pBuf.off = @ + n, !.bufLen = @ - n, !.packNum = @ - 1]
    BY DEF SendMore
  <1> HIDE DEF n, l, e
  <1>5. /\ e.tx = l.tx /\ e.rx = l.rx /\ e.req = l.req /\ e.pma = l.pma /\ e.addr = l.addr
        /\ e.outGot = l.outGot /\ e.ctrlState = l.ctrlState /\ e.zeroPackFill = l.zeroPackFill
        /\ e.pkt = l.pkt /\ e.pBuf = [l.pBuf EXCEPT !.off = @ + n]
        /\ e.bufLen = l.bufLen - n /\ e.packNum = l.packNum - 1
    BY <1>3, <1>4 DEF Dev
  <1>6. [d.pBuf EXCEPT !.off = @ + n] = [id |-> d.pBuf.id, off |-> d.pBuf.off + n]
    BY <1>1
  <1>7. [id |-> d.pBuf.id, off |-> d.pBuf.off + n] \in [id : Ids, off : Nat]
    BY <1>1, <1>2
  <1>8. e \in Dev
    BY <1>2, <1>3, <1>4, <1>6, <1>7 DEF Dev
  <1>9. QED
    BY <1>3, <1>5, <1>6, <1>8 DEF e, n

(* A request is answered, asks for data, or gets neither. *)
Taken(d) == [Nak(d) EXCEPT !.req = d.pma, !.outGot = 0]

LEMMA TakenFacts ==
    ASSUME NEW d \in Dev
    PROVE  /\ Taken(d) \in Dev /\ Taken(d).tx = "NAK" /\ Taken(d).rx = "NAK"
           /\ Taken(d).req = d.pma /\ Taken(d).pma = d.pma /\ Taken(d).outGot = 0
           /\ Taken(d).addr = d.addr
  <1>1. d.pma \in Reqs
    BY DEF Dev
  <1>2. /\ Nak(d) \in Dev /\ Nak(d).tx = "NAK" /\ Nak(d).rx = "NAK"
        /\ Nak(d).pma = d.pma /\ Nak(d).addr = d.addr
    BY NakFacts
  <1>3. Taken(d) \in Dev
    BY <1>1, <1>2 DEF Taken, Dev
  <1>4. /\ Taken(d).tx = Nak(d).tx /\ Taken(d).rx = Nak(d).rx /\ Taken(d).req = d.pma
        /\ Taken(d).pma = Nak(d).pma /\ Taken(d).outGot = 0 /\ Taken(d).addr = Nak(d).addr
    BY <1>2 DEF Taken, Dev
  <1>5. QED
    BY <1>2, <1>3, <1>4, Zenon

(* The requests a host makes, and what the device makes of them. *)
LEMMA ProperFacts ==
    ASSUME ProperRequests, NEW r \in Reqs
    PROVE  /\ r.bRequest = "SET_ADDRESS" => ~ToHost(r)
           /\ SetsAddress(r) <=> r.bRequest = "SET_ADDRESS"
           /\ r # NoRequest => ProperRequest(r)
  <1>1. CASE r = NoRequest
    BY <1>1 DEF NoRequest, SetsAddress
  <1>2. CASE r \in Requests
    BY <1>2 DEF ProperRequests, ProperRequest, SetsAddress
  <1>3. QED
    BY <1>1, <1>2 DEF Reqs

(* An answer of len bytes is the whole answer of a proper request. *)
WholeAnswer(r, len) == (~ToHost(r) => len = 0) /\ (ToHost(r) => len = Total(r))

LEMMA SetupFacts ==
    ASSUME NEW d \in Dev
    PROVE  LET e == USBD_SetupProcess(Nak(d))
               r == d.pma
           IN  /\ e \in Dev /\ e.req = r /\ e.pma = r /\ e.addr = d.addr
               /\ \/ e.tx # "VALID" /\ e.rx # "VALID"
                  \/ \E len \in Nat :
                        /\ e = USBD_CtrlInData(Taken(d), len)
                        /\ ProperRequests => WholeAnswer(r, len)
                  \/ e = USBD_CtrlOutData(Taken(d), r.wLength)
  <1> DEFINE e == USBD_SetupProcess(Nak(d))
             r == d.pma
             t == Taken(d)
  <1>1. /\ t \in Dev /\ t.tx = "NAK" /\ t.rx = "NAK" /\ t.req = r /\ t.pma = r
        /\ t.outGot = 0 /\ t.addr = d.addr
    BY TakenFacts
  <1>2. r \in Reqs /\ r.wLength \in Nat /\ r.size \in Nat /\ Total(r) \in Nat
    BY ReqFacts DEF Dev, Total, Min
  <1>3. e = CASE r.type = "standard" -> USBD_StandardReqeust(t)
              [] r.type = "class" -> classReqHandler(t)
              [] r.type = "vendor" -> t
              [] OTHER -> Stall(t)
    BY <1>1, NakFacts DEF USBD_SetupProcess, Taken
  <1>4. \/ e = t
        \/ e = Stall(t)
        \/ e = USBD_CtrlInData(t, Total(r)) /\ r.bRequest = "GET_DESCRIPTOR"
        \/ e = USBD_CtrlInData(t, r.size) /\ r.bRequest \in {"GET_CONFIGURATION", "GET_STATUS"}
        \/ e = USBD_CtrlInData(t, 1) /\ r.bRequest \in HidGet \cup {"GET_MAX_LUN"}
        \/ e = USBD_CtrlInData(t, r.wLength) /\ r.bRequest = "0x21"
        \/ e = USBD_CtrlInData(t, 0)
              /\ (r.bRequest \in {"SET_ADDRESS", "SET_CONFIGURATION"} \cup HidSet \/ ~ToHost(r))
        \/ e = USBD_CtrlOutData(t, r.wLength)
    <2> HIDE DEF t, e
    <2>1. CASE r.type = "class"
      <3>1. e = CASE t.classReqHandler = "CDC" -> CDC_ClassHandler(t)
                  [] t.classReqHandler = "HID" -> HID_ClassHandler(t)
                  [] t.classReqHandler = "MSC" -> USBD_MSC_ClassHandler(t)
                  [] OTHER -> t
        BY <1>3, <2>1 DEF classReqHandler
      <3>2. CASE t.classReqHandler = "CDC"
        BY <1>1, <1>2, <3>1, <3>2 DEF CDC_ClassHandler
      <3>3. CASE t.classReqHandler = "HID"
        BY <1>1, <3>1, <3>3 DEF HID_ClassHandler
      <3>4. CASE t.classReqHandler = "MSC"
        BY <1>1, <3>1, <3>4 DEF USBD_MSC_ClassHandler
      <3>5. QED
        BY <3>1, <3>2, <3>3, <3>4
    <2>2. CASE r.type = "standard"
      BY <1>1, <1>3, <2>2 DEF USBD_StandardReqeust, USBD_StandardGetDescriptor,
         USBD_StandardGetConfiguration, USBD_StandardGetStatus, USBD_StandardSetAddress,
         USBD_StandardSetConfiguration, USBD_StandardSetFeature, Total
    <2>3. QED
      BY <1>3, <2>1, <2>2
  <1> HIDE DEF t, e
  <1>5. CASE e = t
    BY <1>1, <1>5 DEF e
  <1>6. CASE e = Stall(t)
    <2>1. /\ e \in Dev /\ e.tx = "STALL" /\ e.rx = "STALL" /\ e.req = t.req /\ e.pma = t.pma
          /\ e.addr = t.addr
      BY <1>1, <1>6 DEF Stall, Dev, Statuses
    <2>2. QED
      BY <1>1, <2>1 DEF e
  <1>7. CASE \E len \in Nat : /\ e = USBD_CtrlInData(t, len)
                              /\ ProperRequests => WholeAnswer(r, len)
    <2>1. PICK len \in Nat : /\ e = USBD_CtrlInData(t, len)
                             /\ ProperRequests => WholeAnswer(r, len)
      BY <1>7
    <2>2. e \in Dev /\ e.req = t.req /\ e.pma = t.pma /\ e.addr = t.addr
      BY <1>1, <2>1, InDataFacts
    <2>3. QED
      BY <1>1, <1>7, <2>2 DEF e, t
  <1>8. CASE e = USBD_CtrlOutData(t, r.wLength)
    <2>1. e \in Dev /\ e.req = t.req /\ e.pma = t.pma /\ e.addr = t.addr
      BY <1>1, <1>2, <1>8, OutDataFacts
    <2>2. QED
      BY <1>1, <1>8, <2>1 DEF e, t
  <1>9. ProperRequests /\ r.bRequest # "none" => ProperRequest(r)
    BY <1>2, ProperFacts DEF NoRequest
  <1>10. CASE e = USBD_CtrlInData(t, Total(r)) /\ r.bRequest = "GET_DESCRIPTOR"
    <2>1. ProperRequests => WholeAnswer(r, Total(r))
      BY <1>9, <1>10 DEF ProperRequest, WholeAnswer
    <2>2. QED
      BY <1>2, <1>7, <1>10, <2>1
  <1>11. CASE e = USBD_CtrlInData(t, r.size)
                /\ r.bRequest \in {"GET_CONFIGURATION", "GET_STATUS"}
    <2>1. ProperRequests => WholeAnswer(r, r.size)
      BY <1>2, <1>9, <1>11 DEF ProperRequest, WholeAnswer, Total, Min
    <2>2. QED
      BY <1>2, <1>7, <1>11, <2>1
  <1>12. CASE e = USBD_CtrlInData(t, 1) /\ r.bRequest \in HidGet \cup {"GET_MAX_LUN"}
    <2>1. ProperRequests => WholeAnswer(r, 1)
      BY <1>2, <1>9, <1>12 DEF ProperRequest, WholeAnswer, Total, Min, HidGet
    <2>2. QED
      BY <1>7, <1>12, <2>1
  <1>13. CASE e = USBD_CtrlInData(t, r.wLength) /\ r.bRequest = "0x21"
    <2>1. ProperRequests => WholeAnswer(r, r.wLength)
      BY <1>2, <1>9, <1>13 DEF ProperRequest, WholeAnswer, Total, Min
    <2>2. QED
      BY <1>2, <1>7, <1>13, <2>1
  <1>14. CASE e = USBD_CtrlInData(t, 0)
                /\ (r.bRequest \in {"SET_ADDRESS", "SET_CONFIGURATION"} \cup HidSet \/ ~ToHost(r))
    <2>1. ProperRequests => WholeAnswer(r, 0)
      BY <1>9, <1>14 DEF ProperRequest, WholeAnswer, HidSet
    <2>2. QED
      BY <1>7, <1>14, <2>1
  <1>15. QED
    BY <1>4, <1>5, <1>6, <1>8, <1>10, <1>11, <1>12, <1>13, <1>14

(* USBD_CtrlInProcess and USBD_CtrlOutProcess. *)
LEMMA InProcessFacts ==
    ASSUME NEW d \in Dev
    PROVE  LET e == USBD_CtrlInProcess(Nak(d))
           IN  /\ e \in Dev /\ e.req = d.req /\ e.pma = d.pma /\ e.outGot = d.outGot
               /\ ~(e.tx = "VALID" /\ e.rx = "VALID")
               /\ e.tx = "VALID" => e.ctrlState = "DATA_IN" /\ d.ctrlState = "DATA_IN"
               /\ d.ctrlState = "WAIT_STATUS_IN" /\ d.req.bRequest = "SET_ADDRESS"
                     => e.addr = d.req.size
               /\ ~(d.ctrlState = "WAIT_STATUS_IN" /\ d.req.bRequest = "SET_ADDRESS")
                     => e.addr = d.addr
               /\ d.ctrlState = "DATA_IN" /\ d.packNum > 0 => e = SendMore(Nak(d))
               /\ d.ctrlState = "DATA_IN" /\ d.packNum = 0 /\ d.zeroPackFill =>
                     e.tx = "VALID" /\ e.pkt.len = 0
  <1> DEFINE n == Nak(d)
             e == USBD_CtrlInProcess(n)
  <1>1. /\ n \in Dev /\ n.tx = "NAK" /\ n.rx = "NAK" /\ n.ctrlState = d.ctrlState
        /\ n.req = d.req /\ n.pma = d.pma /\ n.packNum = d.packNum /\ n.outGot = d.outGot
        /\ n.zeroPackFill = d.zeroPackFill /\ n.addr = d.addr
        /\ d.req \in Reqs /\ d.req.size \in Nat
    BY NakFacts, ReqFacts DEF Dev
  <1>2. d.packNum \in Nat /\ d.zeroPackFill \in BOOLEAN
    BY DEF Dev
  <1> HIDE DEF n, e
  <1>3. CASE d.ctrlState = "DATA_IN" /\ d.packNum > 0
    <2>1. e = SendMore(n)
      BY <1>1, <1>3 DEF e, USBD_CtrlInProcess
    <2>2. /\ e \in Dev /\ e.tx = "VALID" /\ e.rx = n.rx /\ e.req = n.req /\ e.pma = n.pma
          /\ e.addr = n.addr /\ e.outGot = n.outGot /\ e.ctrlState = n.ctrlState
      BY <1>1, <1>3, <2>1, SendMoreFacts
    <2>3. QED
      BY <1>1, <1>3, <2>1, <2>2 DEF e, n
  <1>4. CASE d.ctrlState = "DATA_IN" /\ d.packNum = 0 /\ d.zeroPackFill
    <2> DEFINE l == Load(n, NoId, 0, 0)
    <2>1. e = [l EXCEPT !.zeroPackFill = FALSE]
      BY <1>1, <1>4 DEF e, USBD_CtrlInProcess
    <2>2. /\ l \in Dev /\ l.tx = "VALID" /\ l.rx = n.rx /\ l.req = n.req /\ l.pma = n.pma
          /\ l.addr = n.addr /\ l.outGot = n.outGot /\ l.ctrlState = n.ctrlState
          /\ l.pkt = [id |-> NoId, off |-> 0, len |-> 0]
      BY <1>1, LoadFacts, ReqFacts
    <2> HIDE DEF l
    <2>3. /\ e \in Dev /\ e.tx = l.tx /\ e.rx = l.rx /\ e.req = l.req /\ e.pma = l.pma
          /\ e.addr = l.addr /\ e.outGot = l.outGot /\ e.ctrlState = l.ctrlState /\ e.pkt = l.pkt
      BY <2>1, <2>2 DEF Dev
    <2>4. QED
      BY <1>1, <1>4, <2>2, <2>3 DEF e, n
  <1>5. CASE d.ctrlState = "DATA_IN" /\ d.packNum = 0 /\ ~d.zeroPackFill
    <2>1. e = [n EXCEPT !.ctrlState = "WAIT_STATUS_OUT", !.rx = "VALID"]
      BY <1>1, <1>5 DEF e, USBD_CtrlInProcess
    <2>2. /\ e \in Dev /\ e.tx = n.tx /\ e.rx = "VALID" /\ e.req = n.req /\ e.pma = n.pma
          /\ e.addr = n.addr /\ e.outGot = n.outGot
      BY <1>1, <2>1 DEF Dev, Statuses
    <2>3. QED
      BY <1>1, <1>5, <2>2 DEF e, n
  <1>6. CASE d.ctrlState = "WAIT_STATUS_IN" /\ d.req.bRequest = "SET_ADDRESS"
    <2>1. e = [n EXCEPT !.addr = n.req.size]
      BY <1>1, <1>6 DEF e, USBD_CtrlInProcess
    <2>2. /\ e \in Dev /\ e.tx = n.tx /\ e.rx = n.rx /\ e.req = n.req /\ e.pma = n.pma
          /\ e.addr = n.req.size /\ e.outGot = n.outGot
      BY <1>1, <2>1 DEF Dev
    <2>3. QED
      BY <1>1, <1>6, <2>2 DEF e, n
  <1>7. CASE d.ctrlState # "DATA_IN"
               /\ ~(d.ctrlState = "WAIT_STATUS_IN" /\ d.req.bRequest = "SET_ADDRESS")
    <2>1. e = n
      BY <1>1, <1>7 DEF e, USBD_CtrlInProcess
    <2>2. QED
      BY <1>1, <1>7, <2>1 DEF e, n
  <1>8. QED
    BY <1>2, <1>3, <1>4, <1>5, <1>6, <1>7

LEMMA OutProcessFacts ==
    ASSUME NEW d \in Dev
    PROVE  LET e == USBD_CtrlOutProcess(Nak(d))
               n == Min(d.outLen, MPS)
           IN  /\ e \in Dev /\ e.req = d.req /\ e.pma = d.pma /\ e.addr = d.addr
               /\ ~(e.tx = "VALID" /\ e.rx = "VALID")
               /\ e.tx = "VALID" => /\ e.pkt.len = 0 /\ d.ctrlState = "DATA_OUT"
                                    /\ ~ToHost(d.req) => e.ctrlState = "WAIT_STATUS_IN"
               /\ d.ctrlState = "DATA_OUT" /\ d.outPack > 1 =>
                     /\ e.tx # "VALID" /\ e.outGot = d.outGot + n
                     /\ d.outLen > n => /\ e.ctrlState = "DATA_OUT" /\ e.outLen = d.outLen - n
                                        /\ e.outPack = Packets(d.outLen - n)
               /\ d.ctrlState = "DATA_OUT" /\ d.outPack = 1 =>
                     e.rx # "VALID" /\ e.outGot = d.outGot + n
  <1> DEFINE n == Min(d.outLen, MPS)
             k == Nak(d)
             f == [k EXCEPT !.outLen = @ - n, !.outGot = @ + n, !.outPack = @ - 1]
             e == USBD_CtrlOutProcess(k)
  <1>1. /\ k \in Dev /\ k.tx = "NAK" /\ k.rx = "NAK" /\ k.ctrlState = d.ctrlState
        /\ k.req = d.req /\ k.pma = d.pma /\ k.outGot = d.outGot /\ k.outLen = d.outLen
        /\ k.outPack = d.outPack /\ k.addr = d.addr
    BY NakFacts
  <1>2. /\ d.outPack \in Nat /\ d.outLen \in Nat /\ d.outGot \in Nat /\ n \in Nat
        /\ d.outLen - n \in Nat /\ d.outGot + n \in Nat
    BY ReqFacts DEF Dev, Min
  <1>3. Min(k.outLen, MPS) = n
    BY <1>1
  <1> HIDE DEF n, k
  <1>4. d.outPack > 0 =>
           /\ f \in Dev /\ f.tx = "NAK" /\ f.rx = "NAK" /\ f.req = k.req /\ f.pma = k.pma
           /\ f.addr = k.addr /\ f.outLen = d.outLen - n /\ f.outGot = d.outGot + n
    <2> SUFFICES ASSUME d.outPack > 0
                 PROVE  /\ f \in Dev /\ f.tx = "NAK" /\ f.rx = "NAK" /\ f.req = k.req
                        /\ f.pma = k.pma /\ f.addr = k.addr /\ f.outLen = d.outLen - n
                        /\ f.outGot = d.outGot + n
      OBVIOUS
    <2>1. d.outPack - 1 \in Nat
      BY <1>2
    <2>2. f = [k EXCEPT !.outLen = d.outLen - n, !.outGot = d.outGot + n, !.outPack = d.outPack - 1]
      BY <1>1 DEF Dev
    <2>3. f \in Dev
      BY <1>1, <1>2, <2>1, <2>2 DEF Dev
    <2>4. QED
      BY <1>1, <2>2, <2>3 DEF Dev
  <1>5. e = CASE k.ctrlState = "DATA_OUT" /\ k.outPack > 1 -> USBD_CtrlOutData(f, f.outLen)
              [] k.ctrlState = "DATA_OUT" /\ k.outPack = 1 -> USBD_CtrlInData(f, 0)
              [] k.ctrlState = "DATA_OUT" /\ k.outPack = 0 -> USBD_CtrlInData(k, 0)
              [] OTHER -> k
    BY <1>3 DEF USBD_CtrlOutProcess
  <1> HIDE DEF f, e
  <1>6. Min(MPS, 0) = 0
    BY ReqFacts DEF Min
  <1>7. CASE d.ctrlState = "DATA_OUT" /\ d.outPack > 1
    <2>1. e = USBD_CtrlOutData(f, f.outLen)
      BY <1>1, <1>5, <1>7
    <2>2. /\ e \in Dev /\ e.rx = "VALID" /\ e.tx = f.tx /\ e.req = f.req /\ e.pma = f.pma
          /\ e.addr = f.addr /\ e.outGot = f.outGot
          /\ f.outLen > 0 => /\ e.outLen = f.outLen /\ e.outPack = Packets(f.outLen)
                             /\ e.ctrlState = "DATA_OUT"
      <3>1. f \in Dev /\ f.outLen \in Nat
        BY <1>2, <1>4, <1>7
      <3>2. QED
        BY <2>1, <3>1, OutDataFacts
    <2>3. QED
      BY <1>1, <1>2, <1>4, <1>7, <2>2 DEF e, n, k
  <1>8. CASE d.ctrlState = "DATA_OUT" /\ d.outPack = 1
    <2>1. e = USBD_CtrlInData(f, 0)
      BY <1>1, <1>5, <1>8
    <2>2. /\ e \in Dev /\ e.tx = "VALID" /\ e.rx = f.rx /\ e.req = f.req /\ e.pma = f.pma
          /\ e.addr = f.addr /\ e.outGot = f.outGot /\ e.pkt.len = 0
          /\ ~ToHost(f.req) => e.ctrlState = "WAIT_STATUS_IN"
      <3>1. f \in Dev
        BY <1>4, <1>8
      <3>2. QED
        BY <1>6, <2>1, <3>1, InDataFacts
    <2>3. QED
      BY <1>1, <1>2, <1>4, <1>8, <2>2 DEF e, n, k
  <1>9. CASE d.ctrlState = "DATA_OUT" /\ d.outPack = 0
    <2>1. e = USBD_CtrlInData(k, 0)
      BY <1>1, <1>5, <1>9
    <2>2. /\ e \in Dev /\ e.tx = "VALID" /\ e.rx = k.rx /\ e.req = k.req /\ e.pma = k.pma
          /\ e.addr = k.addr /\ e.pkt.len = 0
          /\ ~ToHost(k.req) => e.ctrlState = "WAIT_STATUS_IN"
      <3>1. k \in Dev
        BY <1>1
      <3>2. QED
        BY <1>6, <2>1, <3>1, InDataFacts
    <2>3. QED
      BY <1>1, <1>9, <2>2 DEF e, n, k
  <1>10. CASE d.ctrlState # "DATA_OUT"
    <2>1. e = k
      BY <1>1, <1>5, <1>10
    <2>2. QED
      BY <1>1, <1>10, <2>1 DEF e, n, k
  <1>11. QED
    BY <1>2, <1>7, <1>8, <1>9, <1>10

-----------------------------------------------------------------------------
(* The inductive invariant of the address. *)
LEMMA ControlInit == Init => ControlInv
  <1> SUFFICES ASSUME Init PROVE ControlInv
    OBVIOUS
  <1>1. ControlType
    <2>1. NoRequest \in Reqs /\ NoId \in Ids
      BY ReqFacts
    <2>2. dev \in Dev
      BY <2>1 DEF Init, Dev, Statuses
    <2>3. QED
      BY <2>1, <2>2, UsbControlAssumption DEF Init, ControlType, Stages
  <1>2. QED
    BY <1>1 DEF Init, ControlInv, FlowInv, ReqInv, AddrInv, Active

(* What the steps use of the type. *)
LEMMA ControlTypes ==
    ASSUME ControlType
    PROVE  /\ dev \in Dev /\ dev.req \in Reqs /\ dev.pma \in Reqs
           /\ dev.addr \in Nat /\ dev.pkt \in [id : Ids, off : Nat, len : Nat]
           /\ dev.pkt.len \in Nat /\ dev.pkt.off \in Nat
           /\ host.req \in Reqs /\ host.got \in Nat /\ host.addr \in Nat
  BY DEF ControlType, Dev

(* The handler. *)
LEMMA IsrInInv == ControlInv /\ Isr_In => ControlInv'
  <1> SUFFICES ASSUME ControlInv, Isr_In PROVE ControlInv'
    OBVIOUS
  <1>1. dev \in Dev /\ ControlType
    BY DEF ControlInv, ControlType
  <1>2. /\ dev' \in Dev /\ dev'.req = dev.req /\ dev'.pma = dev.pma
        /\ ~(dev'.tx = "VALID" /\ dev'.rx = "VALID")
        /\ dev'.tx = "VALID" => dev.ctrlState = "DATA_IN"
        /\ dev.ctrlState = "WAIT_STATUS_IN" /\ dev.req.bRequest = "SET_ADDRESS"
              => dev'.addr = dev.req.size
        /\ ~(dev.ctrlState = "WAIT_STATUS_IN" /\ dev.req.bRequest = "SET_ADDRESS")
              => dev'.addr = dev.addr
    BY <1>1, InProcessFacts DEF Isr_In
  <1>3. /\ irq.tx /\ ~irq.rx /\ ~irq'.tx /\ irq'.rx = irq.rx /\ irq'.setup = irq.setup
        /\ irq'.rst = irq.rst /\ UNCHANGED <<host, budget>>
        /\ irq' \in [tx : BOOLEAN, rx : BOOLEAN, setup : BOOLEAN, rst : BOOLEAN]
    BY <1>1 DEF Isr_In, ControlType
  <1>4. ControlType'
    BY <1>1, <1>2, <1>3 DEF ControlType
  <1>5. FlowInv' /\ ReqInv'
    BY <1>2, <1>3 DEF ControlInv, FlowInv, ReqInv, Active
  <1>6. AddrInv'
    BY <1>2, <1>3 DEF ControlInv, AddrInv
  <1>7. QED
    BY <1>4, <1>5, <1>6 DEF ControlInv

(* What a SETUP packet leaves the endpoint with. *)
LEMMA SetupFlow ==
    ASSUME ProperRequests, NEW d \in Dev
    PROVE  LET e == USBD_SetupProcess(Nak(d))
           IN  /\ e \in Dev /\ e.req = d.pma /\ e.pma = d.pma /\ e.addr = d.addr
               /\ ~(e.tx = "VALID" /\ e.rx = "VALID")
               /\ e.tx = "VALID" /\ d.pma.bRequest = "SET_ADDRESS" => e.ctrlState = "WAIT_STATUS_IN"
  <1> DEFINE e == USBD_SetupProcess(Nak(d))
             t == Taken(d)
  <1>1. /\ e \in Dev /\ e.req = d.pma /\ e.pma = d.pma /\ e.addr = d.addr
        /\ \/ e.tx # "VALID" /\ e.rx # "VALID"
           \/ \E len \in Nat : e = USBD_CtrlInData(t, len) /\ (~ToHost(d.pma) => len = 0)
           \/ e = USBD_CtrlOutData(t, d.pma.wLength)
    BY SetupFacts DEF WholeAnswer
  <1>2. /\ t \in Dev /\ t.tx = "NAK" /\ t.rx = "NAK" /\ t.req = d.pma /\ d.pma.wLength \in Nat
    BY TakenFacts, ReqFacts DEF Dev
  <1> HIDE DEF e, t
  <1>3. CASE \E len \in Nat : e = USBD_CtrlInData(t, len) /\ (~ToHost(d.pma) => len = 0)
    <2>1. PICK len \in Nat : e = USBD_CtrlInData(t, len) /\ (~ToHost(d.pma) => len = 0)
      BY <1>3
    <2>2. /\ e.tx = "VALID" /\ e.rx = t.rx
          /\ ~ToHost(t.req) /\ len = 0 => e.ctrlState = "WAIT_STATUS_IN"
      BY <1>2, <2>1, InDataFacts
    <2>3. d.pma.bRequest = "SET_ADDRESS" => ~ToHost(d.pma)
      BY ProperFacts DEF Dev
    <2>4. QED
      BY <1>1, <1>2, <2>1, <2>2, <2>3 DEF e
  <1>4. CASE e = USBD_CtrlOutData(t, d.pma.wLength)
    <2>1. e.tx = t.tx
      BY <1>2, <1>4, OutDataFacts
    <2>2. QED
      BY <1>1, <1>2, <2>1 DEF e
  <1>5. CASE e.tx # "VALID" /\ e.rx # "VALID"
    BY <1>1, <1>5 DEF e
  <1>6. QED
    BY <1>1, <1>3, <1>4, <1>5

LEMMA IsrSetupInv ==
    ASSUME ProperRequests, ControlInv, Isr_Setup PROVE ControlInv'
  <1>1. dev \in Dev /\ ControlType
    BY DEF ControlInv, ControlType
  <1>2. /\ dev' \in Dev /\ dev'.req = dev.pma /\ dev'.pma = dev.pma /\ dev'.addr = dev.addr
        /\ ~(dev'.tx = "VALID" /\ dev'.rx = "VALID")
        /\ dev'.tx = "VALID" /\ dev.pma.bRequest = "SET_ADDRESS" => dev'.ctrlState = "WAIT_STATUS_IN"
    BY <1>1, SetupFlow DEF Isr_Setup
  <1>3. /\ irq.rx /\ irq.setup /\ ~irq'.rx /\ ~irq'.setup /\ irq'.tx = irq.tx
        /\ irq'.rst = irq.rst /\ UNCHANGED <<host, budget>>
        /\ irq' \in [tx : BOOLEAN, rx : BOOLEAN, setup : BOOLEAN, rst : BOOLEAN]
    BY <1>1 DEF Isr_Setup, ControlType
  <1>4. ControlType'
    BY <1>1, <1>2, <1>3 DEF ControlType
  <1>5. FlowInv' /\ ReqInv'
    BY <1>2, <1>3 DEF ControlInv, FlowInv, ReqInv, Active
  <1>6. AddrInv'
    BY <1>2, <1>3 DEF ControlInv, AddrInv, FlowInv
  <1>7. QED
    BY <1>4, <1>5, <1>6 DEF ControlInv

LEMMA IsrOutInv ==
    ASSUME ProperRequests, ControlInv, Isr_Out PROVE ControlInv'
  <1>1. dev \in Dev /\ ControlType
    BY DEF ControlInv, ControlType
  <1>2. /\ dev' \in Dev /\ dev'.req = dev.req /\ dev'.pma = dev.pma /\ dev'.addr = dev.addr
        /\ ~(dev'.tx = "VALID" /\ dev'.rx = "VALID")
        /\ dev'.tx = "VALID" /\ ~ToHost(dev.req) => dev'.ctrlState = "WAIT_STATUS_IN"
    BY <1>1, OutProcessFacts DEF Isr_Out
  <1>3. /\ irq.rx /\ ~irq.setup /\ ~irq'.rx /\ irq'.setup = irq.setup /\ irq'.tx = irq.tx
        /\ irq'.rst = irq.rst /\ UNCHANGED <<host, budget>>
        /\ irq' \in [tx : BOOLEAN, rx : BOOLEAN, setup : BOOLEAN, rst : BOOLEAN]
    BY <1>1 DEF Isr_Out, ControlType
  <1>4. ControlType'
    BY <1>1, <1>2, <1>3 DEF ControlType
  <1>5. FlowInv' /\ ReqInv'
    BY <1>2, <1>3 DEF ControlInv, FlowInv, ReqInv, Active
  <1>6. dev.req.bRequest = "SET_ADDRESS" => ~ToHost(dev.req)
    BY <1>1, ProperFacts DEF Dev
  <1>7. AddrInv'
    BY <1>2, <1>3, <1>6 DEF ControlInv, AddrInv, FlowInv
  <1>8. QED
    BY <1>4, <1>5, <1>7 DEF ControlInv

LEMMA IsrResetInv == ControlInv /\ Isr_Reset => ControlInv'
  <1> SUFFICES ASSUME ControlInv, Isr_Reset PROVE ControlInv'
    OBVIOUS
  <1>1. dev \in Dev /\ ControlType
    BY DEF ControlInv, ControlType
  <1>2. /\ dev' \in Dev /\ dev'.req = dev.req /\ dev'.pma = dev.pma /\ dev'.addr = 0
        /\ dev'.tx = "NAK"
    BY <1>1 DEF Isr_Reset, USBD_ResetIsrHandler, Dev, Statuses
  <1>3. /\ irq.rst /\ ~irq.tx /\ ~irq.rx /\ ~irq'.rx /\ irq'.setup = irq.setup /\ ~irq'.tx
        /\ ~irq'.rst /\ UNCHANGED <<host, budget>>
        /\ irq' \in [tx : BOOLEAN, rx : BOOLEAN, setup : BOOLEAN, rst : BOOLEAN]
    BY <1>1 DEF Isr_Reset, ControlType
  <1>4. ControlType'
    BY <1>1, <1>2, <1>3 DEF ControlType
  <1>5. FlowInv' /\ ReqInv' /\ AddrInv'
    BY <1>2, <1>3 DEF ControlInv, FlowInv, ReqInv, AddrInv, Active
  <1>6. QED
    BY <1>4, <1>5 DEF ControlInv

-----------------------------------------------------------------------------
(* The host. *)
LEMMA SendSetupEffect ==
    ASSUME FastIsr, ControlInv, NEW r \in Reqs, SendSetup(r)
    PROVE  /\ ~irq.rx /\ ~irq.rst /\ ~irq.tx
           /\ irq'.rx /\ irq'.setup /\ ~irq'.rst /\ ~irq'.tx
           /\ irq' \in [tx : BOOLEAN, rx : BOOLEAN, setup : BOOLEAN, rst : BOOLEAN]
           /\ dev' \in Dev /\ dev'.pma = r /\ dev'.tx = "NAK" /\ dev'.rx = "NAK"
           /\ dev'.addr = dev.addr /\ dev'.req = dev.req
           /\ host' \in [stage : Stages, req : Reqs, got : Nat, bad : BOOLEAN, addr : Nat]
           /\ host'.stage = FirstStage(r) /\ host'.req = r /\ host'.got = 0 /\ ~host'.bad
           /\ host'.addr = host.addr
  <1>1. ControlType /\ dev \in Dev
    BY DEF ControlInv, ControlType
  <1>2. FirstStage(r) \in {"dataIn", "dataOut", "statusIn"}
    BY DEF FirstStage
  <1>3. /\ Nak(dev) \in Dev /\ Nak(dev).tx = "NAK" /\ Nak(dev).rx = "NAK"
        /\ Nak(dev).addr = dev.addr /\ Nak(dev).req = dev.req
    BY <1>1, NakFacts
  <1>4. /\ dev' \in Dev /\ dev'.pma = r /\ dev'.tx = "NAK" /\ dev'.rx = "NAK"
        /\ dev'.addr = dev.addr /\ dev'.req = dev.req
    BY <1>3 DEF SendSetup, Dev
  <1>5. /\ ~irq.rx /\ ~irq.rst /\ ~irq.tx
        /\ irq'.rx /\ irq'.setup /\ ~irq'.rst /\ ~irq'.tx
        /\ irq' \in [tx : BOOLEAN, rx : BOOLEAN, setup : BOOLEAN, rst : BOOLEAN]
    BY <1>1 DEF SendSetup, ControlType
  <1>6. host' = [host EXCEPT !.stage = FirstStage(r), !.req = r, !.got = 0, !.bad = FALSE]
    BY DEF SendSetup
  <1>7. /\ host' \in [stage : Stages, req : Reqs, got : Nat, bad : BOOLEAN, addr : Nat]
        /\ host'.stage = FirstStage(r) /\ host'.req = r /\ host'.got = 0 /\ ~host'.bad
        /\ host'.addr = host.addr
    BY <1>1, <1>2, <1>6 DEF ControlType, Stages
  <1>8. QED
    BY <1>4, <1>5, <1>7

LEMMA FirstStageFacts ==
    ASSUME NEW r \in Reqs
    PROVE  /\ FirstStage(r) \in {"dataIn", "dataOut", "statusIn"}
           /\ FirstStage(r) = "dataIn" => ToHost(r) /\ r.wLength > 0
           /\ FirstStage(r) = "dataOut" => ~ToHost(r) /\ r.wLength > 0
           /\ FirstStage(r) = "statusIn" => r.wLength = 0
  BY ReqFacts DEF FirstStage

LEMMA SetupSentInv ==
    ASSUME FastIsr, ControlInv, NEW r \in Reqs, SendSetup(r),
           budget' \in [aborts : Nat, resets : Nat]
    PROVE  ControlInv'
  <1>1. /\ ~irq.rx /\ ~irq.rst /\ ~irq.tx
        /\ irq'.rx /\ irq'.setup /\ ~irq'.rst /\ ~irq'.tx
        /\ irq' \in [tx : BOOLEAN, rx : BOOLEAN, setup : BOOLEAN, rst : BOOLEAN]
        /\ dev' \in Dev /\ dev'.pma = r /\ dev'.tx = "NAK" /\ dev'.rx = "NAK"
        /\ dev'.addr = dev.addr /\ dev'.req = dev.req
        /\ host' \in [stage : Stages, req : Reqs, got : Nat, bad : BOOLEAN, addr : Nat]
        /\ host'.stage = FirstStage(r) /\ host'.req = r /\ host'.addr = host.addr
    BY SendSetupEffect
  <1>2. ControlType'
    BY <1>1 DEF ControlType
  <1>3. FlowInv' /\ ReqInv' /\ AddrInv'
    BY <1>1, FirstStageFacts DEF ControlInv, FlowInv, ReqInv, AddrInv, Active
  <1>4. QED
    BY <1>2, <1>3 DEF ControlInv

LEMMA HostInInv ==
    ASSUME ProperRequests, ControlInv, HostIn PROVE ControlInv'
  <1>1. ControlType /\ dev \in Dev /\ host.req \in Reqs /\ host.req.size \in Nat
        /\ dev.pkt.len \in Nat /\ host.got + dev.pkt.len \in Nat
    BY ControlTypes, ReqFacts DEF ControlInv
  <1>2. /\ host.stage \in {"dataIn", "statusIn"} /\ dev.tx = "VALID" /\ ~irq.rst
        /\ ~irq.rx /\ ~irq.tx /\ ~irq.setup /\ dev.req = host.req /\ dev.rx # "VALID"
    BY <1>1 DEF HostIn, ControlInv, ControlType, FlowInv, ReqInv, Active
  <1>3. /\ dev' \in Dev /\ dev'.tx = "NAK" /\ dev'.rx = dev.rx /\ dev'.req = dev.req
        /\ dev'.pma = dev.pma /\ dev'.addr = dev.addr /\ dev'.ctrlState = dev.ctrlState
    BY <1>1 DEF HostIn, Dev, Statuses
  <1>4. /\ irq'.tx /\ irq'.rx = irq.rx /\ irq'.setup = irq.setup /\ irq'.rst = irq.rst
        /\ irq' \in [tx : BOOLEAN, rx : BOOLEAN, setup : BOOLEAN, rst : BOOLEAN]
        /\ budget' = budget
    BY <1>1 DEF HostIn, ControlType
  <1>5. CASE host.stage = "dataIn"
    <2>1. PICK got \in Nat, bad \in BOOLEAN, stage \in {"statusOut", "dataIn"} :
             host' = [host EXCEPT !.got = got, !.bad = bad, !.stage = stage]
      <3> DEFINE b == host.bad \/ ~(dev.pkt.len > 0 => (dev.pkt.id = Id(host.req) /\ dev.pkt.off = host.got))
                 st == IF dev.pkt.len < MPS \/ host.got + dev.pkt.len >= host.req.wLength
                       THEN "statusOut" ELSE "dataIn"
      <3>1. host' = [host EXCEPT !.got = host.got + dev.pkt.len, !.bad = b, !.stage = st]
        BY <1>5 DEF HostIn
      <3>2. b \in BOOLEAN /\ st \in {"statusOut", "dataIn"}
        OBVIOUS
      <3> HIDE DEF b, st
      <3>3. QED
        BY <1>1, <3>1, <3>2
    <2>2. /\ host' \in [stage : Stages, req : Reqs, got : Nat, bad : BOOLEAN, addr : Nat]
          /\ host'.stage \in {"statusOut", "dataIn"} /\ host'.req = host.req
          /\ host'.addr = host.addr
      BY <1>1, <2>1 DEF ControlType, Stages
    <2>3. ControlType'
      BY <1>1, <1>3, <1>4, <2>2 DEF ControlType
    <2>4. dev.req.bRequest # "SET_ADDRESS"
      BY <1>1, <1>2, <1>5, ProperFacts DEF ControlInv, ReqInv
    <2>5. FlowInv' /\ ReqInv' /\ AddrInv'
      BY <1>2, <1>3, <1>4, <1>5, <2>2, <2>4 DEF ControlInv, FlowInv, ReqInv, AddrInv, Active
    <2>6. QED
      BY <2>3, <2>5 DEF ControlInv
  <1>6. CASE host.stage = "statusIn"
    <2>1. /\ host' \in [stage : Stages, req : Reqs, got : Nat, bad : BOOLEAN, addr : Nat]
          /\ host'.stage = "done" /\ host'.req = host.req
          /\ host.req.bRequest = "SET_ADDRESS" => host'.addr = host.req.size
          /\ host.req.bRequest # "SET_ADDRESS" => host'.addr = host.addr
      <3> DEFINE b == host.bad \/ dev.pkt.len # 0
                 a == IF SetsAddress(host.req) THEN host.req.size ELSE host.addr
      <3>1. host' = [host EXCEPT !.stage = "done", !.bad = b, !.addr = a]
        BY <1>6 DEF HostIn
      <3>2. b \in BOOLEAN /\ a \in Nat
        BY <1>1, ControlTypes
      <3>3. /\ host.req.bRequest = "SET_ADDRESS" => a = host.req.size
            /\ host.req.bRequest # "SET_ADDRESS" => a = host.addr
        BY <1>1, ProperFacts
      <3> HIDE DEF b, a
      <3>4. QED
        BY <1>1, <3>1, <3>2, <3>3 DEF ControlType, Stages
    <2>2. ControlType'
      BY <1>1, <1>3, <1>4, <2>1 DEF ControlType
    <2>3. FlowInv' /\ ReqInv' /\ AddrInv'
      BY <1>2, <1>3, <1>4, <1>6, <2>1 DEF ControlInv, FlowInv, ReqInv, AddrInv, Active
    <2>4. QED
      BY <2>2, <2>3 DEF ControlInv
  <1>7. QED
    BY <1>2, <1>5, <1>6

LEMMA HostOutInv == ControlInv /\ HostOut => ControlInv'
  <1> SUFFICES ASSUME ControlInv, HostOut PROVE ControlInv'
    OBVIOUS
  <1>1. ControlType /\ dev \in Dev /\ host.req \in Reqs /\ host.req.wLength \in Nat
        /\ host.got \in Nat /\ MPS \in Nat
    BY ControlTypes, ReqFacts DEF ControlInv
  <1>2. /\ host.stage \in {"dataOut", "statusOut"} /\ dev.rx = "VALID" /\ ~irq.rst
        /\ ~irq.rx /\ ~irq.tx /\ ~irq.setup /\ dev.req = host.req /\ dev.tx # "VALID"
    BY <1>1 DEF HostOut, ControlInv, ControlType, FlowInv, ReqInv, Active
  <1>3. /\ dev' \in Dev /\ dev'.tx = dev.tx /\ dev'.rx = "NAK" /\ dev'.req = dev.req
        /\ dev'.pma = dev.pma /\ dev'.addr = dev.addr /\ dev'.ctrlState = dev.ctrlState
    BY <1>1 DEF HostOut, Dev, Statuses
  <1>4. /\ irq'.rx /\ irq'.tx = irq.tx /\ irq'.setup = irq.setup /\ irq'.rst = irq.rst
        /\ irq' \in [tx : BOOLEAN, rx : BOOLEAN, setup : BOOLEAN, rst : BOOLEAN]
        /\ budget' = budget
    BY <1>1 DEF HostOut, ControlType
  <1>5. /\ host' \in [stage : Stages, req : Reqs, got : Nat, bad : BOOLEAN, addr : Nat]
        /\ host'.req = host.req /\ host'.addr = host.addr
        /\ host.stage = "dataOut" => host'.stage \in {"dataOut", "statusIn"}
        /\ host.stage = "statusOut" => host'.stage = "done"
    <2>1. Min(host.req.wLength, host.got + MPS) \in Nat
      BY <1>1 DEF Min
    <2>2. QED
      BY <1>1, <1>2, <2>1 DEF HostOut, ControlType, Stages
  <1>6. ControlType'
    BY <1>1, <1>3, <1>4, <1>5 DEF ControlType
  <1>7. FlowInv' /\ ReqInv' /\ AddrInv'
    BY <1>2, <1>3, <1>4, <1>5 DEF ControlInv, FlowInv, ReqInv, AddrInv, Active
  <1>8. QED
    BY <1>6, <1>7 DEF ControlInv

LEMMA HostStalledInv == ControlInv /\ HostStalled => ControlInv'
  <1> SUFFICES ASSUME ControlInv, HostStalled PROVE ControlInv'
    OBVIOUS
  <1>1. /\ host' \in [stage : Stages, req : Reqs, got : Nat, bad : BOOLEAN, addr : Nat]
        /\ host'.stage = "stalled" /\ host'.req = host.req /\ host'.addr = host.addr
        /\ UNCHANGED <<dev, irq, budget>>
    BY DEF HostStalled, ControlInv, ControlType, Stages
  <1>2. QED
    BY <1>1 DEF ControlInv, ControlType, FlowInv, ReqInv, AddrInv, Active

LEMMA BusResetInv == ControlInv /\ BusReset => ControlInv'
  <1> SUFFICES ASSUME ControlInv, BusReset PROVE ControlInv'
    OBVIOUS
  <1>1. ControlType /\ NoRequest \in Reqs
    BY ReqFacts DEF ControlInv
  <1>2. /\ host' \in [stage : Stages, req : Reqs, got : Nat, bad : BOOLEAN, addr : Nat]
        /\ host'.stage = "idle" /\ host'.addr = 0
    BY <1>1 DEF BusReset, ControlType, Stages
  <1>3. /\ dev' \in Dev /\ dev'.tx = "DIS" /\ dev'.rx = "DIS" /\ dev'.req = dev.req
        /\ dev'.ctrlState = dev.ctrlState
    BY <1>1 DEF BusReset, ControlType, Dev, Statuses
  <1>4. /\ irq'.rst /\ irq'.tx = irq.tx /\ irq'.rx = irq.rx /\ irq'.setup = irq.setup
        /\ irq' \in [tx : BOOLEAN, rx : BOOLEAN, setup : BOOLEAN, rst : BOOLEAN]
    BY <1>1 DEF BusReset, ControlType
  <1>5. budget' \in [aborts : Nat, resets : Nat]
    <2>1. budget.resets - 1 \in Nat /\ budget' = [budget EXCEPT !.resets = budget.resets - 1]
      BY <1>1 DEF BusReset, ControlType
    <2>2. QED
      BY <1>1, <2>1 DEF ControlType
  <1>6. QED
    BY <1>2, <1>3, <1>4, <1>5 DEF ControlInv, ControlType, FlowInv, ReqInv, AddrInv, Active

(* A step of the handler, the host or the bus. *)
LEMMA ControlNext ==
    ASSUME FastIsr, ProperRequests, ControlInv, [Next]_vars PROVE ControlInv'
  <1>1. ASSUME NEW r \in Reqs, SendSetup(r), budget' \in [aborts : Nat, resets : Nat]
        PROVE  ControlInv'
    BY <1>1, SetupSentInv
  <1>2. CASE \E r \in Requests : Start(r) \/ Abort(r)
    <2>1. PICK r \in Requests : Start(r) \/ Abort(r)
      BY <1>2
    <2>2. SendSetup(r) /\ budget' \in [aborts : Nat, resets : Nat]
      BY <2>1 DEF Start, Abort, ControlInv, ControlType
    <2>3. QED
      BY <1>1, <2>2 DEF Reqs
  <1>3. CASE Timeout
    BY <1>1, <1>3, ControlTypes DEF Timeout, ControlInv, ControlType
  <1>4. CASE UNCHANGED vars
    BY <1>4 DEF vars, ControlInv, ControlType, FlowInv, ReqInv, AddrInv, Active
  <1>5. QED
    BY <1>2, <1>3, <1>4, IsrInInv, IsrSetupInv, IsrOutInv, IsrResetInv, HostInInv, HostOutInv,
       HostStalledInv, BusResetInv DEF Next, Isr, Host

-----------------------------------------------------------------------------
(* The types alone need nothing of the host: improper requests, and a      *)
(* SETUP that overtakes the handling of an IN packet, keep them too.       *)
LEMMA HandlerTypes ==
    ASSUME ControlType, Isr PROVE ControlType'
  <1>1. dev \in Dev
    BY DEF ControlType
  <1>2. /\ USBD_CtrlInProcess(Nak(dev)) \in Dev /\ USBD_SetupProcess(Nak(dev)) \in Dev
        /\ USBD_CtrlOutProcess(Nak(dev)) \in Dev
    BY <1>1, InProcessFacts, SetupFacts, OutProcessFacts
  <1>3. USBD_ResetIsrHandler(dev) \in Dev
    BY <1>1 DEF USBD_ResetIsrHandler, Dev, Statuses
  <1>4. dev' \in Dev
    BY <1>2, <1>3 DEF Isr, Isr_In, Isr_Setup, Isr_Out, Isr_Reset
  <1>5. irq' \in [tx : BOOLEAN, rx : BOOLEAN, setup : BOOLEAN, rst : BOOLEAN]
    BY DEF Isr, Isr_In, Isr_Setup, Isr_Out, Isr_Reset, ControlType
  <1>6. UNCHANGED <<host, budget>>
    BY DEF Isr, Isr_In, Isr_Setup, Isr_Out, Isr_Reset
  <1>7. QED
    BY <1>4, <1>5, <1>6 DEF ControlType

LEMMA SendSetupTypes ==
    ASSUME ControlType, NEW r \in Reqs, SendSetup(r), budget' \in [aborts : Nat, resets : Nat]
    PROVE  ControlType'
  <1>1. FirstStage(r) \in Stages
    BY DEF FirstStage, Stages
  <1>2. host' \in [stage : Stages, req : Reqs, got : Nat, bad : BOOLEAN, addr : Nat]
    <2>1. host' = [host EXCEPT !.stage = FirstStage(r), !.req = r, !.got = 0, !.bad = FALSE]
      BY DEF SendSetup
    <2>2. QED
      BY <1>1, <2>1 DEF ControlType
  <1>3. dev' \in Dev
    <2>1. Nak(dev) \in Dev
      BY NakFacts DEF ControlType
    <2>2. QED
      BY <2>1 DEF SendSetup, Dev
  <1>4. irq' \in [tx : BOOLEAN, rx : BOOLEAN, setup : BOOLEAN, rst : BOOLEAN]
    BY DEF SendSetup, ControlType
  <1>5. QED
    BY <1>2, <1>3, <1>4 DEF ControlType

LEMMA HostInTypes ==
    ASSUME ControlType, HostIn PROVE ControlType'
  <1> DEFINE Hosts == [stage : Stages, req : Reqs, got : Nat, bad : BOOLEAN, addr : Nat]
  <1>1. /\ dev \in Dev /\ host \in Hosts /\ host.got + dev.pkt.len \in Nat
        /\ host.addr \in Nat /\ host.req.size \in Nat
    BY ControlTypes, ReqFacts DEF ControlType
  <1>2. host' \in Hosts
    <2>1. CASE host.stage = "dataIn"
      <3> DEFINE b == host.bad \/ ~(dev.pkt.len > 0 => (dev.pkt.id = Id(host.req) /\ dev.pkt.off = host.got))
                 st == IF dev.pkt.len < MPS \/ host.got + dev.pkt.len >= host.req.wLength
                       THEN "statusOut" ELSE "dataIn"
      <3>1. host' = [host EXCEPT !.got = host.got + dev.pkt.len, !.bad = b, !.stage = st]
        BY <2>1 DEF HostIn
      <3>2. b \in BOOLEAN /\ st \in Stages
        BY DEF Stages
      <3> HIDE DEF b, st
      <3>3. QED
        BY <1>1, <3>1, <3>2
    <2>2. CASE host.stage # "dataIn"
      <3> DEFINE b == host.bad \/ dev.pkt.len # 0
                 a == IF SetsAddress(host.req) THEN host.req.size ELSE host.addr
      <3>1. host' = [host EXCEPT !.stage = "done", !.bad = b, !.addr = a]
        BY <2>2 DEF HostIn
      <3>2. b \in BOOLEAN /\ a \in Nat /\ "done" \in Stages
        BY <1>1 DEF Stages
      <3> HIDE DEF b, a
      <3>3. QED
        BY <1>1, <3>1, <3>2
    <2>3. QED
      BY <2>1, <2>2
  <1>3. /\ dev' \in Dev /\ budget' = budget
        /\ irq' \in [tx : BOOLEAN, rx : BOOLEAN, setup : BOOLEAN, rst : BOOLEAN]
    BY <1>1 DEF HostIn, ControlType, Dev, Statuses
  <1>4. QED
    BY <1>2, <1>3 DEF ControlType

LEMMA HostOutTypes ==
    ASSUME ControlType, HostOut PROVE ControlType'
  <1> DEFINE sent == Min(host.req.wLength, host.got + MPS)
             st == IF sent = host.req.wLength THEN "statusIn" ELSE host.stage
  <1>1. dev \in Dev /\ host.got \in Nat /\ sent \in Nat /\ st \in Stages
    BY ControlTypes, ReqFacts DEF ControlType, Min, Stages
  <1>2. \/ host' = [host EXCEPT !.got = sent, !.stage = st]
        \/ host' = [host EXCEPT !.stage = "done"]
    BY DEF HostOut
  <1> HIDE DEF sent, st
  <1>3. host' \in [stage : Stages, req : Reqs, got : Nat, bad : BOOLEAN, addr : Nat]
    BY <1>1, <1>2 DEF ControlType, Stages
  <1>4. /\ dev' \in Dev /\ budget' = budget
        /\ irq' \in [tx : BOOLEAN, rx : BOOLEAN, setup : BOOLEAN, rst : BOOLEAN]
    BY <1>1 DEF HostOut, ControlType, Dev, Statuses
  <1>5. QED
    BY <1>3, <1>4 DEF ControlType

LEMMA BusResetTypes ==
    ASSUME ControlType, BusReset PROVE ControlType'
  <1>1. host' \in [stage : Stages, req : Reqs, got : Nat, bad : BOOLEAN, addr : Nat]
    BY ReqFacts DEF BusReset, ControlType, Stages
  <1>2. dev' \in Dev
    BY DEF BusReset, ControlType, Dev, Statuses
  <1>3. irq' \in [tx : BOOLEAN, rx : BOOLEAN, setup : BOOLEAN, rst : BOOLEAN]
    BY DEF BusReset, ControlType
  <1>4. budget' \in [aborts : Nat, resets : Nat]
    <2>1. budget.resets - 1 \in Nat /\ budget' = [budget EXCEPT !.resets = budget.resets - 1]
      BY DEF BusReset, ControlType
    <2>2. QED
      BY <2>1 DEF ControlType
  <1>5. QED
    BY <1>1, <1>2, <1>3, <1>4 DEF ControlType

LEMMA TypeNext ==
    ASSUME ControlType, [Next]_vars PROVE ControlType'
  <1>1. CASE \E r \in Requests : Start(r) \/ Abort(r)
    <2>1. PICK r \in Requests : Start(r) \/ Abort(r)
      BY <1>1
    <2>2. SendSetup(r) /\ budget' \in [aborts : Nat, resets : Nat]
      BY <2>1 DEF Start, Abort, ControlType
    <2>3. QED
      BY <2>2, SendSetupTypes DEF Reqs
  <1>2. CASE Timeout
    BY <1>2, SendSetupTypes, ControlTypes DEF Timeout, ControlType
  <1>3. CASE HostStalled
    BY <1>3 DEF HostStalled, ControlType, Stages
  <1>4. CASE UNCHANGED vars
    BY <1>4 DEF vars, ControlType
  <1>5. QED
    BY <1>1, <1>2, <1>3, <1>4, HandlerTypes, HostInTypes, HostOutTypes, BusResetTypes
       DEF Next, Host

(* The type of the state, for every size of packet and set of requests,    *)
(* proper or not, and however late the handler runs: in particular the     *)
(* counters of bytes and packets left never run below 0.                   *)
THEOREM ControlTypeCorrect == Spec => []TypeOK
  <1>1. Init => ControlType
    BY ControlInit DEF ControlInv
  <1>2. ControlType /\ [Next]_vars => ControlType'
    BY TypeNext
  <1>3. ControlType => TypeOK
    BY DEF ControlType, TypeOK, Dev, Statuses, Reqs
  <1>4. QED
    BY <1>1, <1>2, <1>3, PTL DEF Spec

-----------------------------------------------------------------------------
(* Whenever no packet and no reset waits for the handler, the device       *)
(* answers to the address the host uses: USBD_CtrlInProcess takes the new  *)
(* one with the status stage of its own SET_ADDRESS, whatever transfers    *)
(* were given up before and whenever the bus was reset.                    *)
THEOREM AddressesAgree ==
    ASSUME FastIsr, ProperRequests PROVE Spec => []AddressAgreed
  <1>1. ControlInv /\ [Next]_vars => ControlInv'
    BY ControlNext
  <1>2. ControlInv => AddressAgreed
    BY DEF ControlInv, AddrInv, AddressAgreed
  <1>3. QED
    BY <1>1, <1>2, ControlInit, PTL DEF Spec

-----------------------------------------------------------------------------
(* The inductive invariant of the data. *)
LEMMA TransferInit == Init => TransferInv
  BY DEF Init, TransferInv, InInv, OutInv, EndInv, DataExact, Active, Writing

(* The length of an answer. *)
LEMMA TotalFacts ==
    ASSUME NEW r \in Reqs
    PROVE  /\ Total(r) \in Nat /\ Total(r) <= r.wLength /\ r.wLength \in Nat
           /\ r.wLength = 0 => Total(r) = 0
  BY ReqFacts DEF Total, Min

(* The handler goes on with an answer, of which the host has read n bytes. *)
LEMMA AnswerGoesOn ==
    ASSUME NEW n \in Nat, dev \in Dev, n <= Total(dev.req), n % MPS = 0, Rest(n),
           n < dev.req.wLength
    PROVE  LET e == USBD_CtrlInProcess(Nak(dev))
               T == Total(dev.req)
           IN  /\ e.ctrlState = "DATA_IN" /\ e.pkt.len = Min(MPS, T - n)
               /\ e.pkt.len > 0 => e.pkt.id = Id(dev.req) /\ e.pkt.off = n
               /\ e.pkt.len = MPS =>
                     /\ e.pBuf = [id |-> Id(dev.req), off |-> n + MPS]
                     /\ e.bufLen = T - (n + MPS) /\ e.packNum = Packets(e.bufLen)
                     /\ T % MPS = 0 /\ T < dev.req.wLength => e.zeroPackFill
  <1> DEFINE e == USBD_CtrlInProcess(Nak(dev))
             T == Total(dev.req)
             k == Nak(dev)
  <1>1. /\ dev.req \in Reqs /\ T \in Nat /\ MPS \in Nat /\ MPS > 0 /\ T - n \in Nat
        /\ dev.ctrlState = "DATA_IN" /\ dev.bufLen = T - n /\ dev.packNum = Packets(T - n)
        /\ dev.pBuf = [id |-> Id(dev.req), off |-> n]
        /\ T % MPS = 0 /\ T < dev.req.wLength => dev.zeroPackFill
    BY TotalFacts, ReqFacts DEF Dev, Rest
  <1>2. e.tx = "VALID" => e.ctrlState = "DATA_IN"
    BY InProcessFacts
  <1>3. CASE T - n > 0
    <2>1. dev.packNum > 0
      BY <1>1, <1>3, PacketsFacts
    <2>2. e = SendMore(k)
      BY <1>1, <2>1, InProcessFacts
    <2>3. /\ k \in Dev /\ k.packNum = dev.packNum /\ k.bufLen = T - n /\ k.pBuf = dev.pBuf
          /\ k.ctrlState = "DATA_IN" /\ k.zeroPackFill = dev.zeroPackFill
      BY <1>1, NakFacts
    <2> DEFINE m == Min(T - n, MPS)
    <2>4. /\ m = Min(MPS, T - n) /\ m \in Nat /\ m <= T - n /\ m <= MPS
      BY <1>1 DEF Min
    <2> HIDE DEF e, k, T, m
    <2>5. /\ e.ctrlState = "DATA_IN" /\ e.zeroPackFill = dev.zeroPackFill
          /\ e.pkt = [id |-> k.pBuf.id, off |-> k.pBuf.off, len |-> Min(k.bufLen, MPS)]
          /\ e.pBuf = [id |-> k.pBuf.id, off |-> k.pBuf.off + Min(k.bufLen, MPS)]
          /\ e.bufLen = k.bufLen - Min(k.bufLen, MPS) /\ e.packNum = k.packNum - 1
      BY <2>1, <2>2, <2>3, SendMoreFacts
    <2>6. Min(k.bufLen, MPS) = m /\ k.pBuf.id = Id(dev.req) /\ k.pBuf.off = n
      BY <1>1, <2>3 DEF m
    <2>7. /\ e.pkt = [id |-> Id(dev.req), off |-> n, len |-> m]
          /\ e.pBuf = [id |-> Id(dev.req), off |-> n + m]
          /\ e.bufLen = (T - n) - m /\ e.packNum = Packets(T - n) - 1
      BY <1>1, <2>3, <2>5, <2>6
    <2>8. m = MPS => Packets(T - n) - 1 = Packets((T - n) - MPS)
      <3> SUFFICES ASSUME m = MPS PROVE Packets(T - n) - 1 = Packets((T - n) - MPS)
        OBVIOUS
      <3>1. (T - n) - MPS \in Nat
        BY <1>1, <2>4
      <3>2. Packets((T - n) - MPS) \in Nat /\ Packets(0) = 0
        BY <3>1, PacketsFacts
      <3>3. CASE T - n = MPS
        BY <1>1, <3>2, <3>3, PacketsFacts
      <3>4. CASE T - n > MPS
        BY <1>1, <3>2, <3>4, PacketsFacts
      <3>5. QED
        BY <1>1, <2>4, <3>3, <3>4
    <2>9. m = MPS => (T - n) - m = T - (n + MPS) /\ (T - n) - MPS = T - (n + MPS)
      BY <1>1
    <2>10. QED
      BY <1>1, <2>4, <2>5, <2>7, <2>8, <2>9 DEF e, T
  <1>4. CASE T - n = 0
    <2>1. T = n /\ dev.packNum = 0
      BY <1>1, <1>4, PacketsFacts
    <2>2. dev.zeroPackFill
      BY <1>1, <2>1
    <2>3. e.tx = "VALID" /\ e.pkt.len = 0
      BY <1>1, <2>1, <2>2, InProcessFacts
    <2>4. Min(MPS, T - n) = 0
      BY <1>1, <1>4 DEF Min
    <2>5. QED
      BY <1>1, <1>2, <2>3, <2>4
  <1>5. QED
    BY <1>1, <1>3, <1>4

LEMMA IsrInData == ControlInv /\ TransferInv /\ Isr_In => TransferInv'
  <1> SUFFICES ASSUME ControlInv, TransferInv, Isr_In PROVE TransferInv'
    OBVIOUS
  <1>1. ControlType /\ dev \in Dev /\ host.got \in Nat
    BY ControlTypes DEF ControlInv
  <1>2. /\ irq.tx /\ ~irq.rx /\ ~irq'.tx /\ irq'.rx = irq.rx /\ irq'.setup = irq.setup
        /\ host' = host /\ dev' = USBD_CtrlInProcess(Nak(dev))
    BY <1>1 DEF Isr_In, ControlType
  <1>3. ~irq.setup /\ host.stage \notin {"dataOut", "statusIn"}
    BY <1>2 DEF ControlInv, FlowInv
  <1>4. dev'.req = dev.req /\ dev'.outGot = dev.outGot
    BY <1>1, <1>2, InProcessFacts
  <1>5. ASSUME host.stage = "dataIn"
        PROVE  /\ dev'.ctrlState = "DATA_IN" /\ dev'.pkt.len = Min(MPS, Total(host.req) - host.got)
               /\ dev'.pkt.len > 0 => dev'.pkt.id = Id(host.req) /\ dev'.pkt.off = host.got
               /\ dev'.pkt.len = MPS => Rest(host.got + MPS)'
    <2>1. dev.req = host.req
      BY <1>3, <1>5 DEF ControlInv, ReqInv, Active
    <2>2. /\ host.got <= Total(dev.req) /\ host.got % MPS = 0 /\ Rest(host.got)
          /\ host.got < dev.req.wLength
      BY <1>2, <1>5, <2>1 DEF TransferInv, InInv
    <2>3. /\ dev'.ctrlState = "DATA_IN"
          /\ dev'.pkt.len = Min(MPS, Total(dev.req) - host.got)
          /\ dev'.pkt.len > 0 => dev'.pkt.id = Id(dev.req) /\ dev'.pkt.off = host.got
          /\ dev'.pkt.len = MPS =>
                /\ dev'.pBuf = [id |-> Id(dev.req), off |-> host.got + MPS]
                /\ dev'.bufLen = Total(dev.req) - (host.got + MPS)
                /\ dev'.packNum = Packets(dev'.bufLen)
                /\ Total(dev.req) % MPS = 0 /\ Total(dev.req) < dev.req.wLength
                      => dev'.zeroPackFill
      BY <1>1, <1>2, <2>2, AnswerGoesOn
    <2>4. QED
      BY <1>2, <1>4, <2>1, <2>3 DEF Rest
  <1>6. InInv'
    BY <1>2, <1>3, <1>5 DEF TransferInv, InInv
  <1>7. OutInv'
    BY <1>2, <1>3 DEF TransferInv, OutInv, Writing
  <1>8. EndInv'
    BY <1>2, <1>3, <1>4 DEF TransferInv, EndInv, DataExact
  <1>9. QED
    BY <1>6, <1>7, <1>8 DEF TransferInv

(* The request is new: nothing of an earlier one is left that matters. *)
LEMMA IsrSetupData ==
    ASSUME ProperRequests, ControlInv, TransferInv, Isr_Setup PROVE TransferInv'
  <1> DEFINE r == dev.pma
             t == Taken(dev)
             T == Total(dev.pma)
  <1>1. ControlType /\ dev \in Dev /\ host.got \in Nat /\ r \in Reqs
    BY ControlTypes DEF ControlInv
  <1>2. /\ irq.rx /\ irq.setup /\ ~irq'.rx /\ ~irq'.setup /\ irq'.tx = irq.tx
        /\ host' = host /\ dev' = USBD_SetupProcess(Nak(dev))
    BY <1>1 DEF Isr_Setup, ControlType
  <1>3. ~irq.tx /\ (Active => r = host.req)
    BY <1>2 DEF ControlInv, FlowInv, ReqInv
  <1>4. /\ T \in Nat /\ T <= r.wLength /\ r.wLength \in Nat /\ (r.wLength = 0 => T = 0)
        /\ MPS \in Nat /\ MPS > 0
    BY <1>1, TotalFacts, ReqFacts
  <1>5. dev'.req = r
    BY <1>1, <1>2, SetupFacts
  <1>6. /\ t \in Dev /\ t.tx = "NAK" /\ t.rx = "NAK" /\ t.req = r /\ t.outGot = 0
    BY <1>1, TakenFacts
  <1>7. \/ dev'.tx # "VALID" /\ dev'.rx # "VALID"
        \/ \E len \in Nat :
              /\ dev' = USBD_CtrlInData(t, len)
              /\ ~ToHost(r) => len = 0
              /\ ToHost(r) => len = T
        \/ dev' = USBD_CtrlOutData(t, r.wLength)
    BY <1>1, <1>2, SetupFacts DEF WholeAnswer
  <1> HIDE DEF t
  <1>8. dev'.tx = "VALID" =>
           /\ dev'.rx # "VALID" /\ dev'.outGot = 0
           /\ ~ToHost(r) \/ T = 0 => dev'.pkt.len = 0
           /\ ToHost(r) =>
                 /\ dev'.ctrlState = "DATA_IN" /\ dev'.pkt.len = Min(MPS, T)
                 /\ dev'.pkt.len > 0 => dev'.pkt.id = Id(r) /\ dev'.pkt.off = 0
                 /\ dev'.pkt.len = MPS =>
                       /\ dev'.bufLen = T - MPS /\ dev'.pBuf = [id |-> Id(r), off |-> MPS]
                       /\ dev'.packNum = Packets(T - MPS)
                       /\ T % MPS = 0 /\ T < r.wLength => dev'.zeroPackFill
    <2>1. CASE dev'.tx # "VALID"
      BY <2>1
    <2>2. CASE \E len \in Nat :
                  /\ dev' = USBD_CtrlInData(t, len)
                  /\ ~ToHost(r) => len = 0
                  /\ ToHost(r) => len = T
      <3>1. PICK len \in Nat :
               /\ dev' = USBD_CtrlInData(t, len)
               /\ ~ToHost(r) => len = 0
               /\ ToHost(r) => len = T
        BY <2>2
      <3>2. /\ dev'.rx = t.rx /\ dev'.pkt.len = Min(MPS, len) /\ dev'.outGot = t.outGot
            /\ ToHost(t.req) => dev'.ctrlState = "DATA_IN"
            /\ len > 0 => dev'.pkt.id = Id(t.req) /\ dev'.pkt.off = 0
            /\ len >= MPS =>
                  /\ dev'.bufLen = len - MPS /\ dev'.pBuf = [id |-> Id(t.req), off |-> MPS]
                  /\ dev'.packNum = Packets(len - MPS)
                  /\ len % MPS = 0 /\ len < t.req.wLength => dev'.zeroPackFill
        BY <1>6, <3>1, InDataFacts
      <3>3. /\ len = 0 => Min(MPS, len) = 0
            /\ Min(MPS, len) > 0 => len > 0
            /\ Min(MPS, len) = MPS => len >= MPS
        BY <1>4 DEF Min
      <3>4. QED
        BY <1>6, <3>1, <3>2, <3>3
    <2>3. CASE dev' = USBD_CtrlOutData(t, r.wLength)
      <3>1. dev'.tx = t.tx
        BY <1>4, <1>6, <2>3, OutDataFacts
      <3>2. QED
        BY <1>6, <3>1
    <2>4. QED
      BY <1>7, <2>1, <2>2, <2>3
  <1>9. dev'.rx = "VALID" /\ r.wLength > 0 =>
           /\ dev'.ctrlState = "DATA_OUT" /\ dev'.outLen = r.wLength
           /\ dev'.outPack = Packets(r.wLength) /\ dev'.outGot = 0
    <2> SUFFICES ASSUME dev'.rx = "VALID", r.wLength > 0
                 PROVE  /\ dev'.ctrlState = "DATA_OUT" /\ dev'.outLen = r.wLength
                        /\ dev'.outPack = Packets(r.wLength) /\ dev'.outGot = 0
      OBVIOUS
    <2>1. ASSUME NEW len \in Nat, dev' = USBD_CtrlInData(t, len) PROVE FALSE
      BY <1>6, <2>1, InDataFacts
    <2>2. dev' = USBD_CtrlOutData(t, r.wLength)
      BY <1>7, <2>1
    <2>3. QED
      BY <1>4, <1>6, <2>2, OutDataFacts
  <1>10. InInv'
    <2> SUFFICES ASSUME host.stage = "dataIn" PROVE InInv'
      BY <1>2 DEF InInv
    <2>1. r = host.req /\ ToHost(r) /\ host.got = 0
      BY <1>2, <1>3 DEF Active, ControlInv, ReqInv, TransferInv, InInv
    <2>2. T - host.got = T /\ host.got + MPS = MPS
      BY <1>4, <2>1
    <2>3. dev'.tx = "VALID" /\ dev'.pkt.len = MPS => Rest(host.got + MPS)'
      BY <1>2, <1>5, <1>8, <2>1, <2>2 DEF Rest
    <2>4. QED
      BY <1>2, <1>3, <1>8, <2>1, <2>2, <2>3 DEF TransferInv, InInv
  <1>11. OutInv'
    <2>1. Active => host.got = 0
      BY <1>2 DEF TransferInv, OutInv
    <2>2. ASSUME host.stage = "dataOut", dev'.rx = "VALID"
          PROVE  /\ dev'.ctrlState = "DATA_OUT" /\ dev'.outPack = Packets(dev'.outLen)
                 /\ dev'.outGot = host.got /\ dev'.outGot + dev'.outLen = host.req.wLength
      <3>1. r = host.req /\ host.got = 0 /\ r.wLength > 0
        BY <1>3, <1>4, <2>1, <2>2 DEF Active, TransferInv, OutInv
      <3>2. QED
        BY <1>4, <1>9, <2>2, <3>1
    <2>3. QED
      BY <1>2, <2>2 DEF TransferInv, OutInv, Writing, Active
  <1>12. EndInv'
    <2>1. ASSUME host.stage = "statusIn", dev'.tx = "VALID"
          PROVE  dev'.pkt.len = 0 /\ dev'.outGot = host.req.wLength
      <3>1. r = host.req /\ r.wLength = 0
        BY <1>2, <1>3, <2>1 DEF Active, ControlInv, ReqInv
      <3>2. QED
        BY <1>4, <1>8, <2>1, <3>1
    <2>2. host.stage = "done" => ToHost(host.req)
      BY <1>2 DEF ControlInv, ReqInv
    <2>3. QED
      BY <1>2, <2>1, <2>2 DEF TransferInv, EndInv, DataExact
  <1>13. QED
    BY <1>10, <1>11, <1>12 DEF TransferInv

(* The handler takes data of the host. *)
LEMMA IsrOutData == ControlInv /\ TransferInv /\ Isr_Out => TransferInv'
  <1> SUFFICES ASSUME ControlInv, TransferInv, Isr_Out PROVE TransferInv'
    OBVIOUS
  <1> DEFINE n == Min(dev.outLen, MPS)
  <1>1. ControlType /\ dev \in Dev /\ host.got \in Nat
    BY ControlTypes DEF ControlInv
  <1>2. /\ irq.rx /\ ~irq.setup /\ ~irq'.rx /\ irq'.setup = irq.setup /\ irq'.tx = irq.tx
        /\ host' = host /\ dev' = USBD_CtrlOutProcess(Nak(dev))
    BY <1>1 DEF Isr_Out, ControlType
  <1>3. host.stage \notin {"dataIn", "statusOut"}
    BY <1>2 DEF ControlInv, FlowInv
  <1>4. /\ dev.outLen \in Nat /\ dev.outGot \in Nat /\ MPS \in Nat /\ MPS > 0
        /\ host.req.wLength \in Nat
    BY <1>1, ReqFacts, ControlTypes DEF Dev
  <1>5. /\ dev'.tx = "VALID" => dev'.pkt.len = 0
        /\ dev.ctrlState = "DATA_OUT" /\ dev.outPack > 1 =>
              /\ dev'.tx # "VALID" /\ dev'.outGot = dev.outGot + n
              /\ dev.outLen > n => /\ dev'.ctrlState = "DATA_OUT" /\ dev'.outLen = dev.outLen - n
                                   /\ dev'.outPack = Packets(dev.outLen - n)
        /\ dev.ctrlState = "DATA_OUT" /\ dev.outPack = 1 =>
              dev'.rx # "VALID" /\ dev'.outGot = dev.outGot + n
    BY <1>1, <1>2, OutProcessFacts
  <1>6. ASSUME ~ToHost(host.req), host.stage \in {"dataOut", "statusIn"}
        PROVE  /\ dev.ctrlState = "DATA_OUT" /\ dev.outLen > 0
               /\ dev.outGot + dev.outLen = host.req.wLength /\ host.got = dev.outGot + n
               /\ host.stage = "statusIn" <=> host.got = host.req.wLength
               /\ dev.outPack = Packets(dev.outLen)
    BY <1>2, <1>6 DEF TransferInv, OutInv, Writing
  <1>7. ASSUME ~ToHost(host.req), host.stage = "dataOut"
        PROVE  /\ dev'.ctrlState = "DATA_OUT" /\ dev'.outPack = Packets(dev'.outLen)
               /\ dev'.outGot = host.got /\ dev'.outGot + dev'.outLen = host.req.wLength
    <2>1. dev.outLen > MPS /\ n = MPS
      BY <1>4, <1>6, <1>7 DEF Min
    <2>2. dev.outPack > 1
      BY <1>4, <1>6, <1>7, <2>1, PacketsFacts
    <2>3. /\ dev'.outGot = dev.outGot + n /\ dev'.ctrlState = "DATA_OUT"
          /\ dev'.outLen = dev.outLen - n /\ dev'.outPack = Packets(dev.outLen - n)
      BY <1>5, <1>6, <1>7, <2>1, <2>2
    <2>4. (dev.outGot + n) + (dev.outLen - n) = dev.outGot + dev.outLen
      BY <1>4, <2>1
    <2>5. QED
      BY <1>6, <1>7, <2>3, <2>4
  <1>8. ASSUME ~ToHost(host.req), host.stage = "statusIn"
        PROVE  dev'.outGot = host.req.wLength
    <2>1. dev.outLen <= MPS
      BY <1>4, <1>6, <1>8 DEF Min
    <2>2. dev.outPack = 1
      BY <1>4, <1>6, <1>8, <2>1, PacketsFacts
    <2>3. QED
      BY <1>5, <1>6, <1>8, <2>2
  <1>9. InInv'
    BY <1>2, <1>3 DEF InInv
  <1>10. OutInv'
    BY <1>2, <1>7 DEF TransferInv, OutInv, Writing
  <1>11. EndInv'
    <2>1. host.stage = "done" => ToHost(host.req)
      BY <1>2 DEF ControlInv, ReqInv
    <2>2. QED
      BY <1>2, <1>3, <1>5, <1>8, <2>1 DEF TransferInv, EndInv, DataExact
  <1>12. QED
    BY <1>9, <1>10, <1>11 DEF TransferInv

(* Steps after which no transfer is under way. *)
LEMMA NoTransfer ==
    ASSUME host'.stage \in {"idle", "stalled"} PROVE TransferInv'
  BY DEF TransferInv, InInv, OutInv, EndInv, DataExact, Active

LEMMA SetupSentData ==
    ASSUME FastIsr, ControlInv, TransferInv, NEW r \in Reqs, SendSetup(r)
    PROVE  TransferInv'
  <1>1. /\ irq'.setup /\ irq'.rx /\ ~irq'.tx /\ dev'.tx = "NAK" /\ dev'.rx = "NAK"
        /\ host'.stage = FirstStage(r) /\ host'.req = r /\ host'.got = 0 /\ ~host'.bad
    BY SendSetupEffect
  <1>2. Total(r) \in Nat /\ 0 % MPS = 0 /\ r.wLength \in Nat
    BY TotalFacts, FullFacts
  <1>3. /\ FirstStage(r) \in {"dataIn", "dataOut", "statusIn"}
        /\ FirstStage(r) = "dataOut" => r.wLength > 0
    BY FirstStageFacts
  <1>4. InInv'
    BY <1>1, <1>2 DEF InInv
  <1>5. OutInv'
    BY <1>1, <1>2, <1>3 DEF OutInv, Writing
  <1>6. EndInv'
    BY <1>1, <1>3 DEF EndInv, DataExact
  <1>7. QED
    BY <1>4, <1>5, <1>6 DEF TransferInv

(* The host reads a packet of the answer, or the status. *)
LEMMA HostInData == ControlInv /\ TransferInv /\ HostIn => TransferInv'
  <1> SUFFICES ASSUME ControlInv, TransferInv, HostIn PROVE TransferInv'
    OBVIOUS
  <1> DEFINE T == Total(host.req)
             len == dev.pkt.len
             got == host.got + dev.pkt.len
  <1>1. /\ ControlType /\ dev \in Dev /\ host.req \in Reqs /\ len \in Nat /\ host.got \in Nat
        /\ MPS \in Nat /\ MPS > 0 /\ T \in Nat /\ T <= host.req.wLength
        /\ host.req.wLength \in Nat /\ (host.req.wLength = 0 => T = 0)
    BY ControlTypes, ReqFacts, TotalFacts DEF ControlInv
  <1>2. /\ host.stage \in {"dataIn", "statusIn"} /\ dev.tx = "VALID"
        /\ ~irq.rx /\ ~irq.tx /\ ~irq.setup /\ dev.req = host.req
    BY <1>1 DEF HostIn, ControlInv, ControlType, FlowInv, ReqInv, Active
  <1>3. /\ dev'.tx = "NAK" /\ dev'.req = dev.req /\ dev'.ctrlState = dev.ctrlState
        /\ dev'.pBuf = dev.pBuf /\ dev'.bufLen = dev.bufLen /\ dev'.packNum = dev.packNum
        /\ dev'.zeroPackFill = dev.zeroPackFill /\ dev'.outGot = dev.outGot
    BY <1>1 DEF HostIn, Dev
  <1>4. irq'.tx /\ ~irq'.rx /\ ~irq'.setup
    BY <1>1, <1>2 DEF HostIn, ControlType
  <1>5. CASE host.stage = "dataIn"
    <2>1. /\ ~host.bad /\ host.got <= T /\ host.got % MPS = 0 /\ len = Min(MPS, T - host.got)
          /\ len > 0 => dev.pkt.id = Id(host.req) /\ dev.pkt.off = host.got
          /\ len = MPS => Rest(host.got + MPS)
      BY <1>2, <1>5 DEF TransferInv, InInv
    <2>2. /\ host'.req = host.req /\ host'.got = got /\ ~host'.bad
          /\ host'.stage = IF len < MPS \/ got >= host.req.wLength THEN "statusOut" ELSE "dataIn"
      <3> DEFINE b == host.bad \/ ~(dev.pkt.len > 0 => (dev.pkt.id = Id(host.req) /\ dev.pkt.off = host.got))
                 st == IF len < MPS \/ got >= host.req.wLength THEN "statusOut" ELSE "dataIn"
      <3>1. host' = [host EXCEPT !.got = got, !.bad = b, !.stage = st]
        BY <1>5 DEF HostIn
      <3>2. ~b
        BY <2>1
      <3> HIDE DEF b, st
      <3>3. host'.req = host.req /\ host'.got = got /\ host'.bad = b /\ host'.stage = st
        BY <1>1, <3>1 DEF ControlType
      <3>4. QED
        BY <3>2, <3>3 DEF st
    <2>3. CASE len < MPS \/ got >= host.req.wLength
      <3>1. got = T
        BY <1>1, <2>1, <2>3 DEF Min
      <3>2. host'.stage = "statusOut"
        BY <2>2, <2>3
      <3>3. QED
        BY <1>4, <2>2, <3>1, <3>2 DEF TransferInv, InInv, OutInv, EndInv, DataExact, Writing
    <2>4. CASE ~(len < MPS \/ got >= host.req.wLength)
      <3>1. len = MPS /\ got <= T /\ got = host.got + MPS /\ got < host.req.wLength
        BY <1>1, <2>1, <2>4 DEF Min
      <3>2. got % MPS = 0
        BY <1>1, <2>1, <3>1, FullFacts
      <3>3. Rest(host.got)'
        BY <1>3, <2>1, <2>2, <3>1 DEF Rest
      <3>4. host'.stage = "dataIn"
        BY <2>2, <2>4
      <3>5. InInv'
        BY <1>3, <1>4, <2>2, <3>1, <3>2, <3>3 DEF InInv
      <3>6. OutInv' /\ EndInv'
        BY <1>4, <3>4 DEF OutInv, EndInv, DataExact, Writing
      <3>7. QED
        BY <3>5, <3>6 DEF TransferInv
    <2>5. QED
      BY <2>3, <2>4
  <1>6. CASE host.stage = "statusIn"
    <2>1. /\ ~host.bad /\ len = 0 /\ (ToHost(host.req) => host.got = 0 /\ T = 0)
          /\ ~ToHost(host.req) => dev.outGot = host.req.wLength
      BY <1>1, <1>2, <1>6 DEF TransferInv, EndInv, ControlInv, ReqInv
    <2>2. /\ host'.stage = "done" /\ host'.req = host.req /\ host'.got = host.got /\ ~host'.bad
      <3> DEFINE b == host.bad \/ dev.pkt.len # 0
                 a == IF SetsAddress(host.req) THEN host.req.size ELSE host.addr
      <3>1. host' = [host EXCEPT !.stage = "done", !.bad = b, !.addr = a]
        BY <1>6 DEF HostIn
      <3>2. ~b
        BY <2>1
      <3> HIDE DEF b, a
      <3>3. /\ host'.stage = "done" /\ host'.req = host.req /\ host'.got = host.got
            /\ host'.bad = b
        BY <1>1, <3>1 DEF ControlType
      <3>4. QED
        BY <3>2, <3>3
    <2>3. DataExact'
      BY <1>3, <2>1, <2>2 DEF DataExact, Total
    <2>4. QED
      BY <1>4, <2>2, <2>3 DEF TransferInv, InInv, OutInv, EndInv, Writing
  <1>7. QED
    BY <1>2, <1>5, <1>6

(* The host writes a packet of data, or the status. *)
LEMMA HostOutData == ControlInv /\ TransferInv /\ HostOut => TransferInv'
  <1> SUFFICES ASSUME ControlInv, TransferInv, HostOut PROVE TransferInv'
    OBVIOUS
  <1> DEFINE W == host.req.wLength
             out == Min(W, host.got + MPS)
  <1>1. /\ ControlType /\ dev \in Dev /\ host.req \in Reqs /\ host.got \in Nat
        /\ MPS \in Nat /\ MPS > 0 /\ W \in Nat /\ dev.outLen \in Nat /\ dev.outGot \in Nat
    BY ControlTypes, ReqFacts DEF ControlInv, Dev
  <1>2. /\ host.stage \in {"dataOut", "statusOut"} /\ dev.rx = "VALID" /\ dev.tx # "VALID"
        /\ ~irq.rx /\ ~irq.tx /\ ~irq.setup
    BY <1>1 DEF HostOut, ControlInv, ControlType, FlowInv
  <1>3. /\ dev'.rx = "NAK" /\ dev'.tx = dev.tx /\ dev'.ctrlState = dev.ctrlState
        /\ dev'.outLen = dev.outLen /\ dev'.outPack = dev.outPack /\ dev'.outGot = dev.outGot
    BY <1>1 DEF HostOut, Dev
  <1>4. irq'.rx /\ ~irq'.tx /\ ~irq'.setup
    BY <1>1, <1>2 DEF HostOut, ControlType
  <1>5. CASE host.stage = "dataOut"
    <2>1. /\ host'.req = host.req /\ host'.got = out /\ host'.bad = host.bad
          /\ host'.stage = IF out = W THEN "statusIn" ELSE "dataOut"
      BY <1>1, <1>5 DEF HostOut, ControlType
    <2>2. ~host.bad /\ host.got < W /\ ~ToHost(host.req)
      BY <1>5 DEF TransferInv, OutInv, ControlInv, ReqInv
    <2>3. out \in Nat /\ out <= W
      BY <1>1 DEF Min
    <2>4. ASSUME ~ToHost(host.req)
          PROVE  /\ dev.ctrlState = "DATA_OUT" /\ dev.outPack = Packets(dev.outLen)
                 /\ dev.outLen > 0 /\ dev.outGot + dev.outLen = W
                 /\ out = dev.outGot + Min(dev.outLen, MPS)
      <3>1. /\ dev.ctrlState = "DATA_OUT" /\ dev.outPack = Packets(dev.outLen)
            /\ dev.outGot = host.got /\ dev.outGot + dev.outLen = W
        BY <1>2, <1>5, <2>4 DEF TransferInv, OutInv, Writing
      <3>2. QED
        BY <1>1, <2>2, <3>1 DEF Min
    <2> HIDE DEF out
    <2>5. InInv'
      BY <2>1 DEF InInv
    <2>6. OutInv'
      <3>1. host'.stage = "dataOut" => ~host'.bad /\ host'.got < host'.req.wLength
        BY <1>1, <2>1, <2>2, <2>3
      <3>2. host'.stage = "statusIn" <=> host'.got = host'.req.wLength
        BY <2>1
      <3>3. QED
        BY <1>3, <1>4, <2>1, <2>4, <3>1, <3>2 DEF OutInv, Writing
    <2>7. EndInv'
      BY <1>2, <1>3, <2>1, <2>2 DEF EndInv, DataExact
    <2>8. QED
      BY <2>5, <2>6, <2>7 DEF TransferInv
  <1>6. CASE host.stage = "statusOut"
    <2>1. /\ host'.stage = "done" /\ host'.req = host.req /\ host'.got = host.got
          /\ host'.bad = host.bad
      BY <1>1, <1>6 DEF HostOut, ControlType
    <2>2. ~host.bad /\ host.got = Total(host.req) /\ ToHost(host.req)
      BY <1>6 DEF TransferInv, EndInv, ControlInv, ReqInv
    <2>3. QED
      BY <1>4, <2>1, <2>2 DEF TransferInv, InInv, OutInv, EndInv, DataExact,
         Writing, Total
  <1>7. QED
    BY <1>2, <1>5, <1>6

(* A step of the handler, the host or the bus. *)
LEMMA TransferNext ==
    ASSUME FastIsr, ProperRequests, ControlInv, TransferInv, [Next]_vars PROVE TransferInv'
  <1>1. CASE \E r \in Requests : Start(r) \/ Abort(r)
    <2>1. PICK r \in Requests : Start(r) \/ Abort(r)
      BY <1>1
    <2>2. SendSetup(r) /\ r \in Reqs
      BY <2>1 DEF Start, Abort, Reqs
    <2>3. QED
      BY <2>2, SetupSentData
  <1>2. CASE Timeout
    BY <1>2, SetupSentData, ControlTypes DEF Timeout, ControlInv
  <1>3. CASE Isr_Reset
    <2>1. host' = host /\ host.stage \notin {"dataIn", "dataOut", "statusIn", "statusOut", "done"}
      BY <1>3 DEF Isr_Reset, ControlInv, FlowInv, Active
    <2>2. host.stage \in {"idle", "stalled"}
      BY <2>1 DEF ControlInv, ControlType, Stages
    <2>3. QED
      BY <2>1, <2>2, NoTransfer
  <1>4. CASE HostStalled \/ BusReset
    <2>1. host'.stage \in {"idle", "stalled"}
      BY <1>4 DEF HostStalled, BusReset, ControlInv, ControlType
    <2>2. QED
      BY <2>1, NoTransfer
  <1>5. CASE UNCHANGED vars
    BY <1>5 DEF vars, TransferInv, InInv, OutInv, EndInv, DataExact, Rest, Writing, Active
  <1>6. QED
    BY <1>1, <1>2, <1>3, <1>4, <1>5, IsrInData, IsrSetupData, IsrOutData, HostInData,
       HostOutData
       DEF Next, Isr, Host

(* A transfer that ended well has carried exactly its own bytes, for every *)
(* size of packet and set of proper requests: what an abandoned transfer   *)
(* left in g_usbDev (packets to send, the pending zero packet, bytes to    *)
(* receive) never reaches the host of a later one.                         *)
THEOREM TransfersExact ==
    ASSUME FastIsr, ProperRequests PROVE Spec => []DataExact
  <1>1. ControlInv /\ [Next]_vars => ControlInv'
    BY ControlNext
  <1>2. ControlInv /\ TransferInv /\ [Next]_vars => TransferInv'
    BY TransferNext
  <1>3. TransferInv => DataExact
    BY DEF TransferInv, EndInv
  <1>4. QED
    BY <1>1, <1>2, <1>3, ControlInit, TransferInit, PTL DEF Spec
=============================================================================
