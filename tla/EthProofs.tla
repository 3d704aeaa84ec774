----------------------------- MODULE EthProofs -----------------------------
(***************************************************************************)
(* Proofs about the transmit ring (EthTx), about the PHY set-up (EthPhy)   *)
(* and about the receive ring (EthRx).  They share no state and no proof.  *)
(***************************************************************************)
EXTENDS EthTx, EthRx, EthPhy, SequenceTheorems, TLAPS

(***************************************************************************)
(* Proofs about EthTx, for every length of the ring, every number of       *)
(* buffers a frame needs and any number of frames: with a caller that      *)
(* looks at OWN first, the driver never writes a descriptor the DMA engine *)
(* owns, and the ring implements FrameQueue.                               *)
(*                                                                         *)
(* The descriptors the engine owns are the m that follow the engine's own  *)
(* position, up to the one the driver fills next.  Along them the parts of *)
(* the frames follow each other without a gap, from the part the engine    *)
(* sends next to the part the driver fills next.                           *)
(***************************************************************************)

(* How far b lies behind a on the ring. *)
Dist(a, b) == IF b >= a THEN b - a ELSE b - a + ETH_TXBUFNB

(* The descriptor and the part that are filled next. *)
ToFill == IF cpu.at = "fill" THEN cpu.d ELSE DMATxDescToSet
Calling == cpu.at \in {"enter", "fill"}
FrameToFill == IF Calling THEN Len(queued) ELSE Len(queued) + 1
PartToFill == IF Calling THEN cpu.i + 1 ELSE 1

(* The type of the state, with mac as a record. *)
MacType == mac \in [at : {"run", "fetched", "suspended"}, d : Ring, parts : Seq(Part)]
TxType == TypeOK /\ MacType

(* The call under way: the descriptors it has still to fill are free and    *)
(* hold its frame.                                                         *)
CallInv ==
    Calling =>
       /\ Len(queued) > 0 /\ cpu.count = queued[Len(queued)]
       /\ cpu.i < cpu.count /\ (cpu.at = "enter" => cpu.i = 0)
       /\ \A d \in Ring : Dist(ToFill, d) < cpu.count - cpu.i =>
             ~desc[d].OWN /\ desc[d].buf = <<Len(queued), cpu.i + Dist(ToFill, d) + 1>>

(* The engine owns the m descriptors from its position on. *)
Window(m) ==
    /\ \A d \in Ring : desc[d].OWN <=> Dist(mac.d, d) < m
    /\ m < ETH_TXBUFNB => Dist(mac.d, ToFill) = m
    /\ m = ETH_TXBUFNB => ToFill = mac.d

(* What they hold: parts of frames handed over, marked as first and last,  *)
(* not more frames than descriptors.                                       *)
Marked(m) ==
    \A d \in Ring : Dist(mac.d, d) < m =>
       \E f \in 1..Handed : \E p \in 1..queued[f] :
          /\ desc[d].buf = <<f, p>>
          /\ desc[d].FS <=> p = 1
          /\ desc[d].LS <=> p = queued[f]
          /\ FrameToFill - f <= m - Dist(mac.d, d)

(* Part q of frame g comes after part p of frame f. *)
Follows(f, p, g, q) ==
    /\ p < queued[f] => g = f /\ q = p + 1
    /\ p = queued[f] => g = f + 1 /\ q = 1

Chain(m) ==
    /\ \A d \in Ring : Dist(mac.d, d) + 1 < m =>
          Follows(desc[d].buf[1], desc[d].buf[2],
                  desc[NextDesc(d)].buf[1], desc[NextDesc(d)].buf[2])
    /\ \A d \in Ring : Dist(mac.d, d) + 1 = m =>
          Follows(desc[d].buf[1], desc[d].buf[2], FrameToFill, PartToFill)

(* The engine's place in the frames. *)
Place(m) ==
    /\ mac.parts = WholeFrame(Len(sent) + 1, Len(mac.parts))
    /\ m > 0 => desc[mac.d].buf = <<Len(sent) + 1, Len(mac.parts) + 1>>
    /\ m = 0 => FrameToFill = Len(sent) + 1 /\ PartToFill = Len(mac.parts) + 1

RingInv(m) == Window(m) /\ Marked(m) /\ Chain(m) /\ Place(m)

TxInv == TxType /\ CallInv /\ \E m \in 0..ETH_TXBUFNB : RingInv(m)

-----------------------------------------------------------------------------
(* Functions as sequences, and what follows the head. *)
LEMMA SeqOfFunction ==
    ASSUME NEW n \in Nat, NEW T, NEW q \in [1..n -> T]
    PROVE  q \in Seq(T) /\ Len(q) = n
  OBVIOUS

LEMMA SeqTail ==
    ASSUME NEW T, NEW q \in Seq(T), q # << >>
    PROVE  Tail(q) = [k \in 1..(Len(q) - 1) |-> q[k + 1]]
  <1> DEFINE t == [k \in 1..(Len(q) - 1) |-> q[k + 1]]
  <1>1. Len(q) \in Nat /\ Len(q) > 0
    BY EmptySeq
  <1>2. \A k \in 1..(Len(q) - 1) : q[k + 1] \in T
    BY <1>1
  <1>3. t \in Seq(T) /\ Len(t) = Len(q) - 1
    BY <1>1, <1>2
  <1>4. Tail(q) \in Seq(T) /\ Len(Tail(q)) = Len(q) - 1
    BY HeadTailProperties
  <1>5. \A k \in 1..Len(t) : Tail(q)[k] = t[k]
    BY <1>3, HeadTailProperties
  <1> HIDE DEF t
  <1>6. Tail(q) = t
    BY <1>3, <1>4, <1>5, SeqEqual
  <1>7. QED
    BY <1>6 DEF t

(* The geometry of the ring. *)
LEMMA RingFacts ==
    /\ ETH_TXBUFNB \in Nat \ {0} /\ MaxBufs \in Nat \ {0} /\ MaxBufs <= ETH_TXBUFNB
    /\ MaxFrames \in Nat /\ 0 \in Ring
    /\ \A d : d \in Ring <=> d \in Nat /\ d < ETH_TXBUFNB
  BY EthTxAssumption DEF Ring

LEMMA DistFacts ==
    ASSUME NEW a \in Ring, NEW b \in Ring
    PROVE  /\ Dist(a, b) \in Nat /\ Dist(a, b) < ETH_TXBUFNB
           /\ Dist(a, b) = 0 <=> a = b
           /\ NextDesc(a) \in Ring
           /\ a # b => Dist(NextDesc(a), b) = Dist(a, b) - 1
           /\ Dist(NextDesc(a), a) = ETH_TXBUFNB - 1
           /\ Dist(a, b) < ETH_TXBUFNB - 1 => Dist(a, NextDesc(b)) = Dist(a, b) + 1
           /\ Dist(a, b) = ETH_TXBUFNB - 1 => NextDesc(b) = a
  BY RingFacts DEF Dist, NextDesc

(* Two descriptors equally far are the same. *)
LEMMA DistUnique ==
    ASSUME NEW a \in Ring, NEW b \in Ring, NEW c \in Ring, Dist(a, b) = Dist(a, c)
    PROVE  b = c
  BY RingFacts DEF Dist

(* The descriptor after one of the first m. *)
LEMMA Step ==
    ASSUME NEW m \in 0..ETH_TXBUFNB, NEW a \in Ring, NEW d \in Ring
    PROVE  /\ Dist(a, d) + 1 < m =>
                 /\ NextDesc(d) \in Ring /\ Dist(a, NextDesc(d)) = Dist(a, d) + 1
                 /\ Dist(a, NextDesc(d)) < m /\ Dist(a, d) < m
           /\ Dist(a, d) + 1 = m => Dist(a, d) < m
  <1>1. /\ Dist(a, d) \in Nat /\ Dist(a, d) < ETH_TXBUFNB /\ NextDesc(d) \in Ring
        /\ Dist(a, d) < ETH_TXBUFNB - 1 => Dist(a, NextDesc(d)) = Dist(a, d) + 1
    BY DistFacts
  <1>2. QED
    BY <1>1, RingFacts

(* The remainder in Ahead, without a division. *)
LEMMA AheadIsDist ==
    ASSUME NEW a \in Ring, NEW b \in Ring
    PROVE  (b + ETH_TXBUFNB - a) % ETH_TXBUFNB = Dist(a, b)
  <1> DEFINE n == ETH_TXBUFNB
  <1>0. a \in Nat /\ b \in Nat /\ a < n /\ b < n /\ n \in Nat /\ n > 0
    BY RingFacts
  <1>1. CASE b >= a
    <2>1. b + n - a = (b - a) + n /\ b - a \in 0..n-1
      BY <1>0, <1>1
    <2>2. ((b - a) + n) % n = b - a
      BY <1>0, <2>1
    <2>3. QED BY <1>1, <2>1, <2>2 DEF Dist
  <1>2. CASE b < a
    <2>1. b + n - a \in 0..n-1
      BY <1>0, <1>2
    <2>2. (b + n - a) % n = b + n - a
      BY <1>0, <2>1
    <2>3. QED BY <1>0, <1>2, <2>2 DEF Dist
  <1>3. QED BY <1>0, <1>1, <1>2

-----------------------------------------------------------------------------
(* A driver that is not in a call. *)
LEMMA IdleOK ==
    Idle \in [at : {"idle", "enter", "fill", "resume"}, d : Ring,
              i : 0..MaxBufs, count : 0..MaxBufs]
  <1>1. 0 \in Ring /\ 0 \in 0..MaxBufs
    BY RingFacts
  <1>2. QED
    BY <1>1 DEF Idle

(* The initial states: the engine owns nothing. *)
LEMMA TxInit == Init => TxInv
  <1> SUFFICES ASSUME Init PROVE TxInv
    OBVIOUS
  <1>1. TxType
    <2>1. desc \in [Ring -> Bits] /\ DMATxDescToSet \in Ring /\ TXBU \in BOOLEAN
      BY RingFacts DEF Init, Bits, NoPart
    <2>2. cpu \in [at : {"idle", "enter", "fill", "resume"}, d : Ring,
                   i : 0..MaxBufs, count : 0..MaxBufs]
      BY IdleOK DEF Init
    <2>3. MacType /\ queued \in Seq(1..MaxBufs) /\ sent \in Seq(Seq(Part))
      BY RingFacts DEF Init, MacType
    <2>4. QED
      BY <2>1, <2>2, <2>3 DEF TxType, TypeOK, MacType
  <1>2. CallInv
    BY DEF Init, CallInv, Calling, Idle
  <1>3. RingInv(0)
    <2>1. mac.d = 0 /\ mac.parts = << >> /\ ToFill = 0 /\ FrameToFill = 1 /\ PartToFill = 1
          /\ \A d \in Ring : ~desc[d].OWN
      BY DEF Init, Idle, ToFill, FrameToFill, PartToFill, Calling
    <2>2. \A d \in Ring : Dist(0, d) \in Nat
      BY RingFacts, DistFacts
    <2>3. Dist(0, 0) = 0 /\ ETH_TXBUFNB # 0
      BY RingFacts DEF Dist
    <2>4. Window(0) /\ Marked(0) /\ Chain(0)
      BY <2>1, <2>2, <2>3 DEF Window, Marked, Chain
    <2>5. Place(0)
      BY <2>1 DEF Init, Place, WholeFrame
    <2>6. QED
      BY <2>4, <2>5 DEF RingInv
  <1>4. QED
    BY <1>1, <1>2, <1>3, RingFacts DEF TxInv

(* What the steps use of the type. *)
LEMMA TxTypes ==
    ASSUME TxType
    PROVE  /\ desc \in [Ring -> Bits] /\ DMATxDescToSet \in Ring /\ cpu.d \in Ring
           /\ cpu.i \in Nat /\ cpu.count \in 0..MaxBufs
           /\ mac.d \in Ring /\ mac.parts \in Seq(Part) /\ Len(mac.parts) \in Nat
           /\ queued \in Seq(1..MaxBufs) /\ Len(queued) \in Nat
           /\ sent \in Seq(Seq(Part)) /\ Len(sent) \in Nat
           /\ ToFill \in Ring
  BY DEF TxType, TypeOK, MacType, ToFill

(* A step that moves neither the ring nor a pointer. *)
LEMMA RingSame ==
    ASSUME NEW m, RingInv(m), UNCHANGED <<desc, queued, sent>>,
           mac'.d = mac.d, mac'.parts = mac.parts, ToFill' = ToFill,
           FrameToFill' = FrameToFill, PartToFill' = PartToFill, Handed' = Handed
    PROVE  RingInv(m)'
  BY DEF RingInv, Window, Marked, Chain, Place, Follows, WholeFrame

(* The test of OWN never succeeds, so the call goes on to fill. *)
LEMMA EnterInv == TxInv /\ Transmit_Enter => TxInv'
  <1> SUFFICES ASSUME TxInv, Transmit_Enter PROVE TxInv'
    OBVIOUS
  <1>1. PICK m \in 0..ETH_TXBUFNB : RingInv(m)
    BY DEF TxInv
  <1>2. ~OwnTest(DMATxDescToSet)
    BY DEF OwnTest
  <1>3. cpu.at = "enter" /\ cpu' = [cpu EXCEPT !.at = "fill", !.d = DMATxDescToSet]
    BY <1>2 DEF Transmit_Enter
  <1>4. /\ cpu'.at = "fill" /\ cpu'.d = DMATxDescToSet /\ cpu'.i = cpu.i
        /\ cpu'.count = cpu.count
    BY <1>3 DEF TxInv, TxType, TypeOK
  <1>5. TxType'
    BY <1>3 DEF Transmit_Enter, TxInv, TxType, TypeOK, MacType
  <1>6. ToFill' = ToFill /\ FrameToFill' = FrameToFill /\ PartToFill' = PartToFill
    BY <1>3, <1>4 DEF Transmit_Enter, ToFill, FrameToFill, PartToFill, Calling
  <1>7. Handed' = Handed
    BY <1>3, <1>4 DEF Transmit_Enter, Handed, TxInv, CallInv, Calling
  <1>8. RingInv(m)'
    BY <1>1, <1>6, <1>7, RingSame DEF Transmit_Enter
  <1>9. CallInv'
    BY <1>3, <1>4, <1>6 DEF Transmit_Enter, TxInv, CallInv, Calling
  <1>10. QED
    BY <1>5, <1>8, <1>9 DEF TxInv

(* The end of the call, and the engine that finds nothing to send. *)
LEMMA ResumeInv == TxInv /\ Transmit_Resume => TxInv'
  <1> SUFFICES ASSUME TxInv, Transmit_Resume PROVE TxInv'
    OBVIOUS
  <1>1. PICK m \in 0..ETH_TXBUFNB : RingInv(m)
    BY DEF TxInv
  <1>2. mac'.d = mac.d /\ mac'.parts = mac.parts /\ MacType'
    BY DEF Transmit_Resume, TxInv, TxType, MacType
  <1>3. TxType'
    BY <1>2, IdleOK DEF Transmit_Resume, TxInv, TxType, TypeOK, MacType
  <1>4. cpu.at = "resume" /\ cpu'.at = "idle"
    BY DEF Transmit_Resume, Idle
  <1>5. /\ ToFill' = ToFill /\ FrameToFill' = FrameToFill /\ PartToFill' = PartToFill
        /\ Handed' = Handed
    BY <1>4 DEF Transmit_Resume, ToFill, FrameToFill, PartToFill, Calling, Handed
  <1>6. RingInv(m)'
    BY <1>1, <1>2, <1>5, RingSame DEF Transmit_Resume
  <1>7. CallInv'
    BY <1>4 DEF CallInv, Calling
  <1>8. QED
    BY <1>3, <1>6, <1>7 DEF TxInv

LEMMA StopInv == TxInv /\ (Mac_Fetch \/ Mac_Suspend \/ UNCHANGED vars) => TxInv'
  <1> SUFFICES ASSUME TxInv, Mac_Fetch \/ Mac_Suspend \/ UNCHANGED vars PROVE TxInv'
    OBVIOUS
  <1>1. PICK m \in 0..ETH_TXBUFNB : RingInv(m)
    BY DEF TxInv
  <1>2. /\ mac'.d = mac.d /\ mac'.parts = mac.parts /\ MacType'
        /\ UNCHANGED <<desc, DMATxDescToSet, cpu, queued, sent>> /\ TXBU' \in BOOLEAN
    BY DEF Mac_Fetch, Mac_Suspend, vars, TxInv, TxType, TypeOK, MacType
  <1>3. TxType'
    BY <1>2 DEF TxInv, TxType, TypeOK, MacType
  <1>4. /\ ToFill' = ToFill /\ FrameToFill' = FrameToFill /\ PartToFill' = PartToFill
        /\ Handed' = Handed
    BY <1>2 DEF ToFill, FrameToFill, PartToFill, Calling, Handed
  <1>5. RingInv(m)'
    BY <1>1, <1>2, <1>4, RingSame
  <1>6. CallInv'
    BY <1>2, <1>4 DEF TxInv, CallInv, Calling
  <1>7. QED
    BY <1>3, <1>5, <1>6 DEF TxInv

-----------------------------------------------------------------------------
(* The caller writes a frame into free buffers: what the engine owns is    *)
(* not touched.                                                            *)
LEMMA FillBuffersInv ==
    ASSUME CallerChecks, TxInv, NEW n \in 1..MaxBufs, FillBuffers(n) PROVE TxInv'
  <1>1. PICK m \in 0..ETH_TXBUFNB : RingInv(m)
    BY DEF TxInv
  <1> DEFINE L == Len(queued)
  <1>2. TxType /\ n \in Nat /\ n <= MaxBufs /\ n > 0
    BY RingFacts DEF TxInv
  <1>3. cpu.at = "idle" /\ ToFill = DMATxDescToSet
    BY DEF FillBuffers, ToFill
  <1>4. \A d \in Ring : Ahead(d) = Dist(ToFill, d)
    BY <1>2, <1>3, AheadIsDist, TxTypes DEF Ahead
  <1>5. queued' = Append(queued, n) /\ Len(queued') = L + 1 /\ L \in Nat
    BY <1>2, TxTypes DEF FillBuffers
  <1>6. /\ cpu' = [at |-> "enter", d |-> 0, i |-> 0, count |-> n]
        /\ UNCHANGED <<DMATxDescToSet, TXBU, mac, sent>>
    BY DEF FillBuffers, Idle
  <1>7. \A d \in Ring :
           /\ desc'[d].OWN = desc[d].OWN /\ desc'[d].FS = desc[d].FS /\ desc'[d].LS = desc[d].LS
           /\ Dist(ToFill, d) < n => ~desc[d].OWN /\ desc'[d].buf = <<L + 1, Dist(ToFill, d) + 1>>
           /\ ~(Dist(ToFill, d) < n) => desc'[d] = desc[d]
    BY <1>2, <1>4, <1>5, TxTypes DEF FillBuffers, Bits
  <1>8. ToFill' = ToFill /\ FrameToFill = L + 1 /\ FrameToFill' = L + 1
        /\ PartToFill = 1 /\ PartToFill' = 1
    BY <1>3, <1>5, <1>6 DEF ToFill, FrameToFill, PartToFill, Calling
  <1>9. Handed = L /\ Handed' = L
    BY <1>3, <1>5, <1>6 DEF Handed
  <1>10. \A f \in 1..L : queued'[f] = queued[f]
    BY <1>2, <1>5, TxTypes
  <1>11. TxType'
    <2>1. desc' \in [Ring -> Bits]
      <3>1. L + 1 \in 1..MaxFrames
        BY <1>5, RingFacts DEF FillBuffers
      <3>2. \A d \in Ring : Ahead(d) < n => <<L + 1, Ahead(d) + 1>> \in Part
        <4> SUFFICES ASSUME NEW d \in Ring, Ahead(d) < n PROVE <<L + 1, Ahead(d) + 1>> \in Part
          OBVIOUS
        <4>0. Dist(ToFill, d) \in Nat
          BY <1>2, DistFacts, TxTypes
        <4>1. Ahead(d) \in Nat
          BY <1>4, <4>0
        <4>2. Ahead(d) + 1 \in 1..MaxBufs
          BY <1>2, <4>1, RingFacts
        <4>3. QED
          BY <3>1, <4>2 DEF Part
      <3>3. QED
        BY <1>2, <1>5, <3>2, TxTypes DEF FillBuffers, Bits
    <2>2. queued' \in Seq(1..MaxBufs)
      BY <1>2, <1>5, TxTypes
    <2>3. QED
      BY <1>2, <1>6, <2>1, <2>2, RingFacts DEF TxType, TypeOK, MacType
  <1>12. CallInv'
    <2>1. cpu'.i = 0 /\ cpu'.count = n /\ Len(queued') = L + 1 /\ queued'[L + 1] = n
      BY <1>2, <1>5, <1>6, TxTypes
    <2>2. \A d \in Ring : Dist(ToFill, d) < n - 0 =>
             ~desc'[d].OWN /\ desc'[d].buf = <<L + 1, 0 + Dist(ToFill, d) + 1>>
      <3> SUFFICES ASSUME NEW d \in Ring, Dist(ToFill, d) < n - 0
                   PROVE  ~desc'[d].OWN /\ desc'[d].buf = <<L + 1, 0 + Dist(ToFill, d) + 1>>
        OBVIOUS
      <3>1. Dist(ToFill, d) \in Nat
        BY <1>2, DistFacts, TxTypes
      <3>2. QED
        BY <1>2, <1>7, <3>1
    <2>3. QED
      BY <1>2, <1>5, <1>8, <2>1, <2>2 DEF CallInv
  <1>13. RingInv(m)'
    <2>1. Window(m)'
      BY <1>1, <1>6, <1>7, <1>8 DEF RingInv, Window
    <2>2. \A d \in Ring : Dist(mac.d, d) < m => desc'[d] = desc[d]
      BY <1>1, <1>7 DEF RingInv, Window
    <2>3. Marked(m)'
      BY <1>1, <1>6, <1>8, <1>9, <1>10, <2>2 DEF RingInv, Marked
    <2>4. \A d \in Ring : Dist(mac.d, d) < m => queued'[desc[d].buf[1]] = queued[desc[d].buf[1]]
      BY <1>1, <1>9, <1>10 DEF RingInv, Marked
    <2>5. Chain(m)'
      <3>1. \A d \in Ring : Dist(mac.d, d) + 1 < m =>
               NextDesc(d) \in Ring /\ Dist(mac.d, NextDesc(d)) < m /\ Dist(mac.d, d) < m
        BY <1>2, TxTypes, Step
      <3>2. \A d \in Ring : Dist(mac.d, d) + 1 = m => Dist(mac.d, d) < m
        BY <1>2, TxTypes, Step
      <3>3. QED
        BY <1>1, <1>6, <1>8, <2>2, <2>4, <3>1, <3>2 DEF RingInv, Chain, Follows
    <2>6. Place(m)'
      <3>1. m > 0 => desc'[mac.d] = desc[mac.d]
        BY <1>2, <2>2, TxTypes, DistFacts
      <3>2. QED
        BY <1>1, <1>6, <1>8, <3>1 DEF RingInv, Place, WholeFrame
    <2>7. QED
      BY <2>1, <2>3, <2>5, <2>6 DEF RingInv
  <1>14. QED
    BY <1>11, <1>12, <1>13 DEF TxInv

-----------------------------------------------------------------------------
(* The driver fills the next descriptor, which is free, and hands it over: *)
(* the window grows by one.                                                *)
LEMMA FillInv == TxInv /\ Transmit_Fill => TxInv'
  <1> SUFFICES ASSUME TxInv, Transmit_Fill PROVE TxInv'
    OBVIOUS
  <1>1. PICK m \in 0..ETH_TXBUFNB : RingInv(m)
    BY DEF TxInv
  <1> DEFINE L == Len(queued)
             w == cpu.d
             i == cpu.i
             c == cpu.count
  <1>2. TxType /\ cpu.at = "fill" /\ ToFill = w /\ Calling
    BY DEF Transmit_Fill, TxInv, ToFill, Calling
  <1>3. /\ w \in Ring /\ mac.d \in Ring /\ L \in Nat /\ L > 0 /\ i \in Nat /\ c \in Nat
        /\ c <= MaxBufs /\ i < c /\ queued[L] = c /\ Len(sent) \in Nat /\ m \in Nat
        /\ m <= ETH_TXBUFNB /\ Len(mac.parts) \in Nat
    BY <1>2, TxTypes, RingFacts DEF TxInv, CallInv
  <1>4. ~desc[w].OWN /\ desc[w].buf = <<L, i + 1>>
    <2>1. Dist(w, w) = 0
      BY <1>3, DistFacts
    <2>2. QED
      BY <1>2, <1>3, <2>1 DEF TxInv, CallInv
  <1>5. m < ETH_TXBUFNB /\ Dist(mac.d, w) = m
    <2>1. Dist(mac.d, w) < ETH_TXBUFNB
      BY <1>3, DistFacts
    <2>2. ~(Dist(mac.d, w) < m)
      BY <1>1, <1>3, <1>4 DEF RingInv, Window
    <2>3. m # ETH_TXBUFNB
      BY <2>1, <2>2
    <2>4. QED
      BY <1>1, <1>2, <1>3, <2>3, RingFacts DEF RingInv, Window
  <1>51. \A d \in Ring :
           /\ Dist(mac.d, d) \in Nat /\ Dist(mac.d, d) < ETH_TXBUFNB /\ NextDesc(d) \in Ring
           /\ Dist(mac.d, d) = 0 <=> mac.d = d
           /\ Dist(mac.d, d) < ETH_TXBUFNB - 1 => Dist(mac.d, NextDesc(d)) = Dist(mac.d, d) + 1
           /\ Dist(mac.d, d) = ETH_TXBUFNB - 1 => NextDesc(d) = mac.d
    BY <1>3, DistFacts
  <1>52. \A d \in Ring : Dist(mac.d, d) = m => d = w
    BY <1>3, <1>5, DistUnique
  <1>6. /\ \A d \in Ring : d # w => desc'[d] = desc[d]
        /\ desc'[w].OWN /\ desc'[w].buf = <<L, i + 1>>
        /\ desc'[w].FS <=> i = 0
        /\ desc'[w].LS <=> i = c - 1
        /\ desc' \in [Ring -> Bits]
    <2> DEFINE b == FilledStatus(desc[w])
    <2>1. desc' = [desc EXCEPT ![w] = b] /\ desc \in [Ring -> Bits] /\ desc[w] \in Bits
      BY <1>2, <1>3, TxTypes DEF Transmit_Fill
    <2>2. (cpu.i = 0) \in BOOLEAN /\ (cpu.i = cpu.count - 1) \in BOOLEAN
      OBVIOUS
    <2>3. b \in Bits
      BY <2>1, <2>2, Zenon DEF FilledStatus, Bits
    <2>4. b.OWN /\ (b.FS <=> i = 0) /\ (b.LS <=> i = c - 1) /\ b.buf = desc[w].buf
      BY <2>1 DEF FilledStatus, Bits
    <2> HIDE DEF b
    <2>5. QED
      BY <1>3, <1>4, <2>1, <2>3, <2>4
  <1>7. /\ ToFill' = NextDesc(w) /\ UNCHANGED <<TXBU, mac, queued, sent>>
        /\ cpu'.i = i + 1 /\ cpu'.count = c
        /\ cpu'.at = IF i = c - 1 THEN "resume" ELSE "fill"
    BY <1>2 DEF Transmit_Fill, ToFill, TxType, TypeOK
  <1>8. /\ FrameToFill = L /\ PartToFill = i + 1
        /\ i = c - 1 => FrameToFill' = L + 1 /\ PartToFill' = 1
        /\ i # c - 1 => FrameToFill' = L /\ PartToFill' = i + 2
    BY <1>2, <1>3, <1>7 DEF FrameToFill, PartToFill, Calling
  <1>9. Handed' = L /\ Handed \in Nat /\ Handed <= L
    BY <1>2, <1>3, <1>7 DEF Handed
  <1>10. TxType'
    <2>1. NextDesc(w) \in Ring /\ i + 1 \in 0..MaxBufs
      BY <1>3, <1>51, RingFacts, SMTT(20)
    <2>2. cpu' \in [at : {"idle", "enter", "fill", "resume"}, d : Ring,
                    i : 0..MaxBufs, count : 0..MaxBufs]
      BY <1>2, <2>1 DEF Transmit_Fill, TxType, TypeOK
    <2>3. DMATxDescToSet' \in Ring
      BY <1>2, <2>1, TxTypes DEF Transmit_Fill
    <2>4. QED
      BY <1>2, <1>6, <1>7, <2>2, <2>3 DEF TxType, TypeOK, MacType
  <1>11. CallInv'
    <2> SUFFICES ASSUME i # c - 1 PROVE CallInv'
      BY <1>7 DEF CallInv, Calling
    <2>1. ASSUME NEW d \in Ring, Dist(NextDesc(w), d) < c - (i + 1)
          PROVE  ~desc'[d].OWN /\ desc'[d].buf = <<L, (i + 1) + Dist(NextDesc(w), d) + 1>>
      <3>1. Dist(NextDesc(w), w) = ETH_TXBUFNB - 1
        BY <1>3, DistFacts
      <3>2. d # w
        BY <1>3, <2>1, <3>1, RingFacts
      <3>3. Dist(NextDesc(w), d) = Dist(w, d) - 1 /\ Dist(w, d) \in Nat
        BY <1>3, <3>2, DistFacts
      <3>4. Dist(w, d) < c - i
        BY <1>3, <2>1, <3>3
      <3>5. ~desc[d].OWN /\ desc[d].buf = <<L, i + Dist(w, d) + 1>>
        BY <1>2, <3>4 DEF TxInv, CallInv
      <3>6. (i + 1) + Dist(NextDesc(w), d) + 1 = i + Dist(w, d) + 1
        BY <1>3, <3>3
      <3>7. QED
        BY <1>6, <3>2, <3>5, <3>6
    <2>2. QED
      BY <1>3, <1>7, <2>1 DEF CallInv, Calling
  <1>12. RingInv(m + 1)'
    <2>1. Window(m + 1)'
      <3>1. ASSUME NEW d \in Ring PROVE desc'[d].OWN <=> Dist(mac.d, d) < m + 1
        <4>1. CASE d = w
          BY <1>3, <1>5, <1>6, <4>1
        <4>2. CASE d # w
          <5>1. Dist(mac.d, d) # m /\ Dist(mac.d, d) \in Nat
            BY <1>51, <1>52, <4>2
          <5>2. desc[d].OWN <=> Dist(mac.d, d) < m
            BY <1>1 DEF RingInv, Window
          <5>3. QED
            BY <1>3, <1>6, <4>2, <5>1, <5>2
        <4>3. QED BY <4>1, <4>2
      <3>2. m + 1 < ETH_TXBUFNB => Dist(mac.d, NextDesc(w)) = m + 1
        BY <1>3, <1>5, <1>51, RingFacts, SMTT(20)
      <3>3. m + 1 = ETH_TXBUFNB => NextDesc(w) = mac.d
        BY <1>3, <1>5, <1>51, RingFacts
      <3>4. QED
        BY <1>7, <3>1, <3>2, <3>3 DEF Window
    <2>2. Marked(m + 1)'
      <3> SUFFICES ASSUME NEW d \in Ring, Dist(mac.d, d) < m + 1
                   PROVE  \E f \in 1..Handed' : \E p \in 1..queued[f] :
                             /\ desc'[d].buf = <<f, p>>
                             /\ desc'[d].FS <=> p = 1
                             /\ desc'[d].LS <=> p = queued[f]
                             /\ FrameToFill' - f <= (m + 1) - Dist(mac.d, d)
        BY <1>7, Zenon DEF Marked
      <3>1. CASE d = w
        <4>1. FrameToFill' - L <= (m + 1) - Dist(mac.d, d)
          BY <1>3, <1>5, <1>8, <3>1
        <4>2. L \in 1..Handed' /\ i + 1 \in 1..queued[L]
          BY <1>3, <1>9
        <4>3. (i = 0 <=> i + 1 = 1) /\ (i = c - 1 <=> i + 1 = queued[L])
          BY <1>3
        <4>4. QED
          BY <1>6, <3>1, <4>1, <4>2, <4>3
      <3>2. CASE d # w
        <4>1. Dist(mac.d, d) # m /\ Dist(mac.d, d) \in Nat
          BY <1>51, <1>52, <3>2
        <4>2. Dist(mac.d, d) < m
          BY <1>3, <4>1
        <4>3. PICK f \in 1..Handed : \E p \in 1..queued[f] :
                 /\ desc[d].buf = <<f, p>>
                 /\ desc[d].FS <=> p = 1
                 /\ desc[d].LS <=> p = queued[f]
                 /\ FrameToFill - f <= m - Dist(mac.d, d)
          BY <1>1, <4>2 DEF RingInv, Marked
        <4>4. f \in 1..Handed' /\ f \in Nat
          BY <1>3, <1>9
        <4>5. FrameToFill - f <= m - Dist(mac.d, d) => FrameToFill' - f <= (m + 1) - Dist(mac.d, d)
          BY <1>3, <1>8, <4>1, <4>4
        <4>6. desc'[d] = desc[d]
          BY <1>6, <3>2
        <4>7. QED
          BY <4>3, <4>4, <4>5, <4>6
      <3>3. QED BY <3>1, <3>2
    <2>3. Chain(m + 1)'
      <3>1. ASSUME NEW d \in Ring, Dist(mac.d, d) + 1 < m + 1
            PROVE  Follows(desc'[d].buf[1], desc'[d].buf[2],
                           desc'[NextDesc(d)].buf[1], desc'[NextDesc(d)].buf[2])
        <4>1. Dist(mac.d, d) \in Nat /\ Dist(mac.d, d) < m
          BY <1>3, <1>51, <3>1
        <4>2. d # w /\ desc'[d] = desc[d]
          BY <1>3, <1>5, <1>6, <4>1
        <4>3. NextDesc(d) \in Ring /\ Dist(mac.d, NextDesc(d)) = Dist(mac.d, d) + 1
          BY <1>3, <1>5, <1>51, <4>1, RingFacts
        <4>4. CASE Dist(mac.d, d) + 1 < m
          <5>1. NextDesc(d) # w
            BY <1>3, <1>5, <4>1, <4>3, <4>4
          <5>2. QED
            BY <1>1, <1>6, <4>2, <4>3, <4>4, <5>1 DEF RingInv, Chain
        <4>5. CASE Dist(mac.d, d) + 1 = m
          <5>1. NextDesc(d) = w
            BY <1>52, <4>3, <4>5
          <5>2. Follows(desc[d].buf[1], desc[d].buf[2], FrameToFill, PartToFill)
            BY <1>1, <4>5 DEF RingInv, Chain
          <5>3. desc'[w].buf[1] = FrameToFill /\ desc'[w].buf[2] = PartToFill
            BY <1>6, <1>8
          <5>4. QED
            BY <4>2, <5>1, <5>2, <5>3
        <4>6. QED
          BY <1>3, <4>1, <4>4, <4>5
      <3>2. ASSUME NEW d \in Ring, Dist(mac.d, d) + 1 = m + 1
            PROVE  Follows(desc'[d].buf[1], desc'[d].buf[2], FrameToFill', PartToFill')
        <4>1. Dist(mac.d, d) = m
          BY <1>3, <1>51, <3>2
        <4>2. d = w
          BY <1>52, <4>1
        <4>3. desc'[d].buf[1] = L /\ desc'[d].buf[2] = i + 1
          BY <1>6, <4>2
        <4>4. queued[L] = c /\ i \in Nat /\ c \in Nat
          BY <1>3
        <4>5. CASE i = c - 1
          <5>1. FrameToFill' = L + 1 /\ PartToFill' = 1 /\ ~(i + 1 < queued[L])
            BY <1>8, <4>4, <4>5
          <5>2. QED
            BY <4>3, <5>1 DEF Follows
        <4>6. CASE i # c - 1
          <5>1. FrameToFill' = L /\ PartToFill' = (i + 1) + 1 /\ i + 1 # queued[L]
            BY <1>8, <4>4, <4>6
          <5>2. QED
            BY <4>3, <5>1 DEF Follows
        <4>7. QED
          BY <4>5, <4>6
      <3>3. QED
        BY <1>7, <3>1, <3>2 DEF Chain, Follows
    <2>4. Place(m + 1)'
      <3>1. CASE m = 0
        <4>1. mac.d = w
          BY <1>3, <1>5, <1>51, <3>1
        <4>2. QED
          BY <1>1, <1>3, <1>6, <1>7, <1>8, <3>1, <4>1 DEF RingInv, Place, WholeFrame
      <3>2. CASE m # 0
        <4>1. mac.d # w
          BY <1>3, <1>5, <1>51, <3>2
        <4>2. desc'[mac.d] = desc[mac.d] /\ m > 0
          BY <1>3, <1>6, <3>2, <4>1
        <4>3. QED
          BY <1>1, <1>3, <1>7, <4>2 DEF RingInv, Place, WholeFrame
      <3>3. QED BY <3>1, <3>2
    <2>5. QED
      BY <2>1, <2>2, <2>3, <2>4 DEF RingInv
  <1>13. m + 1 \in 0..ETH_TXBUFNB
    BY <1>3, <1>5, RingFacts
  <1>14. QED
    BY <1>10, <1>11, <1>12, <1>13 DEF TxInv

-----------------------------------------------------------------------------
(* A frame grows by one part. *)
LEMMA WholeFrameGrows ==
    ASSUME NEW f, NEW n \in Nat
    PROVE  /\ Append(WholeFrame(f, n), <<f, n + 1>>) = WholeFrame(f, n + 1)
           /\ n = 0 => WholeFrame(f, n) = << >>
           /\ Len(WholeFrame(f, n)) = n
  BY DEF WholeFrame

(* Only frames that were written are handed over. *)
LEMMA HandedIsQueued == TxType => Handed \in Int /\ Handed <= Len(queued)
  BY TxTypes DEF Handed

(* The descriptor the engine sends next. *)
LEMMA HeadFacts ==
    ASSUME TxType, NEW m \in 0..ETH_TXBUFNB, RingInv(m), m > 0
    PROVE  /\ Len(sent) + 1 \in 1..Handed
           /\ Len(mac.parts) + 1 \in 1..queued[Len(sent) + 1]
           /\ desc[mac.d].buf = <<Len(sent) + 1, Len(mac.parts) + 1>>
           /\ desc[mac.d].FS <=> Len(mac.parts) = 0
           /\ desc[mac.d].LS <=> Len(mac.parts) + 1 = queued[Len(sent) + 1]
           /\ FrameToFill - (Len(sent) + 1) <= m
  <1>1. mac.d \in Ring /\ Len(mac.parts) \in Nat /\ Len(sent) \in Nat /\ m \in Nat
    BY TxTypes, RingFacts
  <1>2. Dist(mac.d, mac.d) = 0
    BY <1>1, DistFacts
  <1>3. desc[mac.d].buf = <<Len(sent) + 1, Len(mac.parts) + 1>>
    BY DEF RingInv, Place
  <1>4. PICK f \in 1..Handed : \E p \in 1..queued[f] :
           /\ desc[mac.d].buf = <<f, p>>
           /\ desc[mac.d].FS <=> p = 1
           /\ desc[mac.d].LS <=> p = queued[f]
           /\ FrameToFill - f <= m - 0
    BY <1>1, <1>2 DEF RingInv, Marked
  <1>5. PICK p \in 1..queued[f] :
           /\ desc[mac.d].buf = <<f, p>>
           /\ desc[mac.d].FS <=> p = 1
           /\ desc[mac.d].LS <=> p = queued[f]
           /\ FrameToFill - f <= m - 0
    BY <1>4
  <1>6. f = Len(sent) + 1 /\ p = Len(mac.parts) + 1
    BY <1>3, <1>5
  <1>7. FrameToFill - f <= m
    BY <1>1, <1>5
  <1>8. p = 1 <=> Len(mac.parts) = 0
    BY <1>1, <1>6
  <1>9. QED
    BY <1>3, <1>4, <1>5, <1>6, <1>7, <1>8

(* What the engine has of the frame after it. *)
LEMMA FrameSoFar ==
    ASSUME TxType, NEW m \in 0..ETH_TXBUFNB, RingInv(m), m > 0
    PROVE  Append(IF desc[mac.d].FS THEN << >> ELSE mac.parts, desc[mac.d].buf)
              = WholeFrame(Len(sent) + 1, Len(mac.parts) + 1)
  <1> DEFINE S == Len(sent)
             P == Len(mac.parts)
  <1>1. P \in Nat /\ mac.parts = WholeFrame(S + 1, P)
    BY TxTypes DEF RingInv, Place
  <1>2. desc[mac.d].buf = <<S + 1, P + 1>> /\ (desc[mac.d].FS <=> P = 0)
    BY HeadFacts
  <1>3. (IF desc[mac.d].FS THEN << >> ELSE mac.parts) = WholeFrame(S + 1, P)
    BY <1>1, <1>2, WholeFrameGrows
  <1>4. QED
    BY <1>1, <1>2, <1>3, WholeFrameGrows

(* The engine sends the first of its descriptors and hands it back: the    *)
(* window shrinks by one, and the parts sent so far are those of one       *)
(* frame, in order.                                                        *)
LEMMA SendInv == TxInv /\ Mac_Send => TxInv'
  <1> SUFFICES ASSUME TxInv, Mac_Send PROVE TxInv'
    OBVIOUS
  <1>1. PICK m \in 0..ETH_TXBUFNB : RingInv(m)
    BY DEF TxInv
  <1> DEFINE h == mac.d
             x == NextDesc(mac.d)
             S == Len(sent)
             P == Len(mac.parts)
  <1>2. TxType /\ CallInv /\ desc[h].OWN
    BY DEF Mac_Send, TxInv
  <1>3. /\ h \in Ring /\ x \in Ring /\ S \in Nat /\ P \in Nat /\ m \in Nat
        /\ m <= ETH_TXBUFNB /\ ETH_TXBUFNB \in Nat /\ ToFill \in Ring
    BY <1>2, TxTypes, DistFacts, RingFacts
  <1>4. /\ Dist(h, h) = 0 /\ Dist(x, h) = ETH_TXBUFNB - 1
        /\ \A d \in Ring : Dist(h, d) \in Nat /\ Dist(x, d) \in Nat /\ NextDesc(d) \in Ring
        /\ \A d \in Ring : d # h => Dist(h, d) > 0 /\ Dist(x, d) = Dist(h, d) - 1
    <2>1. /\ Dist(h, h) = 0 /\ Dist(x, h) = ETH_TXBUFNB - 1
          /\ \A d \in Ring : Dist(h, d) \in Nat /\ Dist(x, d) \in Nat /\ NextDesc(d) \in Ring
      BY <1>3, DistFacts
    <2>2. \A d \in Ring : d # h => Dist(h, d) # 0 /\ Dist(x, d) = Dist(h, d) - 1
      BY <1>3, DistFacts
    <2>3. QED
      BY <2>1, <2>2
  <1>5. m > 0
    BY <1>1, <1>2, <1>3, <1>4 DEF RingInv, Window
  <1>6. /\ S + 1 \in 1..Handed /\ P + 1 \in 1..queued[S + 1]
        /\ desc[h].buf = <<S + 1, P + 1>>
        /\ desc[h].FS <=> P = 0
        /\ desc[h].LS <=> P + 1 = queued[S + 1]
    BY <1>1, <1>2, <1>5, HeadFacts
  <1>7. /\ desc' \in [Ring -> Bits] /\ ~desc'[h].OWN /\ desc'[h].buf = desc[h].buf
        /\ desc'[h].FS = desc[h].FS /\ desc'[h].LS = desc[h].LS
        /\ \A d \in Ring : d # h => desc'[d] = desc[d]
    BY <1>2, <1>3, TxTypes DEF Mac_Send, Bits
  <1>8. \A d \in Ring : desc'[d].buf = desc[d].buf
    BY <1>7
  <1>9. UNCHANGED <<DMATxDescToSet, cpu, TXBU, queued>>
    BY DEF Mac_Send
  <1>10. /\ ToFill' = ToFill /\ FrameToFill' = FrameToFill /\ PartToFill' = PartToFill
         /\ Handed' = Handed
    BY <1>9 DEF ToFill, FrameToFill, PartToFill, Calling, Handed
  <1>11. mac'.d = x /\ mac'.at = mac.at
    BY <1>2 DEF Mac_Send, TxType, MacType
  <1>12. Append(IF desc[h].FS THEN << >> ELSE mac.parts, desc[h].buf) = WholeFrame(S + 1, P + 1)
    BY <1>1, <1>2, <1>5, FrameSoFar
  <1>13. /\ sent' = IF desc[h].LS THEN Append(sent, WholeFrame(S + 1, P + 1)) ELSE sent
         /\ mac'.parts = IF desc[h].LS THEN << >> ELSE WholeFrame(S + 1, P + 1)
    BY <1>2, <1>12 DEF Mac_Send, TxType, MacType
  <1>14. /\ desc[h].LS => Len(sent') = S + 1 /\ Len(mac'.parts) = 0
         /\ ~desc[h].LS => Len(sent') = S /\ Len(mac'.parts) = P + 1
    <2>1. Len(WholeFrame(S + 1, P + 1)) = P + 1
      BY <1>3, WholeFrameGrows
    <2>2. Len(Append(sent, WholeFrame(S + 1, P + 1))) = S + 1 /\ Len(<< >>) = 0
      BY <1>2, TxTypes
    <2>3. QED
      BY <1>13, <2>1, <2>2
  <1>15. TxType'
    <2>1. mac.parts \in Seq(Part) /\ sent \in Seq(Seq(Part)) /\ desc[h].buf \in Part
      <3>1. desc[h].buf \in Part \cup {NoPart}
        BY <1>2, <1>3, TxTypes DEF Bits
      <3>2. desc[h].buf # NoPart
        BY <1>3, <1>6 DEF NoPart
      <3>3. QED
        BY <1>2, <3>1, <3>2, TxTypes
    <2>2. WholeFrame(S + 1, P + 1) \in Seq(Part)
      BY <1>12, <2>1, SMTT(20)
    <2>3. sent' \in Seq(Seq(Part)) /\ mac'.parts \in Seq(Part)
      BY <1>13, <2>1, <2>2
    <2>4. MacType'
      <3>1. mac' = [mac EXCEPT !.d = x, !.parts = mac'.parts]
        BY <1>2, <1>13, <1>12 DEF Mac_Send, TxType, MacType
      <3>2. QED
        BY <1>2, <1>3, <2>3, <3>1 DEF TxType, MacType
    <2>5. QED
      BY <1>2, <1>7, <1>9, <2>3, <2>4 DEF TxType, TypeOK, MacType
  <1>16. CallInv'
    BY <1>2, <1>7, <1>8, <1>9, <1>10 DEF CallInv, Calling
  <1>17. RingInv(m - 1)'
    <2>1. Window(m - 1)'
      <3>1. ASSUME NEW d \in Ring PROVE desc'[d].OWN <=> Dist(x, d) < m - 1
        <4>1. CASE d = h
          BY <1>3, <1>4, <1>7, <4>1
        <4>2. CASE d # h
          <5>1. desc[d].OWN <=> Dist(h, d) < m
            BY <1>1 DEF RingInv, Window
          <5>2. QED
            BY <1>3, <1>4, <1>7, <4>2, <5>1
        <4>3. QED BY <4>1, <4>2
      <3>2. Dist(x, ToFill) = m - 1
        <4>1. CASE m < ETH_TXBUFNB
          <5>1. Dist(h, ToFill) = m
            BY <1>1, <4>1 DEF RingInv, Window
          <5>2. QED
            BY <1>3, <1>4, <1>5, <5>1
        <4>2. CASE m = ETH_TXBUFNB
          BY <1>1, <1>4, <4>2 DEF RingInv, Window
        <4>3. QED BY <1>3, <4>1, <4>2
      <3>3. m - 1 # ETH_TXBUFNB
        BY <1>3
      <3>4. QED
        BY <1>10, <1>11, <3>1, <3>2, <3>3 DEF Window
    <2>2. Marked(m - 1)'
      <3>1. ASSUME NEW d \in Ring, Dist(x, d) < m - 1
            PROVE  \E f \in 1..Handed : \E p \in 1..queued[f] :
                      /\ desc'[d].buf = <<f, p>>
                      /\ desc'[d].FS <=> p = 1
                      /\ desc'[d].LS <=> p = queued[f]
                      /\ FrameToFill - f <= (m - 1) - Dist(x, d)
        <4>1. d # h
          BY <1>3, <1>4, <3>1
        <4>2. Dist(h, d) < m /\ m - Dist(h, d) = (m - 1) - Dist(x, d)
          BY <1>3, <1>4, <3>1, <4>1
        <4>3. \E f \in 1..Handed : \E p \in 1..queued[f] :
                 /\ desc[d].buf = <<f, p>>
                 /\ desc[d].FS <=> p = 1
                 /\ desc[d].LS <=> p = queued[f]
                 /\ FrameToFill - f <= m - Dist(h, d)
          BY <1>1, <4>2 DEF RingInv, Marked
        <4>4. QED
          BY <1>7, <4>1, <4>2, <4>3
      <3>2. QED
        BY <1>9, <1>10, <1>11, <3>1, Zenon DEF Marked
    <2>3. Chain(m - 1)'
      <3>1. ASSUME NEW d \in Ring, Dist(x, d) + 1 < m - 1
            PROVE  Follows(desc'[d].buf[1], desc'[d].buf[2],
                           desc'[NextDesc(d)].buf[1], desc'[NextDesc(d)].buf[2])
        <4>1. d # h
          BY <1>3, <1>4, <3>1
        <4>2. Dist(h, d) + 1 < m
          BY <1>3, <1>4, <3>1, <4>1
        <4>3. QED
          BY <1>1, <1>4, <1>8, <4>2 DEF RingInv, Chain
      <3>2. ASSUME NEW d \in Ring, Dist(x, d) + 1 = m - 1
            PROVE  Follows(desc'[d].buf[1], desc'[d].buf[2], FrameToFill, PartToFill)
        <4>1. d # h
          BY <1>3, <1>4, <3>2
        <4>2. Dist(h, d) + 1 = m
          BY <1>3, <1>4, <3>2, <4>1
        <4>3. QED
          BY <1>1, <1>8, <4>2 DEF RingInv, Chain
      <3>3. QED
        BY <1>9, <1>10, <1>11, <3>1, <3>2 DEF Chain, Follows
    <2>4. Place(m - 1)'
      <3>1. mac'.parts = WholeFrame(Len(sent') + 1, Len(mac'.parts))
        BY <1>3, <1>13, <1>14, WholeFrameGrows
      <3>2. ASSUME NEW g, NEW q, Follows(S + 1, P + 1, g, q)
            PROVE  g = Len(sent') + 1 /\ q = Len(mac'.parts) + 1
        <4>1. queued[S + 1] \in Nat
          <5>1. S + 1 \in 1..Len(queued)
            BY <1>2, <1>3, <1>6, HandedIsQueued, TxTypes
          <5>2. queued[S + 1] \in 1..MaxBufs
            BY <1>2, <5>1, TxTypes, ElementOfSeq
          <5>3. QED
            BY <5>2, RingFacts
        <4>2. desc[h].LS \/ P + 1 < queued[S + 1]
          BY <1>3, <1>6, <4>1
        <4>3. QED
          BY <1>3, <1>6, <1>14, <3>2, <4>2, SMTT(20) DEF Follows
      <3>3. desc[h].buf[1] = S + 1 /\ desc[h].buf[2] = P + 1
        BY <1>6
      <3>4. CASE m > 1
        <4>0. Dist(x, x) = 0
          BY <1>3, DistFacts
        <4>1. x # h /\ Dist(h, x) = 1
          BY <1>3, <1>4, <3>4, <4>0
        <4>2. \E f, p : desc[x].buf = <<f, p>>
          BY <1>1, <1>3, <3>4, <4>1 DEF RingInv, Marked
        <4>3. Follows(S + 1, P + 1, desc[x].buf[1], desc[x].buf[2])
          BY <1>1, <1>3, <1>4, <3>3, <3>4 DEF RingInv, Chain
        <4>4. desc'[x].buf = <<Len(sent') + 1, Len(mac'.parts) + 1>>
          BY <1>3, <1>8, <3>2, <4>2, <4>3
        <4>5. m - 1 # 0
          BY <1>3, <3>4
        <4>6. QED
          BY <1>11, <3>1, <4>4, <4>5 DEF Place, WholeFrame
      <3>5. CASE m = 1
        <4>1. Follows(S + 1, P + 1, FrameToFill, PartToFill)
          BY <1>1, <1>3, <1>4, <3>3, <3>5 DEF RingInv, Chain
        <4>2. FrameToFill' = Len(sent') + 1 /\ PartToFill' = Len(mac'.parts) + 1
          BY <1>10, <3>2, <4>1
        <4>3. QED
          BY <3>1, <3>5, <4>2 DEF Place, WholeFrame
      <3>6. QED BY <1>3, <1>5, <3>4, <3>5
    <2>5. QED
      BY <2>1, <2>2, <2>3, <2>4 DEF RingInv
  <1>18. m - 1 \in 0..ETH_TXBUFNB
    BY <1>3, <1>5
  <1>19. QED
    BY <1>15, <1>16, <1>17, <1>18 DEF TxInv

(* A step of the caller, the driver or the engine. *)
LEMMA TxNext == ASSUME CallerChecks, TxInv, [Next]_vars PROVE TxInv'
  BY FillBuffersInv, EnterInv, FillInv, ResumeInv, SendInv, StopInv DEF Next, Cpu, Mac

(* The type of the state: no frame is built of anything but parts the      *)
(* caller wrote, for every length of the ring and every number of frames.  *)
THEOREM TxTypeCorrect ==
    ASSUME CallerChecks PROVE Spec => []TypeOK
  <1>1. TxInv /\ [Next]_vars => TxInv'
    BY TxNext
  <1>2. TxInv => TypeOK
    BY DEF TxInv, TxType
  <1>3. QED
    BY <1>1, <1>2, TxInit, PTL DEF Spec

(* If the caller looks at OWN before it fills the buffers, the driver      *)
(* never writes a descriptor while the DMA engine owns it, although its    *)
(* own test of OWN never succeeds.                                         *)
THEOREM OwnedLeftAlone ==
    ASSUME CallerChecks PROVE Spec => OwnedUntouched
  <1>1. TxInv /\ [Next]_vars => TxInv'
    BY TxNext
  <1>2. TxInv => [cpu.at = "fill" /\ cpu' # cpu => ~desc[cpu.d].OWN]_vars
    <2> SUFFICES ASSUME TxInv, cpu.at = "fill" PROVE ~desc[cpu.d].OWN
      OBVIOUS
    <2>1. Calling /\ ToFill = cpu.d /\ cpu.d \in Ring /\ cpu.i \in Nat /\ cpu.count \in Nat
      BY TxTypes, RingFacts DEF TxInv, Calling, ToFill
    <2>2. Dist(cpu.d, cpu.d) = 0
      BY <2>1, DistFacts
    <2>3. QED
      BY <2>1, <2>2 DEF TxInv, CallInv
  <1>3. QED
    BY <1>1, <1>2, TxInit, PTL DEF Spec, OwnedUntouched

-----------------------------------------------------------------------------
(* What is sent was handed over, and what is not fits in the ring.         *)
LEMMA PendingFits ==
    ASSUME TxInv
    PROVE  /\ Handed \in Nat /\ Len(sent) \in Nat /\ Len(sent) <= Handed
           /\ cpu.at = "fill" => Len(queued) - 1 - Len(sent) < ETH_TXBUFNB
  <1>1. PICK m \in 0..ETH_TXBUFNB : RingInv(m)
    BY DEF TxInv
  <1>2. /\ TxType /\ Len(sent) \in Nat /\ Len(queued) \in Nat /\ m \in Nat
        /\ Handed \in Int /\ cpu.i \in Nat
    BY TxTypes, HandedIsQueued, RingFacts DEF TxInv
  <1>3. cpu.at = "fill" => FrameToFill = Len(queued) /\ m < ETH_TXBUFNB
    <2> SUFFICES ASSUME cpu.at = "fill" PROVE FrameToFill = Len(queued) /\ m < ETH_TXBUFNB
      OBVIOUS
    <2>1. Calling /\ ToFill = cpu.d /\ cpu.d \in Ring /\ mac.d \in Ring /\ cpu.count \in Nat
      BY <1>2, TxTypes, RingFacts DEF Calling, ToFill
    <2>2. Dist(cpu.d, cpu.d) = 0 /\ Dist(mac.d, cpu.d) < ETH_TXBUFNB
          /\ Dist(mac.d, cpu.d) \in Nat
      BY <2>1, DistFacts
    <2>3. ~desc[cpu.d].OWN
      BY <1>2, <2>1, <2>2 DEF TxInv, CallInv
    <2>4. ~(Dist(mac.d, cpu.d) < m)
      BY <1>1, <2>1, <2>3 DEF RingInv, Window
    <2>5. QED
      BY <1>2, <2>1, <2>2, <2>4, RingFacts DEF FrameToFill
  <1>4. CASE m > 0
    BY <1>1, <1>2, <1>3, <1>4, HeadFacts, RingFacts
  <1>5. CASE m = 0
    <2>1. FrameToFill = Len(sent) + 1
      BY <1>1, <1>5 DEF RingInv, Place
    <2>2. QED
      BY <1>2, <1>3, <1>5, <2>1, RingFacts DEF FrameToFill, Handed, Calling, TxInv, CallInv
  <1>6. QED
    BY <1>2, <1>4, <1>5

(* Filling the first descriptor of a frame puts it in the queue; the rest  *)
(* of the call changes nothing.                                            *)
LEMMA FillPuts ==
    ASSUME TxInv, Transmit_Fill
    PROVE  /\ sent' = sent
           /\ \/ Pending' = Pending
              \/ /\ Len(Pending) < ETH_TXBUFNB
                 /\ \E f \in 1..MaxFrames, n \in 1..MaxBufs :
                       Pending' = Append(Pending, WholeFrame(f, n))
  <1> DEFINE L == Len(queued)
             S == Len(sent)
  <1>1. /\ cpu.at = "fill" /\ Calling /\ TxType /\ ToFill = cpu.d /\ cpu.d \in Ring
        /\ L \in Nat /\ L > 0 /\ S \in Nat /\ cpu.i \in Nat /\ cpu.count \in Nat
        /\ cpu.i < cpu.count /\ desc[cpu.d] \in Bits /\ queued \in Seq(1..MaxBufs)
    BY TxTypes, RingFacts DEF Transmit_Fill, TxInv, Calling, CallInv, ToFill
  <1>2. /\ UNCHANGED <<queued, sent>> /\ cpu'.i = cpu.i + 1
        /\ cpu'.at \in {"fill", "resume"}
    BY <1>1 DEF Transmit_Fill, TxType, TypeOK
  <1>3. Handed' = L
    BY <1>1, <1>2 DEF Handed
  <1>4. CASE cpu.i # 0
    <2>1. Handed = L
      BY <1>1, <1>4 DEF Handed
    <2>2. QED
      BY <1>2, <1>3, <2>1 DEF Pending, WholeFrame
  <1>5. CASE cpu.i = 0
    <2>1. Handed = L - 1
      BY <1>1, <1>5 DEF Handed
    <2>2. S <= L - 1 /\ L - 1 - S < ETH_TXBUFNB
      BY <1>1, <2>1, PendingFits
    <2>3. Len(Pending) = L - 1 - S
      BY <1>1, <2>1, <2>2 DEF Pending
    <2>4. Pending' = Append(Pending, WholeFrame(L, queued[L]))
      <3>1. /\ Pending = [k \in 1..(L - 1 - S) |-> WholeFrame(S + k, queued[S + k])]
            /\ Pending' = [k \in 1..(L - S) |-> WholeFrame(S + k, queued[S + k])]
        BY <1>2, <1>3, <2>1 DEF Pending, WholeFrame
      <3>2. L - 1 - S \in Nat /\ L - S = (L - 1 - S) + 1 /\ S + (L - S) = L
        BY <1>1, <2>2
      <3>3. QED
        BY <1>1, <3>1, <3>2
    <2>5. L \in 1..MaxFrames
      <3>1. Dist(cpu.d, cpu.d) = 0
        BY <1>1, DistFacts
      <3>2. desc[cpu.d].buf = <<L, 1>>
        BY <1>1, <1>5, <3>1 DEF TxInv, CallInv
      <3>3. <<L, 1>> \in Part \cup {NoPart} /\ <<L, 1>> # NoPart
        BY <1>1, <3>2 DEF Bits, NoPart
      <3>4. QED
        BY <3>3 DEF Part
    <2>6. queued[L] \in 1..MaxBufs
      <3>1. L \in 1..L
        BY <1>1
      <3>2. QED
        BY <1>1, <3>1, ElementOfSeq
    <2>7. QED
      BY <1>2, <2>2, <2>3, <2>4, <2>5, <2>6
  <1>6. QED
    BY <1>2, <1>4, <1>5

(* Sending the last part of a frame takes it out of the queue. *)
LEMMA SendTakes ==
    ASSUME TxInv, Mac_Send
    PROVE  \/ Pending' = Pending /\ sent' = sent
           \/ /\ Pending # << >>
              /\ sent' = Append(sent, Head(Pending))
              /\ Pending' = Tail(Pending)
  <1>1. PICK m \in 0..ETH_TXBUFNB : RingInv(m)
    BY DEF TxInv
  <1> DEFINE S == Len(sent)
             P == Len(mac.parts)
  <1>2. /\ TxType /\ desc[mac.d].OWN /\ mac.d \in Ring /\ m \in Nat /\ S \in Nat
        /\ sent \in Seq(Seq(Part))
    BY TxTypes, RingFacts DEF Mac_Send, TxInv
  <1>3. Dist(mac.d, mac.d) = 0
    BY <1>2, DistFacts
  <1>4. m > 0
    BY <1>1, <1>2, <1>3 DEF RingInv, Window
  <1>5. S + 1 \in 1..Handed /\ (desc[mac.d].LS <=> P + 1 = queued[S + 1])
    BY <1>1, <1>2, <1>4, HeadFacts
  <1>6. sent' = IF desc[mac.d].LS THEN Append(sent, WholeFrame(S + 1, P + 1)) ELSE sent
    BY <1>1, <1>2, <1>4, FrameSoFar DEF Mac_Send
  <1>7. queued' = queued /\ Handed' = Handed /\ Handed \in Nat
    BY PendingFits DEF Mac_Send, Handed
  <1>8. CASE ~desc[mac.d].LS
    BY <1>6, <1>7, <1>8 DEF Pending, WholeFrame
  <1>9. CASE desc[mac.d].LS
    <2> DEFINE H == Handed
               F(k) == WholeFrame(k, queued[k])
    <2>1. sent' = Append(sent, F(S + 1)) /\ Len(sent') = S + 1
      BY <1>2, <1>5, <1>6, <1>9
    <2>2. /\ Pending = [k \in 1..(H - S) |-> F(S + k)]
          /\ Pending' = [k \in 1..(H - (S + 1)) |-> F((S + 1) + k)]
      BY <1>7, <2>1 DEF Pending, WholeFrame
    <2>3. H - S \in Nat /\ H - S > 0 /\ H - (S + 1) = (H - S) - 1
      BY <1>2, <1>5, <1>7
    <2> HIDE DEF F, H
    <2>4. Pending # << >> /\ Head(Pending) = F(S + 1)
      BY <1>2, <2>2, <2>3
    <2>5. Pending' = Tail(Pending)
      <3>1. Pending \in Seq({F(S + k) : k \in 1..(H - S)}) /\ Len(Pending) = H - S
        <4>1. \A k \in 1..(H - S) : F(S + k) \in {F(S + j) : j \in 1..(H - S)}
          OBVIOUS
        <4>2. QED
          BY <2>2, <2>3, <4>1, SeqOfFunction
      <3>2. Tail(Pending) = [k \in 1..(H - S - 1) |-> Pending[k + 1]]
        BY <2>4, <3>1, SeqTail
      <3>3. \A k \in 1..(H - S - 1) : k + 1 \in 1..(H - S) /\ S + (k + 1) = (S + 1) + k
        BY <1>2, <2>3
      <3>4. \A k \in 1..(H - S - 1) : Pending[k + 1] = F((S + 1) + k)
        BY <2>2, <3>3
      <3>5. QED
        BY <2>2, <2>3, <3>2, <3>4
    <2>6. QED
      BY <2>1, <2>4, <2>5
  <1>10. QED
    BY <1>8, <1>9

(* The other steps leave the queue alone. *)
LEMMA OthersKeep ==
    ASSUME TxInv, (\E n \in 1..MaxBufs : FillBuffers(n)) \/ Transmit_Enter \/ Transmit_Resume
                     \/ Mac_Fetch \/ Mac_Suspend \/ UNCHANGED vars
    PROVE  Pending' = Pending /\ sent' = sent
  <1>1. CASE \E n \in 1..MaxBufs : FillBuffers(n)
    <2>1. PICK n \in 1..MaxBufs : FillBuffers(n)
      BY <1>1
    <2> DEFINE L == Len(queued)
    <2>2. /\ queued' = Append(queued, n) /\ Len(queued') = L + 1 /\ sent' = sent
          /\ cpu.at = "idle" /\ cpu'.at = "enter" /\ L \in Nat /\ Len(sent) \in Nat
          /\ queued \in Seq(1..MaxBufs)
      <3>1. TxType /\ queued \in Seq(1..MaxBufs) /\ L \in Nat /\ Len(sent) \in Nat
        BY TxTypes DEF TxInv
      <3>2. /\ queued' = Append(queued, n) /\ sent' = sent
            /\ cpu.at = "idle" /\ cpu'.at = "enter"
        BY <2>1 DEF FillBuffers, Idle
      <3>3. QED
        BY <3>1, <3>2
    <2>3. Handed = L /\ Handed' = L
      BY <2>2 DEF Handed
    <2>4. \A k \in 1..(L - Len(sent)) : queued'[Len(sent) + k] = queued[Len(sent) + k]
      BY <2>2
    <2>5. QED
      BY <2>2, <2>3, <2>4 DEF Pending, WholeFrame
  <1>2. CASE Transmit_Enter
    <2>1. /\ UNCHANGED <<queued, sent>> /\ cpu.at = "enter" /\ cpu.i = 0
          /\ cpu' = [cpu EXCEPT !.at = "fill", !.d = DMATxDescToSet]
      <3>1. ~OwnTest(DMATxDescToSet)
        BY DEF OwnTest
      <3>2. QED
        BY <1>2, <3>1 DEF Transmit_Enter, TxInv, CallInv, Calling
    <2>2. cpu'.at = "fill" /\ cpu'.i = 0
      BY <2>1 DEF TxInv, TxType, TypeOK
    <2>3. Handed' = Handed
      BY <2>1, <2>2 DEF Handed
    <2>4. QED
      BY <2>1, <2>3 DEF Pending, WholeFrame
  <1>3. CASE Transmit_Resume \/ Mac_Fetch \/ Mac_Suspend \/ UNCHANGED vars
    <2>1. UNCHANGED <<queued, sent>> /\ Handed' = Handed
      BY <1>3 DEF Transmit_Resume, Mac_Fetch, Mac_Suspend, vars, Handed, Idle
    <2>2. QED
      BY <2>1 DEF Pending, WholeFrame
  <1>4. QED
    BY <1>1, <1>2, <1>3

(* Every step is a Put, a Take, or leaves the queue alone. *)
LEMMA QueueStep ==
    ASSUME TxInv, [Next]_vars PROVE [Ring_!Next]_<<Pending, sent>>
  <1>1. CASE Transmit_Fill
    <2>1. (Pending' = Pending /\ sent' = sent) \/ Ring_!Put
      <3>1. \A f \in 1..MaxFrames, n \in 1..MaxBufs : WholeFrame(f, n) \in Frames
        BY DEF Frames
      <3>2. ASSUME ~(Pending' = Pending)
            PROVE  /\ Len(Pending) < ETH_TXBUFNB
                   /\ \E g \in Frames : Pending' = Append(Pending, g)
                   /\ sent' = sent
        BY <1>1, <3>1, <3>2, FillPuts
      <3>3. sent' = sent
        BY <1>1, FillPuts
      <3>4. QED
        BY <3>2, <3>3 DEF Ring_!Put
    <2>2. QED
      BY <2>1 DEF Ring_!Next
  <1>2. CASE Mac_Send
    <2>1. (Pending' = Pending /\ sent' = sent) \/ Ring_!Take
      BY <1>2, SendTakes DEF Ring_!Take
    <2>2. QED
      BY <2>1 DEF Ring_!Next
  <1>3. CASE (\E n \in 1..MaxBufs : FillBuffers(n)) \/ Transmit_Enter \/ Transmit_Resume
                \/ Mac_Fetch \/ Mac_Suspend \/ UNCHANGED vars
    BY <1>3, OthersKeep
  <1>4. QED
    BY <1>1, <1>2, <1>3 DEF Next, Cpu, Mac

(* With a caller that looks at OWN, the ring is a queue of frames: what is *)
(* handed over is sent whole, once and in order, and no more frames than   *)
(* descriptors are under way, for every length of the ring, every split of *)
(* the frames over descriptors and every interleaving with the engine.     *)
THEOREM RingIsQueue ==
    ASSUME CallerChecks PROVE Spec => ImplementsQueue
  <1>1. TxInv /\ [Next]_vars => TxInv'
    BY TxNext
  <1>2. TxInv /\ [Next]_vars => [Ring_!Next]_<<Pending, sent>>
    BY QueueStep
  <1>3. Init => Ring_!Init
    <2> SUFFICES ASSUME Init PROVE Ring_!Init
      OBVIOUS
    <2>1. Handed = 0 /\ Len(sent) = 0 /\ sent = << >>
      BY DEF Init, Handed, Idle
    <2>2. QED
      BY <2>1 DEF Ring_!Init, Pending
  <1>4. QED
    BY <1>1, <1>2, <1>3, TxInit, PTL DEF Spec, ImplementsQueue, Ring_!Queue

-----------------------------------------------------------------------------
(***************************************************************************)
(* ETH_Config and the loop-back functions, for every length of the waits   *)
(* and every number of calls: a successful ETH_Config leaves MAC and PHY   *)
(* at the same setting, and the loop-back functions change no other bit    *)
(* of the PHY's control register.                                          *)
(*                                                                         *)
(* The PHY, the MII and the processor run on their own; what connects them *)
(* is that, with an MII that is in time, the processor goes on only when   *)
(* no access is under way (Prompt), so that the access it waits for is the *)
(* one it has started, and its result is still what the PHY's register     *)
(* says when it is used (Reads).                                           *)
(***************************************************************************)

AllBits == BcrBits \cup StatusBits
Pcs == {"config", "reset", "link", "auto", "negotiation", "result", "forced", "error",
        "returned", "enable", "disable", "written"}

MiiRegs == [MB : BOOLEAN, MR : {"BCR", "BSR", "SR"}, MW : BOOLEAN, out : SUBSET AllBits,
            DATA : SUBSET AllBits]
CpuState == [at : {"poll", "step"}, pc : Pcs, timeout : 0..Limit, failed : BOOLEAN,
             value : SUBSET AllBits, err : BOOLEAN]

PhyType ==
    /\ BCR \in SUBSET (AllBits \ {"RESET"}) /\ link \in BOOLEAN /\ done \in BOOLEAN
    /\ partner \in Setting /\ mii \in MiiRegs /\ phyCpu \in CpuState
    /\ ethConfig \in [auto : BOOLEAN, speed : 0..1, mode : 0..1]
    /\ MAC \in Setting /\ timely \in BOOLEAN /\ calls \in Nat

(* With an MII in time no wait runs out, and none is left behind. *)
Prompt == timely => ~phyCpu.failed /\ (phyCpu.at = "step" => ~mii.MB)

(* The read of reg that the processor waits for, or has waited for, gives  *)
(* what the register holds now.                                            *)
Reads(reg) ==
    /\ phyCpu.at = "poll" /\ mii.MB => ~mii.MW /\ mii.MR = reg
    /\ phyCpu.at = "poll" /\ ~mii.MB => mii.DATA = Register(reg)
    /\ phyCpu.at = "step" => phyCpu.value = Register(reg)

Configured == [speed |-> ethConfig.speed, mode |-> ethConfig.mode]

(* The loop-back functions read BCR and write it back. *)
LoopBackInv ==
    /\ phyCpu.pc \in {"enable", "disable", "written"} => calls > 0
    /\ timely /\ phyCpu.pc \in {"enable", "disable"} => Reads("BCR")
    /\ timely /\ phyCpu.pc = "written" /\ mii.MB =>
           mii.MW /\ "RESET" \notin mii.out /\ mii.out \ {"LOOPBACK"} = BCR \ {"LOOPBACK"}

(* The way of ETH_Config through the negotiation. *)
AutoInv ==
    /\ phyCpu.pc \in {"link", "auto", "negotiation", "result"} => ethConfig.auto
    /\ ethConfig.auto /\ calls = 0 =>
           /\ "AUTONEGOTIATION" \in BCR
           /\ mii.MB /\ mii.MW => "RESET" \in mii.out \/ "AUTONEGOTIATION" \in mii.out
    /\ timely /\ ethConfig.auto /\ calls = 0 =>
           /\ phyCpu.pc = "result" => Reads("SR")
           /\ phyCpu.pc = "error" /\ ~phyCpu.err => Configured = partner
           /\ phyCpu.pc = "returned" /\ ~phyCpu.err => MAC = partner

(* And the way without it. *)
ForcedInv ==
    /\ phyCpu.pc = "forced" => ~ethConfig.auto
    /\ phyCpu.pc \in {"error", "returned"} => phyCpu.at = "step"
    /\ ~ethConfig.auto => ethConfig.speed = ethConfig.mode
    /\ timely /\ ~ethConfig.auto /\ calls = 0 =>
           /\ phyCpu.pc = "forced" => IF mii.MB THEN mii.MW /\ mii.out = ForcedBits
                                             ELSE BCR = ForcedBits
           /\ phyCpu.pc \in {"error", "returned"} /\ ~phyCpu.err => BCR = ForcedBits
           /\ phyCpu.pc = "returned" /\ ~phyCpu.err => MAC = Configured

ErrorInv == phyCpu.pc = "returned" /\ calls = 0 /\ phyCpu.err => MAC = [speed |-> 1, mode |-> 1]

PhyInv == PhyType /\ Prompt /\ LoopBackInv /\ AutoInv /\ ForcedInv /\ ErrorInv

-----------------------------------------------------------------------------
(* The type. *)

LEMMA AccessType ==
    ASSUME PhyType, NEW c \in CpuState, NEW reg \in {"BCR", "BSR", "SR"}, NEW write \in BOOLEAN,
           NEW bits \in SUBSET AllBits, Access(c, reg, write, bits)
    PROVE  phyCpu' \in CpuState /\ mii' \in MiiRegs
  <1>1. phyCpu' \in CpuState
    BY Zenon DEF Access, CpuState
  <1>2. mii.DATA \in SUBSET AllBits
    BY DEF PhyType, MiiRegs
  <1>3. [MB |-> TRUE, MR |-> reg, MW |-> write, out |-> bits, DATA |-> mii.DATA] \in MiiRegs
    BY <1>2, Zenon DEF MiiRegs
  <1>4. QED
    BY <1>1, <1>3 DEF Access, PhyType

LEMMA RegisterType ==
    ASSUME PhyType, NEW reg \in {"BCR", "BSR", "SR"}
    PROVE  Register(reg) \in SUBSET AllBits
  BY DEF PhyType, Register, AllBits, BcrBits, StatusBits

(* Every step keeps the type. *)
LEMMA TypeStep ==
    ASSUME EthPhyAssumption, PhyType, PhyNext
    PROVE  PhyType'
  <1>1. /\ BCR \in SUBSET (AllBits \ {"RESET"}) /\ link \in BOOLEAN /\ done \in BOOLEAN
        /\ partner \in Setting /\ mii \in MiiRegs /\ phyCpu \in CpuState
        /\ ethConfig \in [auto : BOOLEAN, speed : 0..1, mode : 0..1]
        /\ MAC \in Setting /\ timely \in BOOLEAN /\ calls \in Nat
    BY DEF PhyType
  <1>2. phyCpu.timeout \in 0..Limit /\ phyCpu.value \in SUBSET AllBits /\ Limit \in Nat /\ Limit > 1
    BY <1>1 DEF CpuState, EthPhyAssumption
  <1>3. {"RESET"} \in SUBSET AllBits /\ {} \in SUBSET AllBits
        /\ {"AUTONEGOTIATION"} \in SUBSET (AllBits \ {"RESET"})
    BY DEF AllBits, BcrBits
  <1>4. phyCpu.failed \in BOOLEAN /\ phyCpu.err \in BOOLEAN
    BY <1>1, Zenon DEF CpuState
  <1>5. CASE Config_Reset
    <2>1. [phyCpu EXCEPT !.pc = "reset"] \in CpuState
      BY <1>1, Zenon DEF CpuState, Pcs
    <2>2. Access([phyCpu EXCEPT !.pc = "reset"], "BCR", TRUE, {"RESET"})
      BY <1>5, Zenon DEF Config_Reset, WritePHY
    <2>3. phyCpu' \in CpuState /\ mii' \in MiiRegs
      BY <2>1, <2>2, <1>3, AccessType
    <2>4. QED
      BY <1>5, <1>1, <2>3 DEF Config_Reset, Stay, Untouched, PhyType
  <1>6. CASE Config_Negotiate
    <2>1. 1 \in 0..Limit
      BY <1>2
    <2>2. [phyCpu EXCEPT !.pc = "link", !.timeout = 1] \in CpuState
      BY <1>1, <2>1, <1>4, Zenon DEF CpuState, Pcs
    <2>3. Access([phyCpu EXCEPT !.pc = "link", !.timeout = 1], "BSR", FALSE, {})
      BY <1>6, Zenon DEF Config_Negotiate, ReadPHY
    <2>4. phyCpu' \in CpuState /\ mii' \in MiiRegs
      BY <2>2, <2>3, <1>3, AccessType
    <2>5. QED
      BY <1>6, <1>1, <2>4 DEF Config_Negotiate, Stay, Untouched, PhyType
  <1>7. CASE Config_Force
    <2>1. [phyCpu EXCEPT !.pc = "forced"] \in CpuState
      BY <1>1, Zenon DEF CpuState, Pcs
    <2>2. ForcedBits \in SUBSET AllBits
      BY DEF ForcedBits, AllBits, BcrBits
    <2>3. Access([phyCpu EXCEPT !.pc = "forced"], "BCR", TRUE, ForcedBits)
      BY <1>7, Zenon DEF Config_Force, WritePHY
    <2>4. phyCpu' \in CpuState /\ mii' \in MiiRegs
      BY <2>1, <2>3, <1>3, AccessType, <2>2
    <2>5. QED
      BY <1>7, <1>1, <2>4 DEF Config_Force, Stay, Untouched, PhyType
  <1>8. CASE Config_Wait
    <2>1. phyCpu.timeout + 1 \in 0..Limit
      BY <1>8, <1>2 DEF Config_Wait
    <2>2. [phyCpu EXCEPT !.timeout = @ + 1] \in CpuState
      BY <1>1, <2>1, Zenon DEF CpuState, Pcs
    <2>3. Access([phyCpu EXCEPT !.timeout = @ + 1], "BSR", FALSE, {})
      BY <1>8, Zenon DEF Config_Wait, ReadPHY
    <2>4. phyCpu' \in CpuState /\ mii' \in MiiRegs
      BY <2>2, <2>3, <1>3, AccessType
    <2>5. QED
      BY <1>8, <1>1, <2>4 DEF Config_Wait, Stay, Untouched, PhyType
  <1>9. CASE Config_Linked
    <2>1. [phyCpu EXCEPT !.pc = "auto"] \in CpuState
      BY <1>1, Zenon DEF CpuState, Pcs
    <2>2. {"AUTONEGOTIATION"} \in SUBSET AllBits
      BY <1>3
    <2>3. Access([phyCpu EXCEPT !.pc = "auto"], "BCR", TRUE, {"AUTONEGOTIATION"})
      BY <1>9, Zenon DEF Config_Linked, WritePHY
    <2>4. phyCpu' \in CpuState /\ mii' \in MiiRegs
      BY <2>1, <2>3, <1>3, AccessType, <2>2
    <2>5. QED
      BY <1>9, <1>1, <2>4 DEF Config_Linked, Stay, Untouched, PhyType
  <1>10. CASE Config_Auto
    <2>1. 1 \in 0..Limit
      BY <1>2
    <2>2. [phyCpu EXCEPT !.pc = "negotiation", !.timeout = 1, !.err = phyCpu.failed] \in CpuState
      BY <1>1, <2>1, <1>4, Zenon DEF CpuState, Pcs
    <2>3. Access([phyCpu EXCEPT !.pc = "negotiation", !.timeout = 1, !.err = phyCpu.failed], "BSR", FALSE, {})
      BY <1>10, Zenon DEF Config_Auto, ReadPHY
    <2>4. phyCpu' \in CpuState /\ mii' \in MiiRegs
      BY <2>2, <2>3, <1>3, AccessType
    <2>5. QED
      BY <1>10, <1>1, <2>4 DEF Config_Auto, Stay, Untouched, PhyType
  <1>11. CASE Config_Negotiated
    <2>1. [phyCpu EXCEPT !.pc = "result"] \in CpuState
      BY <1>1, Zenon DEF CpuState, Pcs
    <2>2. Access([phyCpu EXCEPT !.pc = "result"], "SR", FALSE, {})
      BY <1>11, Zenon DEF Config_Negotiated, ReadPHY
    <2>3. phyCpu' \in CpuState /\ mii' \in MiiRegs
      BY <2>1, <2>2, <1>3, AccessType
    <2>4. QED
      BY <1>11, <1>1, <2>3 DEF Config_Negotiated, Stay, Untouched, PhyType
  <1>12. CASE LoopBack_Write
    <2>1. [phyCpu EXCEPT !.pc = "written"] \in CpuState
      BY <1>1, Zenon DEF CpuState, Pcs
    <2>2. LoopBackBits(phyCpu.value) \in SUBSET AllBits
      BY <1>2 DEF LoopBackBits, AllBits, BcrBits
    <2>3. Access([phyCpu EXCEPT !.pc = "written"], "BCR", TRUE, LoopBackBits(phyCpu.value))
      BY <1>12, Zenon DEF LoopBack_Write, WritePHY
    <2>4. phyCpu' \in CpuState /\ mii' \in MiiRegs
      BY <2>1, <2>3, <1>3, AccessType, <2>2
    <2>5. QED
      BY <1>12, <1>1, <2>4 DEF LoopBack_Write, Stay, Untouched, PhyType
  <1>13. CASE Config_NoReset
    <2>1. phyCpu' = [phyCpu EXCEPT !.pc = "error", !.err = TRUE] /\ mii' = mii
      BY <1>13, Zenon DEF Config_NoReset, Finish
    <2>2. phyCpu' \in CpuState
      BY <1>1, <1>4, <2>1, Zenon DEF CpuState, Pcs
    <2>3. QED
      BY <1>13, <1>1, <2>1, <2>2 DEF Config_NoReset, Stay, Untouched, PhyType
  <1>14. CASE Config_Forced
    <2>1. phyCpu' = [phyCpu EXCEPT !.pc = "error", !.err = phyCpu.failed] /\ mii' = mii
      BY <1>14, Zenon DEF Config_Forced, Finish
    <2>2. phyCpu' \in CpuState
      BY <1>1, <1>4, <2>1, Zenon DEF CpuState, Pcs
    <2>3. QED
      BY <1>14, <1>1, <2>1, <2>2 DEF Config_Forced, Stay, Untouched, PhyType
  <1>15. CASE Config_TimedOut
    <2>1. phyCpu' = [phyCpu EXCEPT !.pc = "error", !.err = TRUE] /\ mii' = mii
      BY <1>15, Zenon DEF Config_TimedOut, Finish
    <2>2. phyCpu' \in CpuState
      BY <1>1, <1>4, <2>1, Zenon DEF CpuState, Pcs
    <2>3. QED
      BY <1>15, <1>1, <2>1, <2>2 DEF Config_TimedOut, Stay, Untouched, PhyType
  <1>16. CASE Config_Result
    <2>1. phyCpu' = [phyCpu EXCEPT !.pc = "error", !.err = phyCpu.err] /\ mii' = mii
      BY <1>16, Zenon DEF Config_Result, Finish
    <2>2. phyCpu' \in CpuState
      BY <1>1, <1>4, <2>1, Zenon DEF CpuState, Pcs
    <2>3. Result(phyCpu.value).speed \in 0..1 /\ Result(phyCpu.value).mode \in 0..1
      BY DEF Result
    <2>4. ethConfig' \in [auto : BOOLEAN, speed : 0..1, mode : 0..1]
      BY <1>16, <1>1, <2>3, Zenon DEF Config_Result
    <2>5. QED
      BY <1>16, <1>1, <2>1, <2>2, <2>4 DEF Config_Result, Untouched, PhyType
  <1>17. CASE Config_Registers
    <2>1. phyCpu' = [phyCpu EXCEPT !.pc = "returned"] /\ mii' = mii /\ calls' = calls
      BY <1>17, Zenon DEF Config_Registers
    <2>2. phyCpu' \in CpuState
      BY <1>1, <2>1, Zenon DEF CpuState, Pcs
    <2>3. 1 \in 0..1
      OBVIOUS
    <2>4. Registers \in [auto : BOOLEAN, speed : 0..1, mode : 0..1]
      BY <1>1, <2>3, Zenon DEF Registers
    <2>5. [speed |-> Registers.speed, mode |-> Registers.mode] \in Setting
      BY <2>4, Zenon DEF Setting
    <2>6. QED
      BY <1>17, <1>1, <2>1, <2>2, <2>4, <2>5 DEF Config_Registers, Untouched, PhyType
  <1>18. CASE LoopBack_Return
    <2>1. phyCpu' = [phyCpu EXCEPT !.pc = "returned"] /\ mii' = mii
      BY <1>18, Zenon DEF LoopBack_Return
    <2>2. phyCpu' \in CpuState
      BY <1>1, <2>1, Zenon DEF CpuState, Pcs
    <2>3. QED
      BY <1>18, <1>1, <2>1, <2>2 DEF LoopBack_Return, Stay, Untouched, PhyType
  <1>19. ASSUME NEW late \in BOOLEAN, Poll(late) PROVE PhyType'
    <2>1. (IF late THEN {} ELSE mii.DATA) \in SUBSET AllBits
      BY <1>1, <1>3 DEF MiiRegs
    <2>2. phyCpu' = [phyCpu EXCEPT !.at = "step", !.failed = late,
                             !.value = IF late THEN {} ELSE mii.DATA]
      BY <1>19, Zenon DEF Poll
    <2>3. phyCpu' \in CpuState
      BY <1>1, <2>1, <2>2, Zenon DEF CpuState
    <2>4. QED
      BY <1>19, <1>1, <2>3 DEF Poll, Untouched, PhyType
  <1>20. CASE Mii_End
    <2>1. Register(mii.MR) \in SUBSET AllBits
      BY <1>1, RegisterType DEF MiiRegs
    <2>2. (IF mii.MW THEN mii.DATA ELSE Register(mii.MR)) \in SUBSET AllBits
      BY <1>1, <2>1 DEF MiiRegs
    <2>3. mii' \in MiiRegs
      BY <1>20, <1>1, <2>2, Zenon DEF Mii_End, MiiRegs
    <2>4. mii.out \in SUBSET AllBits
      BY <1>1 DEF MiiRegs
    <2>5. BCR' \in SUBSET (AllBits \ {"RESET"})
      BY <1>20, <1>1, <1>3, <2>4 DEF Mii_End
    <2>6. done' \in BOOLEAN
      BY <1>20, <1>1, Zenon DEF Mii_End
    <2>7. QED
      BY <1>20, <1>1, <2>3, <2>5, <2>6 DEF Mii_End, PhyType
  <1>21. CASE Phy_Link \/ Phy_Negotiate
    BY <1>21, <1>1 DEF Phy_Link, Phy_Negotiate, PhyType
  <1>22. ASSUME NEW on \in BOOLEAN, LoopBack_Read(on) PROVE PhyType'
    <2>1. [phyCpu EXCEPT !.pc = IF on THEN "enable" ELSE "disable"] \in CpuState
      BY <1>1, Zenon DEF CpuState, Pcs
    <2>2. Access([phyCpu EXCEPT !.pc = IF on THEN "enable" ELSE "disable"], "BCR", FALSE, {})
      BY <1>22, Zenon DEF LoopBack_Read, ReadPHY
    <2>3. phyCpu' \in CpuState /\ mii' \in MiiRegs
      BY <2>1, <2>2, <1>3, AccessType
    <2>4. QED
      BY <1>22, <1>1, <2>3 DEF LoopBack_Read, Untouched, PhyType
  <1>23. QED
    BY <1>5, <1>6, <1>7, <1>8, <1>9, <1>10, <1>11, <1>12, <1>13, <1>14,
       <1>15, <1>16, <1>17, <1>18, <1>19, <1>20, <1>21, <1>22 DEF PhyNext, PhyCpu, Config

-----------------------------------------------------------------------------
(* The parts of the invariant, each action by action. *)

(* A wait that ends does so with the access it waits for. *)
LEMMA PromptStep ==
    ASSUME PhyType, Prompt, PhyNext
    PROVE  Prompt'
  <1> USE DEF PhyType, MiiRegs, CpuState, At, Stay, Untouched, Prompt
  <1>1. CASE Config_Reset
    BY <1>1 DEF Config_Reset, WritePHY, Access
  <1>2. CASE Config_Negotiate
    BY <1>2 DEF Config_Negotiate, ReadPHY, Access
  <1>3. CASE Config_Force
    BY <1>3 DEF Config_Force, WritePHY, Access
  <1>4. CASE Config_NoReset
    BY <1>4 DEF Config_NoReset, Finish
  <1>5. CASE Config_Forced
    BY <1>5 DEF Config_Forced, Finish
  <1>6. CASE Config_Wait
    BY <1>6 DEF Config_Wait, ReadPHY, Access
  <1>7. CASE Config_TimedOut
    BY <1>7 DEF Config_TimedOut, Finish
  <1>8. CASE Config_Linked
    BY <1>8 DEF Config_Linked, WritePHY, Access
  <1>9. CASE Config_Auto
    BY <1>9 DEF Config_Auto, ReadPHY, Access
  <1>10. CASE Config_Negotiated
    BY <1>10 DEF Config_Negotiated, ReadPHY, Access
  <1>11. CASE Config_Result
    BY <1>11 DEF Config_Result, Finish
  <1>12. CASE Config_Registers
    BY <1>12 DEF Config_Registers
  <1>13. CASE LoopBack_Write
    BY <1>13 DEF LoopBack_Write, WritePHY, Access
  <1>14. CASE LoopBack_Return
    BY <1>14 DEF LoopBack_Return
  <1>15. CASE Mii_End
    BY <1>15 DEF Mii_End
  <1>16. CASE Phy_Link
    BY <1>16 DEF Phy_Link
  <1>17. CASE Phy_Negotiate
    BY <1>17 DEF Phy_Negotiate
  <1>18. ASSUME NEW late \in BOOLEAN, Poll(late) PROVE Prompt'
    BY <1>18 DEF Poll
  <1>19. ASSUME NEW on \in BOOLEAN, LoopBack_Read(on) PROVE Prompt'
    BY <1>19 DEF LoopBack_Read, ReadPHY, Access
  <1>20. QED
    BY <1>1, <1>2, <1>3, <1>4, <1>5, <1>6, <1>7, <1>8, <1>9, <1>10,
       <1>11, <1>12, <1>13, <1>14, <1>15, <1>16, <1>17, <1>18, <1>19 DEF PhyNext, PhyCpu, Config

(* The control register is the one that was read until it is written. *)
LEMMA LoopBackStep ==
    ASSUME PhyType, Prompt, LoopBackInv, PhyNext
    PROVE  LoopBackInv'
  <1> USE DEF PhyType, MiiRegs, CpuState, At, Stay, Untouched, Prompt, LoopBackInv,
         Reads, Register
  <1>1. CASE Config_Reset
    BY <1>1 DEF Config_Reset, WritePHY, Access
  <1>2. CASE Config_Negotiate
    BY <1>2 DEF Config_Negotiate, ReadPHY, Access
  <1>3. CASE Config_Force
    BY <1>3 DEF Config_Force, WritePHY, Access
  <1>4. CASE Config_NoReset
    BY <1>4 DEF Config_NoReset, Finish
  <1>5. CASE Config_Forced
    BY <1>5 DEF Config_Forced, Finish
  <1>6. CASE Config_Wait
    BY <1>6 DEF Config_Wait, ReadPHY, Access
  <1>7. CASE Config_TimedOut
    BY <1>7 DEF Config_TimedOut, Finish
  <1>8. CASE Config_Linked
    BY <1>8 DEF Config_Linked, WritePHY, Access
  <1>9. CASE Config_Auto
    BY <1>9 DEF Config_Auto, ReadPHY, Access
  <1>10. CASE Config_Negotiated
    BY <1>10 DEF Config_Negotiated, ReadPHY, Access
  <1>11. CASE Config_Result
    BY <1>11 DEF Config_Result, Finish
  <1>12. CASE Config_Registers
    BY <1>12 DEF Config_Registers
  <1>13. CASE LoopBack_Write
    BY <1>13 DEF LoopBack_Write, WritePHY, Access, LoopBackBits
  <1>14. CASE LoopBack_Return
    BY <1>14 DEF LoopBack_Return
  <1>15. CASE Mii_End
    BY <1>15 DEF Mii_End
  <1>16. CASE Phy_Link
    BY <1>16 DEF Phy_Link
  <1>17. CASE Phy_Negotiate
    BY <1>17 DEF Phy_Negotiate
  <1>18. ASSUME NEW late \in BOOLEAN, Poll(late) PROVE LoopBackInv'
    BY <1>18 DEF Poll
  <1>19. ASSUME NEW on \in BOOLEAN, LoopBack_Read(on) PROVE LoopBackInv'
    BY <1>19 DEF LoopBack_Read, ReadPHY, Access
  <1>20. QED
    BY <1>1, <1>2, <1>3, <1>4, <1>5, <1>6, <1>7, <1>8, <1>9, <1>10,
       <1>11, <1>12, <1>13, <1>14, <1>15, <1>16, <1>17, <1>18, <1>19 DEF PhyNext, PhyCpu, Config

(* The result of a negotiation is the setting of the PHY. *)
LEMMA AutoStep ==
    ASSUME PhyType, Prompt, LoopBackInv, AutoInv, ForcedInv, PhyNext
    PROVE  AutoInv'
  <1> USE DEF PhyType, MiiRegs, CpuState, At, Stay, Untouched, 
             Prompt, LoopBackInv, AutoInv, ForcedInv, Reads, Register, Configured, PhySetting, Setting
  <1>1. CASE Config_Reset
    BY <1>1 DEF Config_Reset, WritePHY, Access
  <1>2. CASE Config_Negotiate
    BY <1>2 DEF Config_Negotiate, ReadPHY, Access
  <1>3. CASE Config_Force
    BY <1>3 DEF Config_Force, WritePHY, Access
  <1>4. CASE Config_NoReset
    BY <1>4 DEF Config_NoReset, Finish
  <1>5. CASE Config_Forced
    BY <1>5 DEF Config_Forced, Finish
  <1>6. CASE Config_Wait
    BY <1>6 DEF Config_Wait, ReadPHY, Access
  <1>7. CASE Config_TimedOut
    BY <1>7 DEF Config_TimedOut, Finish
  <1>8. CASE Config_Linked
    BY <1>8 DEF Config_Linked, WritePHY, Access
  <1>9. CASE Config_Auto
    BY <1>9 DEF Config_Auto, ReadPHY, Access
  <1>10. CASE Config_Negotiated
    BY <1>10 DEF Config_Negotiated, ReadPHY, Access
  <1>11. CASE Config_Result
    BY <1>11 DEF Config_Result, Finish, Result
  <1>12. CASE Config_Registers
    BY <1>12 DEF Config_Registers, Registers
  <1>13. CASE LoopBack_Write
    BY <1>13 DEF LoopBack_Write, WritePHY, Access
  <1>14. CASE LoopBack_Return
    BY <1>14 DEF LoopBack_Return
  <1>15. CASE Mii_End
    BY <1>15 DEF Mii_End
  <1>16. CASE Phy_Link
    BY <1>16 DEF Phy_Link
  <1>17. CASE Phy_Negotiate
    BY <1>17 DEF Phy_Negotiate
  <1>18. ASSUME NEW late \in BOOLEAN, Poll(late) PROVE AutoInv'
    BY <1>18 DEF Poll
  <1>19. ASSUME NEW on \in BOOLEAN, LoopBack_Read(on) PROVE AutoInv'
    BY <1>19 DEF LoopBack_Read, ReadPHY, Access
  <1>20. QED
    BY <1>1, <1>2, <1>3, <1>4, <1>5, <1>6, <1>7, <1>8, <1>9, <1>10,
       <1>11, <1>12, <1>13, <1>14, <1>15, <1>16, <1>17, <1>18, <1>19 DEF PhyNext, PhyCpu, Config

(* A forced setting is what the control register says, if speed and mode are equal. *)
LEMMA ForcedStep ==
    ASSUME PhyType, Prompt, LoopBackInv, AutoInv, ForcedInv, PhyNext
    PROVE  ForcedInv'
  <1> USE DEF PhyType, MiiRegs, CpuState, At, Stay, Untouched, 
             Prompt, LoopBackInv, AutoInv, ForcedInv, ForcedBits, Configured
  <1>1. CASE Config_Reset
    BY <1>1 DEF Config_Reset, WritePHY, Access
  <1>2. CASE Config_Negotiate
    BY <1>2 DEF Config_Negotiate, ReadPHY, Access
  <1>3. CASE Config_Force
    BY <1>3 DEF Config_Force, WritePHY, Access
  <1>4. CASE Config_NoReset
    BY <1>4 DEF Config_NoReset, Finish
  <1>5. CASE Config_Forced
    BY <1>5 DEF Config_Forced, Finish
  <1>6. CASE Config_Wait
    BY <1>6 DEF Config_Wait, ReadPHY, Access
  <1>7. CASE Config_TimedOut
    BY <1>7 DEF Config_TimedOut, Finish
  <1>8. CASE Config_Linked
    BY <1>8 DEF Config_Linked, WritePHY, Access
  <1>9. CASE Config_Auto
    BY <1>9 DEF Config_Auto, ReadPHY, Access
  <1>10. CASE Config_Negotiated
    BY <1>10 DEF Config_Negotiated, ReadPHY, Access
  <1>11. CASE Config_Result
    BY <1>11 DEF Config_Result, Finish, Result
  <1>12. CASE Config_Registers
    BY <1>12 DEF Config_Registers, Registers
  <1>13. CASE LoopBack_Write
    BY <1>13 DEF LoopBack_Write, WritePHY, Access
  <1>14. CASE LoopBack_Return
    BY <1>14 DEF LoopBack_Return
  <1>15. CASE Mii_End
    BY <1>15 DEF Mii_End, Register
  <1>16. CASE Phy_Link
    BY <1>16 DEF Phy_Link
  <1>17. CASE Phy_Negotiate
    BY <1>17 DEF Phy_Negotiate
  <1>18. ASSUME NEW late \in BOOLEAN, Poll(late) PROVE ForcedInv'
    BY <1>18 DEF Poll
  <1>19. ASSUME NEW on \in BOOLEAN, LoopBack_Read(on) PROVE ForcedInv'
    BY <1>19 DEF LoopBack_Read, ReadPHY, Access
  <1>20. QED
    BY <1>1, <1>2, <1>3, <1>4, <1>5, <1>6, <1>7, <1>8, <1>9, <1>10,
       <1>11, <1>12, <1>13, <1>14, <1>15, <1>16, <1>17, <1>18, <1>19 DEF PhyNext, PhyCpu, Config

(* An error sets the MAC to its default. *)
LEMMA ErrorStep ==
    ASSUME PhyType, LoopBackInv, ErrorInv, PhyNext
    PROVE  ErrorInv'
  <1> USE DEF PhyType, MiiRegs, CpuState, At, Stay, Untouched, LoopBackInv, ErrorInv
  <1>1. CASE Config_Reset
    BY <1>1 DEF Config_Reset, WritePHY, Access
  <1>2. CASE Config_Negotiate
    BY <1>2 DEF Config_Negotiate, ReadPHY, Access
  <1>3. CASE Config_Force
    BY <1>3 DEF Config_Force, WritePHY, Access
  <1>4. CASE Config_NoReset
    BY <1>4 DEF Config_NoReset, Finish
  <1>5. CASE Config_Forced
    BY <1>5 DEF Config_Forced, Finish
  <1>6. CASE Config_Wait
    BY <1>6 DEF Config_Wait, ReadPHY, Access
  <1>7. CASE Config_TimedOut
    BY <1>7 DEF Config_TimedOut, Finish
  <1>8. CASE Config_Linked
    BY <1>8 DEF Config_Linked, WritePHY, Access
  <1>9. CASE Config_Auto
    BY <1>9 DEF Config_Auto, ReadPHY, Access
  <1>10. CASE Config_Negotiated
    BY <1>10 DEF Config_Negotiated, ReadPHY, Access
  <1>11. CASE Config_Result
    BY <1>11 DEF Config_Result, Finish
  <1>12. CASE Config_Registers
    BY <1>12 DEF Config_Registers, Registers
  <1>13. CASE LoopBack_Write
    BY <1>13 DEF LoopBack_Write, WritePHY, Access
  <1>14. CASE LoopBack_Return
    BY <1>14 DEF LoopBack_Return
  <1>15. CASE Mii_End
    BY <1>15 DEF Mii_End
  <1>16. CASE Phy_Link
    BY <1>16 DEF Phy_Link
  <1>17. CASE Phy_Negotiate
    BY <1>17 DEF Phy_Negotiate
  <1>18. ASSUME NEW late \in BOOLEAN, Poll(late) PROVE ErrorInv'
    BY <1>18 DEF Poll
  <1>19. ASSUME NEW on \in BOOLEAN, LoopBack_Read(on) PROVE ErrorInv'
    BY <1>19 DEF LoopBack_Read, ReadPHY, Access
  <1>20. QED
    BY <1>1, <1>2, <1>3, <1>4, <1>5, <1>6, <1>7, <1>8, <1>9, <1>10,
       <1>11, <1>12, <1>13, <1>14, <1>15, <1>16, <1>17, <1>18, <1>19 DEF PhyNext, PhyCpu, Config

-----------------------------------------------------------------------------
(* The initial states.  Straight: without negotiation the caller asks for  *)
(* 10 Mbit/s half duplex or for 100 Mbit/s full duplex.                    *)
Straight == \A f \in Forced : f.speed = f.mode

LEMMA InitCore == EthPhyAssumption /\ PhyInit => PhyType /\ Prompt /\ LoopBackInv
  <1> SUFFICES ASSUME EthPhyAssumption, PhyInit PROVE PhyType /\ Prompt /\ LoopBackInv
    OBVIOUS
  <1>1. 0 \in 0..Limit /\ 0 \in 0..1 /\ 1 \in 0..1
    BY DEF EthPhyAssumption
  <1>2. {} \in SUBSET AllBits /\ {"AUTONEGOTIATION"} \in SUBSET (AllBits \ {"RESET"})
    BY DEF AllBits, BcrBits
  <1>3. mii \in MiiRegs /\ phyCpu \in CpuState
    BY <1>1, <1>2, Zenon DEF PhyInit, MiiRegs, CpuState, Pcs
  <1>4. MAC \in Setting
    BY <1>1, Zenon DEF PhyInit, Setting
  <1>5. ethConfig \in [auto : BOOLEAN, speed : 0..1, mode : 0..1]
    <2>1. CASE ethConfig = [auto |-> TRUE, speed |-> 1, mode |-> 1]
      BY <1>1, <2>1, Zenon
    <2>2. CASE \E f \in Forced : ethConfig = [auto |-> FALSE, speed |-> f.speed, mode |-> f.mode]
      <3>1. PICK f \in Forced : ethConfig = [auto |-> FALSE, speed |-> f.speed, mode |-> f.mode]
        BY <2>2
      <3>2. f.speed \in 0..1 /\ f.mode \in 0..1
        BY DEF EthPhyAssumption
      <3>3. QED
        BY <3>1, <3>2, Zenon
    <2>3. QED
      BY <2>1, <2>2 DEF PhyInit
  <1>6. timely \in BOOLEAN
    BY Zenon DEF PhyInit, EthPhyAssumption
  <1>7. PhyType
    BY <1>2, <1>3, <1>4, <1>5, <1>6 DEF PhyInit, PhyType
  <1>8. QED
    BY <1>7 DEF PhyInit, Prompt, LoopBackInv

LEMMA InitRest == EthPhyAssumption /\ Straight /\ PhyInit => AutoInv /\ ForcedInv /\ ErrorInv
  <1> SUFFICES ASSUME EthPhyAssumption, Straight, PhyInit PROVE AutoInv /\ ForcedInv /\ ErrorInv
    OBVIOUS
  <1>1. ~ethConfig.auto => ethConfig.speed = ethConfig.mode
    BY DEF PhyInit, Straight
  <1>2. /\ phyCpu.pc = "config" /\ phyCpu.at = "step" /\ BCR = {"AUTONEGOTIATION"} /\ mii.MB = FALSE
    BY DEF PhyInit
  <1>3. QED
    BY <1>1, <1>2 DEF AutoInv, ForcedInv, ErrorInv

-----------------------------------------------------------------------------
(* What all calls keep, and what ETH_Config keeps with a Straight caller. *)
CoreInv == PhyType /\ Prompt /\ LoopBackInv

LEMMA CoreStep == EthPhyAssumption /\ CoreInv /\ [PhyNext]_phyVars => CoreInv'
  <1>1. CoreInv /\ UNCHANGED phyVars => CoreInv'
    BY DEF CoreInv, PhyType, Prompt, LoopBackInv, Reads, Register, PhySetting, phyVars
  <1>2. EthPhyAssumption /\ CoreInv /\ PhyNext => CoreInv'
    BY TypeStep, PromptStep, LoopBackStep DEF CoreInv
  <1>3. QED
    BY <1>1, <1>2

LEMMA PhyStep == EthPhyAssumption /\ PhyInv /\ [PhyNext]_phyVars => PhyInv'
  <1>1. PhyInv /\ UNCHANGED phyVars => PhyInv'
    BY DEF PhyInv, PhyType, Prompt, LoopBackInv, AutoInv, ForcedInv, ErrorInv, Reads, Register,
           PhySetting, Configured, ForcedBits, phyVars
  <1>2. EthPhyAssumption /\ PhyInv /\ PhyNext => PhyInv'
    BY TypeStep, PromptStep, LoopBackStep, AutoStep, ForcedStep, ErrorStep DEF PhyInv
  <1>3. QED
    BY <1>1, <1>2

LEMMA CoreAlways == ASSUME EthPhyAssumption PROVE PhySpec => []CoreInv
  <1>1. PhyInit => CoreInv
    BY InitCore DEF CoreInv
  <1>2. CoreInv /\ [PhyNext]_phyVars => CoreInv'
    BY CoreStep
  <1>3. QED
    BY <1>1, <1>2, PTL DEF PhySpec

(* The PHY, the MII and the calls keep their types, whether the MII is in  *)
(* time or not.                                                            *)
THEOREM PhyTypeCorrect == ASSUME EthPhyAssumption PROVE PhySpec => []PhyTypeOK
  <1>1. CoreInv => PhyTypeOK
    <2> SUFFICES ASSUME PhyType PROVE PhyTypeOK
      BY DEF CoreInv
    <2>1. mii.MB \in BOOLEAN /\ phyCpu.err \in BOOLEAN
      BY Zenon DEF PhyType, MiiRegs, CpuState
    <2>2. [speed |-> ethConfig.speed, mode |-> ethConfig.mode] \in Setting
      BY Zenon DEF PhyType, Setting
    <2>3. mii.out \in SUBSET AllBits /\ phyCpu.timeout \in 0..Limit
      BY DEF PhyType, MiiRegs, CpuState
    <2>4. QED
      BY <2>1, <2>2, <2>3 DEF PhyType, PhyTypeOK, AllBits
  <1>2. QED
    BY <1>1, CoreAlways, PTL

(* ETH_EnablePHYLoopBack and ETH_DisablePHYLoopBack change no bit of the   *)
(* control register but LOOPBACK, if the MII is in time.                   *)
THEOREM LoopBackChangesOneBit == ASSUME EthPhyAssumption PROVE PhySpec => LoopBackOnly
  <1>1. CoreInv /\ [PhyNext]_phyVars =>
            [(timely /\ phyCpu.pc = "written") => BCR' \ {"LOOPBACK"} = BCR \ {"LOOPBACK"}]_phyVars
    <2> SUFFICES ASSUME CoreInv, PhyNext, timely, phyCpu.pc = "written"
                 PROVE  BCR' \ {"LOOPBACK"} = BCR \ {"LOOPBACK"}
      OBVIOUS
    <2>1. CASE Mii_End
      BY <2>1 DEF CoreInv, LoopBackInv, Mii_End
    <2>2. CASE ~Mii_End
      BY <2>2 DEF PhyNext, PhyCpu, Config, Config_Reset, Config_Negotiate, Config_Force,
                  Config_NoReset, Config_Forced, Config_Wait, Config_TimedOut, Config_Linked,
                  Config_Auto, Config_Negotiated, Config_Result, Config_Registers,
                  LoopBack_Write, LoopBack_Return, LoopBack_Read, Poll, Phy_Link,
                  Phy_Negotiate, Stay, Untouched
    <2>3. QED
      BY <2>1, <2>2
  <1>2. QED
    BY <1>1, CoreAlways, PTL DEF PhySpec, LoopBackOnly

(* ETH_Config that returns ETH_SUCCESS leaves the MAC as the PHY is, if    *)
(* the MII is in time; one that returns ETH_ERROR leaves it at its default *)
(* however the MII behaves.                                                *)
THEOREM MacAgreesWithPhy ==
    ASSUME EthPhyAssumption, Straight
    PROVE  PhySpec => []MacAgrees
  <1>1. PhyInit => PhyInv
    BY InitCore, InitRest DEF PhyInv
  <1>2. PhyInv /\ [PhyNext]_phyVars => PhyInv'
    BY PhyStep
  <1>3. PhyInv => MacAgrees
    <2> SUFFICES ASSUME PhyInv, phyCpu.pc = "returned", calls = 0, ~phyCpu.err, timely
                 PROVE  MAC = PhySetting
      BY DEF PhyInv, ErrorInv, MacAgrees
    <2>1. CASE ethConfig.auto
      BY <2>1 DEF PhyInv, AutoInv, PhySetting
    <2>2. CASE ~ethConfig.auto
      <3>1. BCR = ForcedBits /\ MAC = Configured /\ ethConfig.speed = ethConfig.mode
        BY <2>2 DEF PhyInv, ForcedInv
      <3>2. ethConfig.speed \in {0, 1}
        BY DEF PhyInv, PhyType
      <3>3. QED
        BY <3>1, <3>2 DEF ForcedBits, Configured, PhySetting
    <2>3. QED
      BY <2>1, <2>2
  <1>4. QED
    BY <1>1, <1>2, <1>3, PTL DEF PhySpec

-----------------------------------------------------------------------------
(***************************************************************************)
(* Proofs about EthRx, for every length of the ring, every number of       *)
(* buffers a frame fills and any number of frames, lost and cut-off ones   *)
(* included: whichever way the caller reads, the ring implements           *)
(* FrameQueue, and segCount never passes the ring.                         *)
(*                                                                         *)
(* The descriptors that are not the engine's are those the driver has      *)
(* stepped over or the caller has not given back, and behind them the u    *)
(* unread ones, up to the engine's position.  A ghost function gives each  *)
(* unread descriptor x the frame J[x] and the part P[x] it holds; along    *)
(* the ring they follow each other without a gap, from the part the driver *)
(* looks at next to the part the engine stores next.                       *)
(***************************************************************************)

(* How far b lies behind a on the ring, and the k-th descriptor behind a. *)
RxDist(a, b) == IF b >= a THEN b - a ELSE b - a + ETH_RXBUFNB
Plus(a, k) == IF a + k < ETH_RXBUFNB THEN a + k ELSE a + k - ETH_RXBUFNB

(* Parts of the next frame the driver has stepped over, and descriptors in  *)
(* front of DMARxDescToGet that are not the engine's.                       *)
Releasing == rxCpu.at = "release"
Stepped ==
    CASE Releasing -> 0 [] rxCpu.at = "read" -> info.segCount - 1 [] OTHER -> info.segCount
HeldBack == IF Releasing THEN info.segCount - rxCpu.n ELSE Stepped

(* The part the engine stores next. *)
MacPart == IF rxMac.left > 0 THEN rxMac.done + 1 ELSE 1

(* Descriptor x holds part p of frame j: one of the stored frames, or the   *)
(* one the engine is storing.                                               *)
Holds(x, j, p) ==
    /\ rxDesc[x].FDES <=> p = 1
    /\ \/ /\ j \in 1..Len(stored) /\ p \in 1..Len(stored[j])
          /\ rxDesc[x].buf = stored[j][p]
          /\ rxDesc[x].LDES <=> p = Len(stored[j])
       \/ /\ j = Len(stored) + 1 /\ rxMac.left > 0 /\ p \in 1..rxMac.done
          /\ rxDesc[x].buf = <<rxMac.frame, p>>
          /\ ~rxDesc[x].LDES

RxType ==
    /\ rxDesc \in [RxRing -> [OWN : BOOLEAN, FDES : BOOLEAN, LDES : BOOLEAN,
                          buf : RxPart \cup {NoRxPart}]]
    /\ DMARxDescToGet \in RxRing
    /\ info \in [FS : RxRing, segCount : 0..ETH_RXBUFNB]
    /\ rxCpu \in [at : {"idle", "check", "read", "scan", "release"}, n : 0..ETH_RXBUFNB]
    /\ rxMac \in [d : RxRing, frame : 0..MaxRxFrames, done : 0..MaxSegs, left : 0..MaxSegs]
    /\ stored \in Seq(RxFrames) /\ read \in Seq(RxFrames)
    /\ rxMac.left > 0 => rxMac.done + rxMac.left <= MaxSegs /\ rxMac.frame > 0

(* Where the software is: FS_RxDesc lies segCount descriptors back. *)
CpuInv ==
    /\ Releasing => Plus(info.FS, info.segCount) = DMARxDescToGet /\ rxCpu.n <= info.segCount
    /\ ~Releasing /\ (Stepped > 0 \/ rxCpu.at = "read")
          => Plus(info.FS, Stepped) = DMARxDescToGet
    /\ rxCpu.at = "read" => info.segCount > 0 /\ ~Get.OWN /\ Get.LDES

(* What it has stepped over are the first parts of the next frame. *)
SteppedInv ==
    \A i \in 0..(ETH_RXBUFNB - 1) : i < Stepped =>
       Holds(Plus(info.FS, i), Len(read) + 1, i + 1) /\ ~rxDesc[Plus(info.FS, i)].LDES

RxWindow(u) ==
    /\ HeldBack + u <= ETH_RXBUFNB /\ rxMac.d = Plus(DMARxDescToGet, u)
    /\ \A x \in RxRing : rxDesc[x].OWN <=>
          u <= RxDist(DMARxDescToGet, x) /\ RxDist(DMARxDescToGet, x) < ETH_RXBUFNB - HeldBack
    /\ rxMac.left > 0 => HeldBack + u < ETH_RXBUFNB

(* The unread descriptors, and not more frames among them than descriptors. *)
Unread(u, J, P) ==
    \A x \in RxRing : RxDist(DMARxDescToGet, x) < u =>
       Holds(x, J[x], P[x]) /\ Len(stored) + 1 - J[x] <= u - RxDist(DMARxDescToGet, x)

(* Part p of frame j comes after what descriptor x holds. *)
RxFollows(x, J, P, j, p) ==
    IF rxDesc[x].LDES THEN j = J[x] + 1 /\ p = 1 ELSE j = J[x] /\ p = P[x] + 1

Linked(u, J, P) ==
    \A x \in RxRing : RxDist(DMARxDescToGet, x) + 1 < u =>
       RxFollows(x, J, P, J[NextRxDesc(x)], P[NextRxDesc(x)])

Ends(u, J, P) ==
    \A x \in RxRing : RxDist(DMARxDescToGet, x) + 1 = u =>
       RxFollows(x, J, P, Len(stored) + 1, MacPart)

Starts(u, J, P) ==
    /\ u = 0 => Len(read) = Len(stored) /\ MacPart = Stepped + 1
    /\ u > 0 => J[DMARxDescToGet] = Len(read) + 1 /\ P[DMARxDescToGet] = Stepped + 1

Positions == [RxRing -> Nat]
Counts == 0..ETH_RXBUFNB

RxChain(u, J, P) == Unread(u, J, P) /\ Linked(u, J, P) /\ Ends(u, J, P) /\ Starts(u, J, P)

Core == EthRxAssumption /\ RxType /\ CpuInv /\ SteppedInv

(* The inductive invariant. *)
RxInv ==
    Core /\ \E u \in Counts, J \in Positions, P \in Positions : RxWindow(u) /\ RxChain(u, J, P)

-----------------------------------------------------------------------------
(* Arithmetic on the ring. *)

LEMMA RxDistFacts ==
    ASSUME EthRxAssumption, NEW a \in RxRing, NEW b \in RxRing
    PROVE  RxDist(a, b) \in Nat /\ RxDist(a, b) < ETH_RXBUFNB /\ (RxDist(a, b) = 0 <=> a = b)
  BY DEF EthRxAssumption, RxRing, RxDist

LEMMA PlusFacts ==
    ASSUME EthRxAssumption, NEW a \in RxRing, NEW k \in Counts
    PROVE  /\ Plus(a, k) \in RxRing
           /\ k < ETH_RXBUFNB => RxDist(a, Plus(a, k)) = k
           /\ k = ETH_RXBUFNB => Plus(a, k) = a
           /\ k = 0 => Plus(a, k) = a
  BY DEF EthRxAssumption, RxRing, Counts, RxDist, Plus

LEMMA PlusDist ==
    ASSUME EthRxAssumption, NEW a \in RxRing, NEW b \in RxRing PROVE Plus(a, RxDist(a, b)) = b
  BY DEF EthRxAssumption, RxRing, RxDist, Plus

LEMMA NextFacts ==
    ASSUME EthRxAssumption, NEW a \in RxRing, NEW b \in RxRing
    PROVE  /\ NextRxDesc(a) \in RxRing /\ NextRxDesc(a) = Plus(a, 1)
           /\ RxDist(NextRxDesc(a), b) = IF b = a THEN ETH_RXBUFNB - 1 ELSE RxDist(a, b) - 1
           /\ RxDist(a, NextRxDesc(b)) = IF RxDist(a, b) + 1 < ETH_RXBUFNB THEN RxDist(a, b) + 1 ELSE 0
  BY DEF EthRxAssumption, RxRing, RxDist, Plus, NextRxDesc

LEMMA PlusNext ==
    ASSUME EthRxAssumption, NEW a \in RxRing, NEW k \in Counts, k < ETH_RXBUFNB
    PROVE  Plus(NextRxDesc(a), k) = Plus(a, k + 1) /\ NextRxDesc(Plus(a, k)) = Plus(a, k + 1)
  BY DEF EthRxAssumption, RxRing, Counts, Plus, NextRxDesc

LEMMA ModIsPlus ==
    ASSUME EthRxAssumption, NEW a \in RxRing, NEW k \in 0..(ETH_RXBUFNB - 1)
    PROVE  (a + k) % ETH_RXBUFNB = Plus(a, k)
  <1>1. ETH_RXBUFNB \in Nat \ {0} /\ a \in Nat /\ k \in Nat
    BY DEF EthRxAssumption, RxRing
  <1>2. CASE a + k < ETH_RXBUFNB
    <2>1. ASSUME NEW N \in Nat \ {0}, NEW m \in 0..(N - 1) PROVE m % N = m
      OBVIOUS
    <2>2. QED
      BY <1>1, <1>2, <2>1 DEF Plus
  <1>3. CASE ~(a + k < ETH_RXBUFNB)
    <2>1. ASSUME NEW N \in Nat \ {0}, NEW m \in N..(2 * N - 1) PROVE m % N = m - N
      OBVIOUS
    <2>2. a + k \in ETH_RXBUFNB..(2 * ETH_RXBUFNB - 1)
      BY <1>1, <1>3 DEF RxRing
    <2>3. (a + k) % ETH_RXBUFNB = (a + k) - ETH_RXBUFNB
      BY <1>1, <2>1, <2>2
    <2>4. QED
      BY <1>1, <1>3, <2>3 DEF Plus
  <1>4. QED
    BY <1>2, <1>3

(* The numbers of the invariant. *)
LEMMA Numbers ==
    ASSUME Core
    PROVE  /\ ETH_RXBUFNB \in Nat /\ ETH_RXBUFNB > 0 /\ MaxSegs \in Nat /\ MaxRxFrames \in Nat
           /\ DMARxDescToGet \in RxRing /\ rxMac.d \in RxRing /\ info.FS \in RxRing
           /\ info.segCount \in 0..ETH_RXBUFNB /\ rxCpu.n \in 0..ETH_RXBUFNB
           /\ Stepped \in 0..ETH_RXBUFNB /\ HeldBack \in 0..ETH_RXBUFNB
           /\ rxMac.left \in 0..MaxSegs /\ rxMac.done \in 0..MaxSegs /\ rxMac.frame \in 0..MaxRxFrames
           /\ Len(stored) \in Nat /\ Len(read) \in Nat /\ MacPart \in Nat
           /\ rxCpu.at \in {"idle", "check", "read", "scan", "release"}
  <1>1. /\ ETH_RXBUFNB \in Nat /\ ETH_RXBUFNB > 0 /\ MaxSegs \in Nat /\ MaxRxFrames \in Nat
        /\ DMARxDescToGet \in RxRing /\ rxMac.d \in RxRing /\ info.FS \in RxRing
        /\ info.segCount \in 0..ETH_RXBUFNB /\ rxCpu.n \in 0..ETH_RXBUFNB
        /\ rxMac.left \in 0..MaxSegs /\ rxMac.done \in 0..MaxSegs /\ rxMac.frame \in 0..MaxRxFrames
        /\ Len(stored) \in Nat /\ Len(read) \in Nat
        /\ rxCpu.at \in {"idle", "check", "read", "scan", "release"}
    BY DEF Core, EthRxAssumption, RxType
  <1>2. Stepped \in 0..ETH_RXBUFNB /\ HeldBack \in 0..ETH_RXBUFNB
    BY <1>1, SMTT(20) DEF Core, CpuInv, Stepped, HeldBack, Releasing
  <1>3. MacPart \in Nat
    BY <1>1 DEF MacPart
  <1>4. QED
    BY <1>1, <1>2, <1>3

(* While the software looks for a frame, a descriptor it may look at is unread. *)
LEMMA FoundUnread ==
    ASSUME Core, NEW u \in Counts, NEW J, NEW P, RxWindow(u), RxChain(u, J, P),
           ~Releasing, ~Get.OWN
    PROVE  /\ u > 0 /\ J[DMARxDescToGet] = Len(read) + 1 /\ P[DMARxDescToGet] = Stepped + 1
           /\ Holds(DMARxDescToGet, Len(read) + 1, Stepped + 1)
           /\ Stepped + u <= ETH_RXBUFNB /\ HeldBack = Stepped
  <1>1. HeldBack = Stepped
    BY DEF HeldBack
  <1>2. RxDist(DMARxDescToGet, DMARxDescToGet) = 0
    BY Numbers, RxDistFacts DEF Core
  <1>3. u > 0
    <2> SUFFICES ASSUME u = 0 PROVE FALSE
      BY DEF Counts
    <2>1. Stepped = ETH_RXBUFNB
      BY <1>1, <1>2, Numbers DEF RxWindow, Get
    <2>2. rxMac.left > 0
      BY <2>1, Numbers DEF RxChain, Starts, MacPart
    <2>3. QED
      BY <1>1, <2>1, <2>2, Numbers DEF RxWindow
  <1>4. J[DMARxDescToGet] = Len(read) + 1 /\ P[DMARxDescToGet] = Stepped + 1
    BY <1>3 DEF RxChain, Starts
  <1>5. QED
    BY <1>1, <1>2, <1>3, <1>4, Numbers DEF RxChain, Unread, RxWindow

-----------------------------------------------------------------------------
(* The driver goes on to the next descriptor. *)

LEMMA AdvanceWindow ==
    ASSUME Core, NEW u \in Counts, u > 0, RxWindow(u), Advance, UNCHANGED <<rxDesc, rxMac>>,
           HeldBack' = HeldBack + 1
    PROVE  RxWindow(u - 1)'
  <1>1. /\ DMARxDescToGet' = NextRxDesc(DMARxDescToGet) /\ rxDesc' = rxDesc /\ rxMac' = rxMac
        /\ u \in Nat /\ u <= ETH_RXBUFNB
    BY DEF Advance, Counts
  <1>2. HeldBack' + (u - 1) <= ETH_RXBUFNB /\ (rxMac'.left > 0 => HeldBack' + (u - 1) < ETH_RXBUFNB)
    <2>1. HeldBack \in Nat /\ ETH_RXBUFNB \in Nat
      BY Numbers
    <2>2. HeldBack + u <= ETH_RXBUFNB /\ (rxMac.left > 0 => HeldBack + u < ETH_RXBUFNB)
      BY DEF RxWindow
    <2>3. HeldBack' + (u - 1) = HeldBack + u
      BY <1>1, <2>1
    <2>4. QED
      BY <1>1, <2>2, <2>3
  <1>3. rxMac'.d = Plus(DMARxDescToGet', u - 1)
    <2>1. u - 1 \in Counts /\ u - 1 < ETH_RXBUFNB
      BY <1>1, Numbers DEF Counts
    <2>2. Plus(NextRxDesc(DMARxDescToGet), u - 1) = Plus(DMARxDescToGet, (u - 1) + 1)
      BY <2>1, Numbers, PlusNext DEF Core
    <2>3. QED
      BY <1>1, <2>2 DEF RxWindow
  <1>4. ASSUME NEW x \in RxRing
        PROVE  rxDesc'[x].OWN <=> /\ u - 1 <= RxDist(DMARxDescToGet', x)
                                /\ RxDist(DMARxDescToGet', x) < ETH_RXBUFNB - HeldBack'
    <2>1. RxDist(DMARxDescToGet', x) = IF x = DMARxDescToGet THEN ETH_RXBUFNB - 1
                                     ELSE RxDist(DMARxDescToGet, x) - 1
      BY <1>1, Numbers, NextFacts DEF Core
    <2>2. RxDist(DMARxDescToGet, x) \in Nat /\ (RxDist(DMARxDescToGet, x) = 0 <=> x = DMARxDescToGet)
      BY Numbers, RxDistFacts DEF Core
    <2>3. rxDesc[x].OWN <=> /\ u <= RxDist(DMARxDescToGet, x)
                          /\ RxDist(DMARxDescToGet, x) < ETH_RXBUFNB - HeldBack
      BY DEF RxWindow
    <2>4. HeldBack \in Nat /\ HeldBack' = HeldBack + 1 /\ ETH_RXBUFNB \in Nat /\ rxDesc' = rxDesc
      BY <1>1, Numbers
    <2>5. CASE x = DMARxDescToGet
      BY <1>1, <2>1, <2>2, <2>3, <2>4, <2>5
    <2>6. CASE x # DMARxDescToGet
      BY <1>1, <2>1, <2>2, <2>3, <2>4, <2>6
    <2>7. QED
      BY <2>5, <2>6
  <1>5. QED
    BY <1>2, <1>3, <1>4 DEF RxWindow

LEMMA AdvanceChain ==
    ASSUME Core, NEW u \in Counts, NEW J, NEW P, u > 0, RxChain(u, J, P), Advance,
           UNCHANGED <<rxDesc, rxMac, stored>>
    PROVE  /\ Unread(u - 1, J, P)' /\ Linked(u - 1, J, P)' /\ Ends(u - 1, J, P)'
           /\ u = 1 => RxFollows(DMARxDescToGet, J, P, Len(stored) + 1, MacPart)
           /\ u > 1 => RxFollows(DMARxDescToGet, J, P, J[DMARxDescToGet'], P[DMARxDescToGet'])
  <1>1. /\ DMARxDescToGet' = NextRxDesc(DMARxDescToGet) /\ u \in Nat /\ u <= ETH_RXBUFNB
    BY DEF Advance, Counts
  <1>2. ASSUME NEW x \in RxRing, RxDist(DMARxDescToGet', x) < u - 1
        PROVE  RxDist(DMARxDescToGet, x) = RxDist(DMARxDescToGet', x) + 1
    <2>1. RxDist(DMARxDescToGet', x) = IF x = DMARxDescToGet THEN ETH_RXBUFNB - 1
                                     ELSE RxDist(DMARxDescToGet, x) - 1
      BY <1>1, Numbers, NextFacts DEF Core
    <2>2. RxDist(DMARxDescToGet, x) \in Nat
      BY Numbers, RxDistFacts DEF Core
    <2>3. QED
      BY <1>1, <1>2, <2>1, <2>2, Numbers
  <1>3. ASSUME NEW x \in RxRing PROVE RxDist(DMARxDescToGet', x) \in Nat
    BY <1>1, Numbers, NextFacts, RxDistFacts DEF Core
  <1>4. ASSUME NEW x \in RxRing, NEW j, NEW p
        PROVE  (Holds(x, j, p)' <=> Holds(x, j, p)) /\ MacPart' = MacPart
               /\ (RxFollows(x, J, P, j, p)' <=> RxFollows(x, J, P, j, p))
    BY DEF Holds, RxFollows, MacPart
  <1>5. Unread(u - 1, J, P)'
    <2> SUFFICES ASSUME NEW x \in RxRing, RxDist(DMARxDescToGet', x) < u - 1
                 PROVE  /\ Holds(x, J[x], P[x])'
                        /\ Len(stored') + 1 - J[x] <= (u - 1) - RxDist(DMARxDescToGet', x)
      BY DEF Unread
    <2>1. RxDist(DMARxDescToGet, x) < u
          /\ (u - 1) - RxDist(DMARxDescToGet', x) = u - RxDist(DMARxDescToGet, x)
      BY <1>1, <1>2, <1>3
    <2>2. QED
      BY <1>4, <2>1 DEF RxChain, Unread
  <1>6. Linked(u - 1, J, P)'
    <2> SUFFICES ASSUME NEW x \in RxRing, RxDist(DMARxDescToGet', x) + 1 < u - 1
                 PROVE  RxFollows(x, J, P, J[NextRxDesc(x)], P[NextRxDesc(x)])'
      BY DEF Linked
    <2>1. RxDist(DMARxDescToGet', x) < u - 1
      BY <1>1, <1>3
    <2>2. RxDist(DMARxDescToGet, x) + 1 < u
      BY <1>1, <1>2, <1>3, <2>1
    <2>3. QED
      BY <1>4, <2>2 DEF RxChain, Linked
  <1>7. Ends(u - 1, J, P)'
    <2> SUFFICES ASSUME NEW x \in RxRing, RxDist(DMARxDescToGet', x) + 1 = u - 1
                 PROVE  RxFollows(x, J, P, Len(stored) + 1, MacPart)'
      BY DEF Ends
    <2>1. RxDist(DMARxDescToGet', x) < u - 1
      BY <1>1, <1>3
    <2>2. RxDist(DMARxDescToGet, x) + 1 = u
      BY <1>1, <1>2, <1>3, <2>1
    <2>3. RxFollows(x, J, P, Len(stored) + 1, MacPart)
      BY <2>2 DEF RxChain, Ends
    <2>4. QED
      BY <1>4, <2>3 DEF RxFollows
  <1>8. RxDist(DMARxDescToGet, DMARxDescToGet) = 0
    BY Numbers, RxDistFacts DEF Core
  <1>9. /\ u = 1 => RxFollows(DMARxDescToGet, J, P, Len(stored) + 1, MacPart)
        /\ u > 1 => RxFollows(DMARxDescToGet, J, P, J[DMARxDescToGet'], P[DMARxDescToGet'])
    BY <1>1, <1>8, Numbers DEF RxChain, Linked, Ends
  <1>10. QED
    BY <1>5, <1>6, <1>7, <1>9

-----------------------------------------------------------------------------
(* The software's steps. *)

Cpus == [at : {"idle", "check", "read", "scan", "release"}, n : 0..ETH_RXBUFNB]
Infos == [FS : RxRing, segCount : 0..ETH_RXBUFNB]
Looking == {"idle", "check", "scan"}

(* What holds of a descriptor does not depend on the software's position. *)
LEMMA HoldsSame ==
    ASSUME UNCHANGED <<rxDesc, rxMac, stored>>, NEW x, NEW j, NEW p
    PROVE  (Holds(x, j, p)' <=> Holds(x, j, p)) /\ MacPart' = MacPart
  BY DEF Holds, MacPart

(* A call, and a look at a descriptor of the engine. *)
LEMMA LookOn ==
    ASSUME RxInv, rxCpu.at \in Looking, rxCpu' \in Cpus, rxCpu'.at \in Looking,
           UNCHANGED <<rxDesc, DMARxDescToGet, info, rxMac, stored, read>>
    PROVE  RxInv'
  <1>1. Stepped = info.segCount /\ Stepped' = Stepped /\ HeldBack' = HeldBack
        /\ ~Releasing /\ ~Releasing' /\ MacPart' = MacPart
    BY DEF Looking, Stepped, HeldBack, Releasing, MacPart
  <1>2. RxType'
    BY DEF RxInv, Core, RxType, Cpus
  <1>3. CpuInv'
    BY <1>1 DEF RxInv, Core, CpuInv, Looking, Get
  <1>4. SteppedInv'
    BY <1>1, HoldsSame DEF RxInv, Core, SteppedInv
  <1>5. PICK u \in Counts, J \in Positions, P \in Positions : RxWindow(u) /\ RxChain(u, J, P)
    BY DEF RxInv
  <1>6. RxWindow(u)'
    BY <1>1, <1>5 DEF RxWindow
  <1>7. RxChain(u, J, P)'
    BY <1>1, <1>5 DEF RxChain, Unread, Linked, Ends, Starts, Holds, RxFollows
  <1>8. QED
    BY <1>2, <1>3, <1>4, <1>6, <1>7 DEF RxInv, Core

(* A segment that is not the last is stepped over. *)
LEMMA StepOver ==
    ASSUME RxInv, rxCpu.at \in Looking, ~Get.OWN, ~Get.LDES, Advance,
           info' = (IF Get.FDES THEN FirstSegment ELSE MiddleSegment),
           rxCpu' \in Cpus, rxCpu'.at \in Looking, UNCHANGED <<rxDesc, rxMac, stored, read>>
    PROVE  RxInv'
  <1>0. Core /\ EthRxAssumption
    BY DEF RxInv, Core
  <1>1. PICK u \in Counts, J \in Positions, P \in Positions : RxWindow(u) /\ RxChain(u, J, P)
    BY DEF RxInv
  <1>2. ~Releasing /\ ~Releasing' /\ Stepped = info.segCount /\ Stepped' = info'.segCount
        /\ HeldBack = Stepped /\ HeldBack' = Stepped'
    BY DEF Looking, Stepped, HeldBack, Releasing
  <1>3. /\ u > 0 /\ J[DMARxDescToGet] = Len(read) + 1 /\ P[DMARxDescToGet] = Stepped + 1
        /\ Holds(DMARxDescToGet, Len(read) + 1, Stepped + 1) /\ Stepped + u <= ETH_RXBUFNB
    BY <1>0, <1>1, <1>2, FoundUnread
  <1>4. u \in Nat /\ Stepped \in Nat /\ Stepped + 1 <= ETH_RXBUFNB /\ ETH_RXBUFNB \in Nat
    BY <1>0, <1>3, Numbers DEF Counts
  <1>5. Get.FDES <=> Stepped = 0
    BY <1>3, <1>4 DEF Holds, Get
  <1>6. info \in Infos /\ DMARxDescToGet \in RxRing
    BY <1>0 DEF Core, RxType, Infos
  <1>7. /\ info' \in Infos /\ info'.segCount = Stepped + 1
        /\ info'.FS = IF Stepped = 0 THEN DMARxDescToGet ELSE info.FS
    BY <1>2, <1>4, <1>5, <1>6 DEF Infos, FirstSegment, MiddleSegment
  <1>8. Plus(info'.FS, Stepped) = DMARxDescToGet
    <2>1. CASE Stepped = 0
      BY <1>0, <1>4, <1>6, <1>7, <2>1, PlusFacts DEF Counts
    <2>2. CASE Stepped # 0
      BY <1>0, <1>2, <1>4, <1>7, <2>2 DEF Core, CpuInv
    <2>3. QED
      BY <2>1, <2>2
  <1>9. DMARxDescToGet' \in RxRing /\ DMARxDescToGet' = Plus(info'.FS, Stepped + 1)
    <2>1. info'.FS \in RxRing /\ Stepped \in Counts /\ Stepped < ETH_RXBUFNB
      BY <1>4, <1>7 DEF Infos, Counts
    <2>2. NextRxDesc(Plus(info'.FS, Stepped)) = Plus(info'.FS, Stepped + 1)
      BY <1>0, <2>1, PlusNext
    <2>3. QED
      BY <1>0, <1>6, <1>8, <2>2, NextFacts DEF Advance
  <1>10. RxType'
    BY <1>0, <1>7, <1>9 DEF Core, RxType, Cpus, Infos
  <1>11. CpuInv'
    BY <1>2, <1>7, <1>9 DEF CpuInv, Looking
  <1>12. SteppedInv'
    <2> SUFFICES ASSUME NEW i \in 0..(ETH_RXBUFNB - 1), i < Stepped + 1
                 PROVE  /\ Holds(Plus(info'.FS, i), Len(read) + 1, i + 1)
                        /\ ~rxDesc[Plus(info'.FS, i)].LDES
      BY <1>2, <1>7, HoldsSame DEF SteppedInv
    <2>1. CASE i = Stepped
      BY <1>3, <1>8, <2>1 DEF Get
    <2>2. CASE i # Stepped
      <3>1. i < Stepped /\ info'.FS = info.FS
        BY <1>4, <1>7, <2>2
      <3>2. QED
        BY <1>0, <3>1 DEF Core, SteppedInv
    <2>3. QED
      BY <2>1, <2>2
  <1>13. RxWindow(u - 1)'
    BY <1>0, <1>1, <1>2, <1>3, <1>7, AdvanceWindow
  <1>14. /\ Unread(u - 1, J, P)' /\ Linked(u - 1, J, P)' /\ Ends(u - 1, J, P)'
         /\ u = 1 => RxFollows(DMARxDescToGet, J, P, Len(stored) + 1, MacPart)
         /\ u > 1 => RxFollows(DMARxDescToGet, J, P, J[DMARxDescToGet'], P[DMARxDescToGet'])
    BY <1>0, <1>1, <1>3, AdvanceChain
  <1>15. Starts(u - 1, J, P)'
    <2>1. MacPart' = MacPart /\ Len(read) \in Nat /\ Len(stored) \in Nat
      BY <1>0, Numbers, HoldsSame
    <2>2. u = 1 => Len(read) = Len(stored) /\ MacPart = (Stepped + 1) + 1
      BY <1>3, <1>14, <2>1 DEF RxFollows, Get
    <2>3. u > 1 => J[DMARxDescToGet'] = Len(read) + 1 /\ P[DMARxDescToGet'] = (Stepped + 1) + 1
      BY <1>3, <1>14 DEF RxFollows, Get
    <2>4. QED
      BY <1>2, <1>4, <1>7, <2>1, <2>2, <2>3 DEF Starts
  <1>16. u - 1 \in Counts
    BY <1>3, <1>4 DEF Counts
  <1>17. Core'
    BY <1>0, <1>10, <1>11, <1>12 DEF Core
  <1>18. QED
    BY <1>13, <1>14, <1>15, <1>16, <1>17 DEF RxInv, RxChain

(* The last segment is there: FS_RxDesc and segCount describe the frame. *)
LEMMA LastSegmentIs ==
    ASSUME RxInv, rxCpu.at \in Looking, ~Get.OWN
    PROVE  /\ LastSegment \in Infos /\ LastSegment.segCount = Stepped + 1
           /\ Plus(LastSegment.FS, Stepped) = DMARxDescToGet
           /\ Stepped > 0 => LastSegment.FS = info.FS
  <1>0. Core /\ EthRxAssumption
    BY DEF RxInv, Core
  <1>1. PICK u \in Counts, J \in Positions, P \in Positions : RxWindow(u) /\ RxChain(u, J, P)
    BY DEF RxInv
  <1>2. ~Releasing /\ Stepped = info.segCount
    BY DEF Looking, Stepped, Releasing
  <1>3. u > 0 /\ Stepped + u <= ETH_RXBUFNB
    BY <1>0, <1>1, <1>2, FoundUnread
  <1>4. u \in Nat /\ Stepped \in Nat /\ Stepped + 1 <= ETH_RXBUFNB /\ ETH_RXBUFNB \in Nat
    BY <1>0, <1>3, Numbers DEF Counts
  <1>5. info \in Infos /\ DMARxDescToGet \in RxRing
    BY <1>0 DEF Core, RxType, Infos
  <1>6. /\ LastSegment \in Infos /\ LastSegment.segCount = Stepped + 1
        /\ LastSegment.FS = IF Stepped = 0 THEN DMARxDescToGet ELSE info.FS
    BY <1>2, <1>4, <1>5 DEF Infos, LastSegment
  <1>7. CASE Stepped = 0
    BY <1>0, <1>4, <1>5, <1>6, <1>7, PlusFacts DEF Counts
  <1>8. CASE Stepped # 0
    BY <1>0, <1>2, <1>4, <1>6, <1>8 DEF Core, CpuInv
  <1>9. QED
    BY <1>6, <1>7, <1>8

LEMMA FoundLast ==
    ASSUME RxInv, rxCpu.at = "check", ~Get.OWN, Get.LDES, info' = LastSegment,
           rxCpu' = [rxCpu EXCEPT !.at = "read"],
           UNCHANGED <<rxDesc, DMARxDescToGet, rxMac, stored, read>>
    PROVE  RxInv'
  <1>0. Core /\ EthRxAssumption /\ Get' = Get
    BY DEF RxInv, Core, Get
  <1>1. PICK u \in Counts, J \in Positions, P \in Positions : RxWindow(u) /\ RxChain(u, J, P)
    BY DEF RxInv
  <1>2. /\ info' \in Infos /\ info'.segCount = Stepped + 1 /\ Stepped \in Nat
        /\ Plus(info'.FS, Stepped) = DMARxDescToGet /\ (Stepped > 0 => info'.FS = info.FS)
    BY <1>0, Numbers, LastSegmentIs DEF Looking
  <1>3. rxCpu' \in Cpus /\ rxCpu'.at = "read"
    BY <1>0 DEF Core, RxType, Cpus
  <1>4. ~Releasing /\ ~Releasing' /\ Stepped' = Stepped /\ HeldBack' = HeldBack
    BY <1>2, <1>3 DEF Stepped, HeldBack, Releasing
  <1>5. RxType'
    BY <1>0, <1>2, <1>3 DEF Core, RxType, Cpus, Infos
  <1>6. CpuInv'
    BY <1>0, <1>2, <1>3, <1>4 DEF CpuInv
  <1>7. SteppedInv'
    BY <1>0, <1>2, <1>4, HoldsSame DEF Core, SteppedInv
  <1>8. RxWindow(u)'
    BY <1>1, <1>4 DEF RxWindow
  <1>9. RxChain(u, J, P)'
    BY <1>1, <1>4 DEF RxChain, Unread, Linked, Ends, Starts, Holds, RxFollows, MacPart
  <1>10. QED
    BY <1>0, <1>5, <1>6, <1>7, <1>8, <1>9 DEF RxInv, Core

(* What the caller finds when it walks the descriptors is the next frame. *)
LEMMA WalkIsFrame ==
    ASSUME RxInv, ~Releasing, ~Get.OWN, Get.LDES, NEW fs \in RxRing,
           Plus(fs, Stepped) = DMARxDescToGet, Stepped > 0 => fs = info.FS
    PROVE  /\ Len(read) + 1 \in 1..Len(stored)
           /\ Walk(fs, Stepped + 1) = stored[Len(read) + 1]
  <1>0. Core /\ EthRxAssumption
    BY DEF RxInv, Core
  <1>1. PICK u \in Counts, J \in Positions, P \in Positions : RxWindow(u) /\ RxChain(u, J, P)
    BY DEF RxInv
  <1>2. Holds(DMARxDescToGet, Len(read) + 1, Stepped + 1) /\ Stepped + u <= ETH_RXBUFNB /\ u > 0
    BY <1>0, <1>1, FoundUnread
  <1>3. Stepped \in Nat /\ Stepped + 1 <= ETH_RXBUFNB /\ ETH_RXBUFNB \in Nat
    BY <1>0, <1>2, Numbers DEF Counts
  <1> DEFINE j == Len(read) + 1
  <1>4. /\ j \in 1..Len(stored) /\ Stepped + 1 = Len(stored[j])
        /\ rxDesc[DMARxDescToGet].buf = stored[j][Stepped + 1]
    BY <1>2 DEF Holds, Get
  <1>5. ASSUME NEW k \in 1..(Stepped + 1)
        PROVE  rxDesc[(fs + k - 1) % ETH_RXBUFNB].buf = stored[j][k]
    <2>1. k - 1 \in 0..(ETH_RXBUFNB - 1) /\ fs \in Int /\ fs + k - 1 = fs + (k - 1)
      BY <1>3 DEF RxRing
    <2>2. (fs + k - 1) % ETH_RXBUFNB = Plus(fs, k - 1)
      BY <1>0, <2>1, ModIsPlus
    <2>3. CASE k = Stepped + 1
      <3>1. k - 1 = Stepped
        BY <1>3, <2>3
      <3>2. QED
        BY <1>4, <2>2, <2>3, <3>1
    <2>4. CASE k # Stepped + 1
      <3>1. k - 1 < Stepped /\ Stepped > 0 /\ (k - 1) + 1 = k
        BY <1>3, <2>4
      <3>2. Holds(Plus(info.FS, k - 1), j, (k - 1) + 1)
        BY <1>0, <2>1, <3>1 DEF Core, SteppedInv
      <3>3. rxDesc[Plus(info.FS, k - 1)].buf = stored[j][k]
        BY <1>0, <1>4, <3>1, <3>2, Numbers DEF Holds
      <3>4. QED
        BY <2>2, <3>1, <3>3
    <2>5. QED
      BY <2>3, <2>4
  <1>6. /\ DOMAIN stored[j] = 1..(Stepped + 1)
        /\ stored[j] = [k \in DOMAIN stored[j] |-> stored[j][k]]
    <2>1. stored[j] \in RxFrames
      BY <1>0, <1>4 DEF Core, RxType
    <2>2. PICK f \in 1..MaxRxFrames, n \in 1..MaxSegs : stored[j] = WholeRxFrame(f, n)
      BY <2>1 DEF RxFrames
    <2>3. stored[j] \in Seq(Nat \X Nat)
      BY <2>2 DEF WholeRxFrame
    <2>4. QED
      BY <1>4, <2>3
  <1>7. QED
    BY <1>4, <1>5, <1>6 DEF Walk

(* The caller takes the next frame. *)
LEMMA TakeFrame ==
    ASSUME RxInv, ~Releasing, ~Get.OWN, Get.LDES, Advance, info' \in Infos,
           info'.segCount = Stepped + 1, Plus(info'.FS, Stepped) = DMARxDescToGet,
           Stepped > 0 => info'.FS = info.FS,
           read' = Append(read, Walk(info'.FS, info'.segCount)),
           rxCpu' = [at |-> "release", n |-> 0], UNCHANGED <<rxDesc, rxMac, stored>>
    PROVE  /\ RxInv' /\ Len(read) + 1 \in 1..Len(stored)
           /\ read' = Append(read, stored[Len(read) + 1])
  <1>0. Core /\ EthRxAssumption
    BY DEF RxInv, Core
  <1>1. PICK u \in Counts, J \in Positions, P \in Positions : RxWindow(u) /\ RxChain(u, J, P)
    BY DEF RxInv
  <1>2. info'.FS \in RxRing
    BY DEF Infos
  <1>3. /\ Len(read) + 1 \in 1..Len(stored)
        /\ read' = Append(read, stored[Len(read) + 1])
    BY <1>2, WalkIsFrame
  <1>4. /\ u > 0 /\ J[DMARxDescToGet] = Len(read) + 1 /\ P[DMARxDescToGet] = Stepped + 1
        /\ Stepped + u <= ETH_RXBUFNB /\ HeldBack = Stepped
    BY <1>0, <1>1, FoundUnread
  <1>5. u \in Nat /\ Stepped \in Nat /\ Stepped + 1 <= ETH_RXBUFNB /\ ETH_RXBUFNB \in Nat
    BY <1>0, <1>4, Numbers DEF Counts
  <1>6. Releasing' /\ Stepped' = 0 /\ HeldBack' = HeldBack + 1
    BY <1>4, <1>5 DEF Releasing, Stepped, HeldBack
  <1>7. read' \in Seq(RxFrames) /\ Len(read') = Len(read) + 1
    <2>1. read \in Seq(RxFrames) /\ stored[Len(read) + 1] \in RxFrames
      BY <1>0, <1>3 DEF Core, RxType
    <2>2. QED
      BY <1>3, <2>1
  <1>8. DMARxDescToGet' \in RxRing /\ DMARxDescToGet' = Plus(info'.FS, info'.segCount)
    <2>1. Stepped \in Counts /\ Stepped < ETH_RXBUFNB
      BY <1>5 DEF Counts
    <2>2. NextRxDesc(Plus(info'.FS, Stepped)) = Plus(info'.FS, Stepped + 1)
      BY <1>0, <1>2, <2>1, PlusNext
    <2>3. QED
      BY <1>0, <2>2, Numbers, NextFacts DEF Advance
  <1>9. RxType'
    BY <1>0, <1>5, <1>7, <1>8 DEF Core, RxType, Infos
  <1>10. CpuInv'
    BY <1>5, <1>6, <1>8 DEF CpuInv
  <1>11. SteppedInv'
    BY <1>6 DEF SteppedInv
  <1>12. RxWindow(u - 1)'
    BY <1>0, <1>1, <1>4, <1>6, AdvanceWindow
  <1>13. /\ Unread(u - 1, J, P)' /\ Linked(u - 1, J, P)' /\ Ends(u - 1, J, P)'
         /\ u = 1 => RxFollows(DMARxDescToGet, J, P, Len(stored) + 1, MacPart)
         /\ u > 1 => RxFollows(DMARxDescToGet, J, P, J[DMARxDescToGet'], P[DMARxDescToGet'])
    BY <1>0, <1>1, <1>4, AdvanceChain
  <1>14. Starts(u - 1, J, P)'
    <2>1. MacPart' = MacPart /\ Len(read) \in Nat /\ Len(stored) \in Nat
      BY <1>0, Numbers, HoldsSame
    <2>2. u = 1 => Len(read) + 1 = Len(stored) /\ MacPart = 1
      BY <1>4, <1>13, <2>1 DEF RxFollows, Get
    <2>3. u > 1 => J[DMARxDescToGet'] = (Len(read) + 1) + 1 /\ P[DMARxDescToGet'] = 1
      BY <1>4, <1>13 DEF RxFollows, Get
    <2>4. QED
      BY <1>5, <1>6, <1>7, <2>1, <2>2, <2>3 DEF Starts
  <1>15. u - 1 \in Counts
    BY <1>4, <1>5 DEF Counts
  <1>16. Core'
    BY <1>0, <1>9, <1>10, <1>11 DEF Core
  <1>17. QED
    BY <1>3, <1>12, <1>13, <1>14, <1>15, <1>16 DEF RxInv, RxChain

(* Every way to read a frame takes the next one. *)
LEMMA ReadTakes ==
    ASSUME RxInv, ReadReceivedFrame \/ (ScanRound /\ Get.LDES)
    PROVE  /\ RxInv' /\ Len(read) + 1 \in 1..Len(stored) /\ stored' = stored
           /\ read' = Append(read, stored[Len(read) + 1])
  <1>0. Core
    BY DEF RxInv
  <1>1. CASE ReadReceivedFrame
    <2>1. rxCpu.at = "read" /\ ~Releasing /\ Stepped = info.segCount - 1
      BY <1>1 DEF ReadReceivedFrame, Stepped, Releasing
    <2>2. ~Get.OWN /\ Get.LDES /\ Plus(info.FS, Stepped) = DMARxDescToGet
          /\ info \in Infos /\ info.segCount = Stepped + 1
      BY <1>0, <2>1, Numbers DEF Core, CpuInv, RxType, Infos
    <2>3. QED
      BY <1>1, <2>1, <2>2, TakeFrame DEF ReadReceivedFrame
  <1>2. CASE ScanRound /\ Get.LDES
    <2>1. /\ rxCpu.at \in Looking /\ ~Get.OWN /\ ~Releasing /\ info' = LastSegment
          /\ Get.LDES
      BY <1>2 DEF ScanRound, Looking, Releasing
    <2>2. /\ info' \in Infos /\ info'.segCount = Stepped + 1
          /\ Plus(info'.FS, Stepped) = DMARxDescToGet
          /\ Stepped > 0 => info'.FS = info.FS
      BY <2>1, LastSegmentIs
    <2>3. /\ read' = Append(read, Walk(info'.FS, info'.segCount))
          /\ rxCpu' = [at |-> "release", n |-> 0] /\ Advance /\ UNCHANGED <<rxDesc, rxMac, stored>>
      BY <1>2, <2>1 DEF ScanRound
    <2>4. QED
      BY <2>1, <2>2, <2>3, TakeFrame
  <1>3. QED
    BY <1>1, <1>2

(* The caller gives a descriptor of the frame back, or has given them all. *)
LEMMA ReleaseKeeps == ASSUME RxInv, Release PROVE RxInv'
  <1>0. Core /\ EthRxAssumption
    BY DEF RxInv, Core
  <1>1. PICK u \in Counts, J \in Positions, P \in Positions : RxWindow(u) /\ RxChain(u, J, P)
    BY DEF RxInv
  <1>2. /\ Releasing /\ Stepped = 0 /\ HeldBack = info.segCount - rxCpu.n
        /\ Plus(info.FS, info.segCount) = DMARxDescToGet /\ rxCpu.n <= info.segCount
    BY <1>0 DEF Release, Releasing, Stepped, HeldBack, Core, CpuInv
  <1>3. /\ info.segCount \in Nat /\ info.segCount <= ETH_RXBUFNB /\ rxCpu.n \in Nat
        /\ ETH_RXBUFNB \in Nat /\ ETH_RXBUFNB > 0 /\ info.FS \in RxRing /\ DMARxDescToGet \in RxRing
        /\ u \in Nat
    BY <1>0, Numbers DEF Counts
  <1>4. CASE rxCpu.n < info.segCount
    <2> DEFINE d == Plus(info.FS, rxCpu.n)
    <2>1. (info.FS + rxCpu.n) % ETH_RXBUFNB = d /\ d \in RxRing
      BY <1>0, <1>3, <1>4, ModIsPlus, PlusFacts DEF Counts
    <2>2. /\ rxDesc' = [rxDesc EXCEPT ![d].OWN = TRUE]
          /\ rxCpu' = [rxCpu EXCEPT !.n = @ + 1]
          /\ UNCHANGED <<info, DMARxDescToGet, rxMac, stored, read>>
      BY <1>4, <2>1 DEF Release
    <2>3. RxDist(DMARxDescToGet, d) = ETH_RXBUFNB - HeldBack
          \/ (HeldBack = ETH_RXBUFNB /\ d = DMARxDescToGet)
      <3>1. CASE rxCpu.n = 0 /\ info.segCount = ETH_RXBUFNB
        BY <1>0, <1>2, <1>3, <3>1, PlusFacts DEF Counts
      <3>2. CASE ~(rxCpu.n = 0 /\ info.segCount = ETH_RXBUFNB)
        <4>1. \A a \in RxRing : \A k, s \in 0..ETH_RXBUFNB : k < s /\ ~(k = 0 /\ s = ETH_RXBUFNB)
                 => RxDist(Plus(a, s), Plus(a, k)) = ETH_RXBUFNB - (s - k)
          BY <1>3 DEF RxRing, RxDist, Plus
        <4>2. QED
          BY <1>2, <1>3, <1>4, <3>2, <4>1
      <3>3. QED
        BY <3>1, <3>2
    <2> HIDE DEF d
    <2>4. /\ rxDesc \in [RxRing -> [OWN : BOOLEAN, FDES : BOOLEAN, LDES : BOOLEAN,
                                buf : RxPart \cup {NoRxPart}]]
          /\ rxCpu \in Cpus /\ rxCpu.at = "release"
      BY <1>0, <1>2 DEF Core, RxType, Releasing, Cpus
    <2>5. rxCpu' \in Cpus /\ rxCpu'.at = "release" /\ rxCpu'.n = rxCpu.n + 1
      BY <1>3, <1>4, <2>2, <2>4 DEF Cpus
    <2>6. Releasing' /\ Stepped' = 0 /\ HeldBack' = HeldBack - 1 /\ HeldBack \in Nat /\ HeldBack > 0
      BY <1>2, <1>3, <1>4, <2>2, <2>5 DEF Releasing, Stepped, HeldBack
    <2>7. /\ rxDesc' \in [RxRing -> [OWN : BOOLEAN, FDES : BOOLEAN, LDES : BOOLEAN,
                                 buf : RxPart \cup {NoRxPart}]]
          /\ rxDesc'[d].OWN /\ \A x \in RxRing : x # d => rxDesc'[x] = rxDesc[x]
      BY <2>1, <2>2, <2>4
    <2>8. ASSUME NEW x \in RxRing
          PROVE  rxDesc'[x].FDES = rxDesc[x].FDES /\ rxDesc'[x].LDES = rxDesc[x].LDES
                 /\ rxDesc'[x].buf = rxDesc[x].buf
      BY <2>1, <2>2, <2>4
    <2>9. RxType'
      BY <1>0, <2>2, <2>5, <2>7 DEF Core, RxType, Cpus
    <2>10. CpuInv'
      BY <1>2, <1>3, <1>4, <2>2, <2>5, <2>6 DEF CpuInv
    <2>11. SteppedInv'
      BY <2>6 DEF SteppedInv
    <2>12. RxWindow(u)'
      <3>1. ASSUME NEW x \in RxRing
            PROVE  rxDesc'[x].OWN <=> /\ u <= RxDist(DMARxDescToGet, x)
                                    /\ RxDist(DMARxDescToGet, x) < ETH_RXBUFNB - (HeldBack - 1)
        <4>1. /\ RxDist(DMARxDescToGet, x) \in Nat /\ RxDist(DMARxDescToGet, x) < ETH_RXBUFNB
              /\ (RxDist(DMARxDescToGet, x) = 0 <=> x = DMARxDescToGet)
          BY <1>0, <1>3, RxDistFacts
        <4>2. rxDesc[x].OWN <=> /\ u <= RxDist(DMARxDescToGet, x)
                              /\ RxDist(DMARxDescToGet, x) < ETH_RXBUFNB - HeldBack
          BY <1>1 DEF RxWindow
        <4>3. HeldBack + u <= ETH_RXBUFNB
          BY <1>1 DEF RxWindow
        <4>4. CASE x = d
          BY <1>3, <2>3, <2>6, <2>7, <4>1, <4>3, <4>4
        <4>5. CASE x # d
          <5>1. Plus(DMARxDescToGet, RxDist(DMARxDescToGet, x)) = x
                /\ Plus(DMARxDescToGet, RxDist(DMARxDescToGet, d)) = d
            BY <1>0, <1>3, <2>1, PlusDist
          <5>2. RxDist(DMARxDescToGet, x) # ETH_RXBUFNB - HeldBack
            BY <1>3, <2>3, <2>6, <4>1, <4>5, <5>1
          <5>3. rxDesc'[x] = rxDesc[x]
            BY <2>7, <4>5
          <5>4. RxDist(DMARxDescToGet, x) < ETH_RXBUFNB - HeldBack
                  <=> RxDist(DMARxDescToGet, x) < ETH_RXBUFNB - (HeldBack - 1)
            BY <1>3, <2>6, <4>1, <5>2
          <5>5. QED
            BY <4>2, <5>3, <5>4
        <4>6. QED
          BY <4>4, <4>5
      <3>2. HeldBack + u <= ETH_RXBUFNB /\ rxMac.d = Plus(DMARxDescToGet, u)
            /\ (rxMac.left > 0 => HeldBack + u < ETH_RXBUFNB)
        BY <1>1 DEF RxWindow
      <3>3. QED
        BY <1>3, <2>2, <2>6, <3>1, <3>2 DEF RxWindow
    <2>13. RxChain(u, J, P)'
      <3>1. \A x \in RxRing : Holds(x, J[x], P[x])' <=> Holds(x, J[x], P[x])
        BY <2>2, <2>8 DEF Holds
      <3>2. MacPart' = MacPart
        BY <2>2 DEF MacPart
      <3>3. Unread(u, J, P)'
        BY <1>1, <2>2, <3>1 DEF RxChain, Unread
      <3>4. Linked(u, J, P)' /\ Ends(u, J, P)'
        BY <1>1, <2>2, <2>8, <3>2 DEF RxChain, Linked, Ends, RxFollows
      <3>5. Starts(u, J, P)'
        BY <1>1, <1>2, <2>2, <2>6, <3>2 DEF RxChain, Starts
      <3>6. QED
        BY <3>3, <3>4, <3>5 DEF RxChain
    <2>14. QED
      BY <1>0, <2>9, <2>10, <2>11, <2>12, <2>13 DEF RxInv, Core
  <1>5. CASE ~(rxCpu.n < info.segCount)
    <2>1. /\ rxCpu' = RxIdle /\ info' = [info EXCEPT !.segCount = 0]
          /\ UNCHANGED <<rxDesc, DMARxDescToGet, rxMac, stored, read>>
      BY <1>5 DEF Release
    <2>2. info' \in Infos /\ info'.segCount = 0
      <3>1. info \in Infos /\ 0 \in 0..ETH_RXBUFNB
        BY <1>0, <1>3 DEF Core, RxType, Infos
      <3>2. QED
        BY <2>1, <3>1 DEF Infos
    <2>3. ~Releasing' /\ Stepped' = 0 /\ HeldBack' = 0 /\ HeldBack = 0 /\ rxCpu'.at = "idle"
          /\ rxCpu' \in Cpus
      BY <1>2, <1>3, <1>5, <2>1, <2>2 DEF Releasing, Stepped, HeldBack, RxIdle, Cpus
    <2>4. RxType'
      BY <1>0, <2>1, <2>2, <2>3 DEF Core, RxType, Cpus, Infos
    <2>5. CpuInv' /\ SteppedInv'
      BY <2>3 DEF CpuInv, SteppedInv
    <2>6. RxWindow(u)'
      BY <1>1, <2>1, <2>3 DEF RxWindow
    <2>7. RxChain(u, J, P)'
      BY <1>1, <1>2, <2>1, <2>3 DEF RxChain, Unread, Linked, Ends, Starts, Holds, RxFollows, MacPart
    <2>8. QED
      BY <1>0, <2>4, <2>5, <2>6, <2>7 DEF RxInv, Core
  <1>6. QED
    BY <1>4, <1>5

-----------------------------------------------------------------------------
(* The engine's steps. *)

Macs == [d : RxRing, frame : 0..MaxRxFrames, done : 0..MaxSegs, left : 0..MaxSegs]
Descs == [OWN : BOOLEAN, FDES : BOOLEAN, LDES : BOOLEAN, buf : RxPart \cup {NoRxPart}]

(* The engine's descriptor lies u behind the driver's. *)
LEMMA MacDist ==
    ASSUME Core, NEW u \in Counts, RxWindow(u), rxDesc[rxMac.d].OWN
    PROVE  HeldBack + u < ETH_RXBUFNB /\ u < ETH_RXBUFNB /\ RxDist(DMARxDescToGet, rxMac.d) = u
  <1>1. /\ DMARxDescToGet \in RxRing /\ rxMac.d \in RxRing /\ EthRxAssumption
        /\ HeldBack \in Nat /\ ETH_RXBUFNB \in Nat /\ ETH_RXBUFNB > 0 /\ u \in Nat
        /\ u <= ETH_RXBUFNB
    BY Numbers DEF Core, Counts
  <1>2. rxMac.d = Plus(DMARxDescToGet, u) /\ u <= RxDist(DMARxDescToGet, rxMac.d)
        /\ RxDist(DMARxDescToGet, rxMac.d) < ETH_RXBUFNB - HeldBack
    BY <1>1 DEF RxWindow
  <1>3. RxDist(DMARxDescToGet, rxMac.d) \in Nat
    BY <1>1, RxDistFacts
  <1>4. u < ETH_RXBUFNB
    BY <1>1, <1>2, <1>3
  <1>5. RxDist(DMARxDescToGet, rxMac.d) = u
    BY <1>1, <1>2, <1>4, PlusFacts
  <1>6. QED
    BY <1>1, <1>2, <1>4, <1>5

(* A frame arrives, or is lost. *)
LEMMA ArriveKeeps ==
    ASSUME RxInv, NEW n \in 1..MaxSegs, Mac_Arrive(n) PROVE RxInv'
  <1>0. Core /\ EthRxAssumption
    BY DEF RxInv, Core
  <1>1. PICK u \in Counts, J \in Positions, P \in Positions : RxWindow(u) /\ RxChain(u, J, P)
    BY DEF RxInv
  <1>2. /\ rxMac.left = 0 /\ rxMac \in Macs /\ rxMac.frame < MaxRxFrames
        /\ UNCHANGED <<rxDesc, DMARxDescToGet, info, rxCpu, stored, read>>
    BY <1>0 DEF Core, RxType, Macs, Mac_Arrive
  <1>3. MaxRxFrames \in Nat /\ MaxSegs \in Nat /\ rxMac.frame \in Nat
    BY <1>0, Numbers
  <1>4. /\ rxMac' \in Macs /\ rxMac'.d = rxMac.d /\ rxMac'.frame = rxMac.frame + 1 /\ rxMac'.done = 0
        /\ rxMac'.left = IF rxDesc[rxMac.d].OWN THEN n ELSE 0
    <2>1. (IF rxDesc[rxMac.d].OWN THEN n ELSE 0) \in 0..MaxSegs /\ rxMac.frame + 1 \in 0..MaxRxFrames
          /\ 0 \in 0..MaxSegs
      BY <1>2, <1>3
    <2>2. rxMac' = [rxMac EXCEPT !.frame = rxMac.frame + 1, !.done = 0,
                             !.left = IF rxDesc[rxMac.d].OWN THEN n ELSE 0]
      BY DEF Mac_Arrive
    <2>3. QED
      BY <1>2, <2>1, <2>2 DEF Macs
  <1>5. MacPart = 1 /\ MacPart' = 1
    BY <1>2, <1>4 DEF MacPart
  <1>6. Stepped' = Stepped /\ HeldBack' = HeldBack /\ Releasing' = Releasing /\ Get' = Get
    BY <1>2 DEF Stepped, HeldBack, Releasing, Get
  <1>7. ASSUME NEW x, NEW j, NEW p, Holds(x, j, p) PROVE Holds(x, j, p)'
    BY <1>2, <1>7 DEF Holds
  <1>8. RxType'
    <2>1. rxMac'.left > 0 => rxMac'.done + rxMac'.left <= MaxSegs /\ rxMac'.frame > 0
      BY <1>3, <1>4
    <2>2. QED
      BY <1>0, <1>2, <1>4, <2>1 DEF Core, RxType, Macs
  <1>9. CpuInv'
    BY <1>0, <1>2, <1>6 DEF Core, CpuInv
  <1>10. SteppedInv'
    BY <1>0, <1>2, <1>6, <1>7 DEF Core, SteppedInv
  <1>11. RxWindow(u)'
    BY <1>0, <1>1, <1>2, <1>4, <1>6, MacDist, Numbers DEF RxWindow
  <1>12. Unread(u, J, P)'
    BY <1>1, <1>2, <1>7 DEF RxChain, Unread
  <1>13. Linked(u, J, P)' /\ Ends(u, J, P)' /\ Starts(u, J, P)'
    BY <1>1, <1>2, <1>5, <1>6 DEF RxChain, Linked, Ends, Starts, RxFollows
  <1>14. QED
    BY <1>0, <1>8, <1>9, <1>10, <1>11, <1>12, <1>13 DEF RxInv, Core, RxChain

Last == rxMac.left = 1 \/ ~rxDesc[NextRxDesc(rxMac.d)].OWN \/ NextRxDesc(rxMac.d) = rxMac.d

(* What the engine writes when it hands a descriptor over. *)
LEMMA StoreEffect ==
    ASSUME Core, Mac_Store
    PROVE  /\ rxMac.left > 0 /\ rxMac.d \in RxRing
           /\ rxMac.done + 1 \in 1..MaxSegs /\ rxMac.frame \in 1..MaxRxFrames
           /\ rxDesc' \in [RxRing -> Descs]
           /\ ~rxDesc'[rxMac.d].OWN /\ (rxDesc'[rxMac.d].FDES <=> rxMac.done = 0)
           /\ (rxDesc'[rxMac.d].LDES <=> Last) /\ rxDesc'[rxMac.d].buf = <<rxMac.frame, rxMac.done + 1>>
           /\ \A x \in RxRing : x # rxMac.d => rxDesc'[x] = rxDesc[x]
           /\ rxMac' \in Macs /\ rxMac'.d = NextRxDesc(rxMac.d) /\ rxMac'.frame = rxMac.frame
           /\ rxMac'.done = rxMac.done + 1 /\ rxMac'.left = (IF Last THEN 0 ELSE rxMac.left - 1)
           /\ ~Last => rxMac.left > 1
           /\ stored' = (IF Last THEN Append(stored, WholeRxFrame(rxMac.frame, rxMac.done + 1))
                         ELSE stored)
           /\ UNCHANGED <<DMARxDescToGet, info, rxCpu, read>>
  <1>1. /\ rxMac \in Macs /\ rxDesc \in [RxRing -> Descs]
        /\ MaxSegs \in Nat /\ MaxRxFrames \in Nat /\ rxMac.left > 0
        /\ rxMac.done + rxMac.left <= MaxSegs /\ rxMac.frame > 0
    BY Numbers DEF Core, RxType, Macs, Descs, Mac_Store
  <1>2. /\ rxMac.d \in RxRing /\ rxMac.left \in Nat /\ rxMac.done \in Nat
        /\ rxMac.done + 1 \in 1..MaxSegs /\ rxMac.frame \in 1..MaxRxFrames
    BY <1>1 DEF Macs
  <1>3. NextRxDesc(rxMac.d) \in RxRing
    BY <1>2, NextFacts DEF Core
  <1>4. /\ rxDesc' = [rxDesc EXCEPT ![rxMac.d] =
                       [OWN |-> FALSE, FDES |-> rxMac.done = 0, LDES |-> Last,
                        buf |-> <<rxMac.frame, rxMac.done + 1>>]]
        /\ stored' = (IF Last THEN Append(stored, WholeRxFrame(rxMac.frame, rxMac.done + 1)) ELSE stored)
        /\ rxMac' = [rxMac EXCEPT !.d = NextRxDesc(rxMac.d), !.done = rxMac.done + 1,
                              !.left = IF Last THEN 0 ELSE rxMac.left - 1]
        /\ UNCHANGED <<DMARxDescToGet, info, rxCpu, read>>
    BY DEF Mac_Store, Last, WholeRxFrame
  <1>5. Last \in BOOLEAN /\ (rxMac.done = 0) \in BOOLEAN
    BY DEF Last
  <1>6. <<rxMac.frame, rxMac.done + 1>> \in RxPart
    BY <1>2 DEF RxPart
  <1>7. [OWN |-> FALSE, FDES |-> rxMac.done = 0, LDES |-> Last,
         buf |-> <<rxMac.frame, rxMac.done + 1>>] \in Descs
    BY <1>5, <1>6, Zenon DEF Descs
  <1>8. rxDesc' \in [RxRing -> Descs] /\ \A x \in RxRing : x # rxMac.d => rxDesc'[x] = rxDesc[x]
    BY <1>1, <1>2, <1>4, <1>7
  <1>9. rxDesc'[rxMac.d] = [OWN |-> FALSE, FDES |-> rxMac.done = 0, LDES |-> Last,
                        buf |-> <<rxMac.frame, rxMac.done + 1>>]
    BY <1>1, <1>2, <1>4
  <1>10. ~rxDesc'[rxMac.d].OWN /\ (rxDesc'[rxMac.d].FDES <=> rxMac.done = 0)
         /\ (rxDesc'[rxMac.d].LDES <=> Last) /\ rxDesc'[rxMac.d].buf = <<rxMac.frame, rxMac.done + 1>>
    <2>1. PICK l \in BOOLEAN : l = Last
      BY <1>5, Zenon
    <2>2. PICK f \in BOOLEAN : f = (rxMac.done = 0)
      BY <1>5, Zenon
    <2>3. rxDesc'[rxMac.d] = [OWN |-> FALSE, FDES |-> f, LDES |-> l,
                          buf |-> <<rxMac.frame, rxMac.done + 1>>]
      BY <1>9, <2>1, <2>2, Zenon
    <2>4. /\ rxDesc'[rxMac.d].OWN = FALSE /\ rxDesc'[rxMac.d].FDES = f
          /\ rxDesc'[rxMac.d].LDES = l /\ rxDesc'[rxMac.d].buf = <<rxMac.frame, rxMac.done + 1>>
      BY <2>3
    <2>5. (l <=> Last) /\ (f <=> rxMac.done = 0)
      BY <2>1, <2>2
    <2>6. QED
      BY <2>4, <2>5
  <1>11. ~Last => rxMac.left > 1
    BY <1>1, <1>2 DEF Last
  <1>12. /\ rxMac' \in Macs /\ rxMac'.d = NextRxDesc(rxMac.d) /\ rxMac'.frame = rxMac.frame
         /\ rxMac'.done = rxMac.done + 1 /\ rxMac'.left = (IF Last THEN 0 ELSE rxMac.left - 1)
    <2>1. (IF Last THEN 0 ELSE rxMac.left - 1) \in 0..MaxSegs /\ rxMac.done + 1 \in 0..MaxSegs
      BY <1>1, <1>2 DEF Macs
    <2>2. QED
      BY <1>1, <1>3, <1>4, <2>1 DEF Macs
  <1>13. QED
    BY <1>1, <1>2, <1>4, <1>8, <1>10, <1>11, <1>12

(* What a descriptor other than the engine's holds, it still holds. *)
LEMMA StoreHolds ==
    ASSUME Core, Mac_Store, NEW x \in RxRing, x # rxMac.d, NEW j, NEW p, Holds(x, j, p)
    PROVE  Holds(x, j, p)'
  <1>1. rxDesc'[x] = rxDesc[x]
    BY StoreEffect
  <1>2. stored \in Seq(RxFrames) /\ Len(stored) \in Nat /\ rxMac.done \in Nat
    BY Numbers DEF Core, RxType
  <1>3. WholeRxFrame(rxMac.frame, rxMac.done + 1) \in RxFrames
    BY StoreEffect DEF RxFrames
  <1>4. CASE j \in 1..Len(stored)
    <2>1. j \in 1..Len(stored') /\ stored'[j] = stored[j]
      BY <1>2, <1>3, <1>4, StoreEffect
    <2>2. QED
      BY <1>1, <1>2, <1>4, <2>1 DEF Holds
  <1>5. CASE j \notin 1..Len(stored)
    <2>1. /\ j = Len(stored) + 1 /\ p \in 1..rxMac.done /\ rxDesc[x].buf = <<rxMac.frame, p>>
          /\ ~rxDesc[x].LDES /\ (rxDesc[x].FDES <=> p = 1)
      BY <1>5 DEF Holds
    <2>2. CASE Last
      <3>1. /\ j \in 1..Len(stored') /\ stored'[j] = WholeRxFrame(rxMac.frame, rxMac.done + 1)
        BY <1>2, <1>3, <2>1, <2>2, StoreEffect
      <3>2. Len(stored'[j]) = rxMac.done + 1 /\ stored'[j][p] = <<rxMac.frame, p>>
        BY <1>2, <2>1, <3>1 DEF WholeRxFrame
      <3>3. p \in 1..Len(stored'[j]) /\ p # Len(stored'[j])
        BY <1>2, <2>1, <3>2
      <3>4. QED
        BY <1>1, <2>1, <3>1, <3>2, <3>3 DEF Holds
    <2>3. CASE ~Last
      <3>1. /\ stored' = stored /\ rxMac'.left > 0 /\ rxMac'.done = rxMac.done + 1
            /\ rxMac'.frame = rxMac.frame
        <4>1. rxMac.left \in Nat /\ rxMac.left > 1 /\ rxMac'.left = rxMac.left - 1
          BY <2>3, StoreEffect, Numbers
        <4>2. QED
          BY <2>3, <4>1, StoreEffect
      <3>2. p \in 1..rxMac'.done
        BY <1>2, <2>1, <3>1
      <3>3. QED
        BY <1>1, <2>1, <3>1, <3>2 DEF Holds
    <2>4. QED
      BY <2>2, <2>3
  <1>6. QED
    BY <1>4, <1>5

(* The engine hands a descriptor over: one more is unread. *)
LEMMA StoreKeeps == ASSUME RxInv, Mac_Store PROVE RxInv'
  <1>0. Core /\ EthRxAssumption
    BY DEF RxInv, Core
  <1>1. PICK u \in Counts, J \in Positions, P \in Positions : RxWindow(u) /\ RxChain(u, J, P)
    BY DEF RxInv
  <1>2. /\ rxMac.left > 0 /\ DMARxDescToGet \in RxRing /\ rxMac.d \in RxRing /\ u \in Nat
        /\ HeldBack \in Nat /\ ETH_RXBUFNB \in Nat /\ ETH_RXBUFNB > 0
        /\ rxMac.done \in Nat /\ rxMac.left \in Nat /\ Len(stored) \in Nat /\ Len(read) \in Nat
    BY <1>0, Numbers, StoreEffect, SMTT(20) DEF Counts
  <1>3. HeldBack + u < ETH_RXBUFNB /\ rxMac.d = Plus(DMARxDescToGet, u)
    BY <1>1, <1>2 DEF RxWindow
  <1>4. u < ETH_RXBUFNB /\ RxDist(DMARxDescToGet, rxMac.d) = u
    <2>1. u < ETH_RXBUFNB
      BY <1>2, <1>3
    <2>2. QED
      BY <1>0, <1>2, <1>3, <2>1, PlusFacts
  <1>5. /\ UNCHANGED <<DMARxDescToGet, info, rxCpu, read>> /\ Stepped' = Stepped
        /\ HeldBack' = HeldBack /\ Releasing' = Releasing
    BY <1>0, StoreEffect DEF Stepped, HeldBack, Releasing
  <1>6. /\ MacPart = rxMac.done + 1 /\ MacPart' = IF Last THEN 1 ELSE rxMac.done + 2
    <2>1. ~Last => rxMac'.left > 0 /\ rxMac'.done = rxMac.done + 1
      BY <1>0, <1>2, StoreEffect
    <2>2. Last => rxMac'.left = 0
      BY <1>0, StoreEffect
    <2>3. QED
      BY <1>2, <2>1, <2>2 DEF MacPart
  <1>7. WholeRxFrame(rxMac.frame, rxMac.done + 1) \in RxFrames /\ stored \in Seq(RxFrames)
    BY <1>0, StoreEffect DEF RxFrames, Core, RxType
  <1>8. stored' \in Seq(RxFrames) /\ Len(stored') = (IF Last THEN Len(stored) + 1 ELSE Len(stored))
    BY <1>0, <1>7, StoreEffect, SMTT(20)
  <1>9. RxType'
    <2>1. rxMac'.left > 0 => rxMac'.done + rxMac'.left <= MaxSegs /\ rxMac'.frame > 0
      <3>1. rxMac.done + rxMac.left <= MaxSegs /\ rxMac.frame > 0 /\ MaxSegs \in Nat
        BY <1>0, <1>2, Numbers DEF Core, RxType
      <3>2. /\ rxMac'.done = rxMac.done + 1 /\ rxMac'.frame = rxMac.frame
            /\ rxMac'.left = (IF Last THEN 0 ELSE rxMac.left - 1)
        BY <1>0, StoreEffect
      <3>3. QED
        BY <1>2, <3>1, <3>2
    <2>2. rxMac' \in Macs /\ rxDesc' \in [RxRing -> Descs]
      BY <1>0, StoreEffect
    <2>3. QED
      BY <1>0, <1>5, <1>8, <2>1, <2>2 DEF Core, RxType, Macs, Descs
  <1>10. ASSUME NEW x \in RxRing
         PROVE  /\ RxDist(DMARxDescToGet, x) \in Nat /\ RxDist(DMARxDescToGet, x) < ETH_RXBUFNB
                /\ RxDist(DMARxDescToGet, x) = u <=> x = rxMac.d
    BY <1>0, <1>2, <1>3, <1>4, RxDistFacts, PlusDist
  <1>11. rxDesc[rxMac.d].OWN
    BY <1>1, <1>2, <1>3, <1>4 DEF RxWindow
  <1>12. CpuInv'
    <2>1. ~Get.OWN => Get' = Get
      BY <1>0, <1>2, <1>5, <1>11, StoreEffect DEF Get
    <2>2. QED
      BY <1>0, <1>5, <2>1 DEF Core, CpuInv
  <1>13. SteppedInv'
    <2> SUFFICES ASSUME NEW i \in 0..(ETH_RXBUFNB - 1), i < Stepped
                 PROVE  /\ Holds(Plus(info.FS, i), Len(read) + 1, i + 1)'
                        /\ ~rxDesc'[Plus(info.FS, i)].LDES
      BY <1>5 DEF SteppedInv
    <2>1. /\ Holds(Plus(info.FS, i), Len(read) + 1, i + 1) /\ ~rxDesc[Plus(info.FS, i)].LDES
      BY <1>0 DEF Core, SteppedInv
    <2>2. info.FS \in RxRing /\ Stepped \in Nat /\ Stepped = HeldBack
          /\ Plus(info.FS, Stepped) = DMARxDescToGet
      <3>1. info.FS \in RxRing /\ Stepped \in Nat
        BY <1>0, Numbers
      <3>2. Stepped > 0
        BY <3>1
      <3>3. ~Releasing
        BY <3>1, <3>2 DEF Stepped, Releasing
      <3>4. QED
        BY <1>0, <3>1, <3>2, <3>3 DEF Core, CpuInv, HeldBack
    <2>3. Plus(info.FS, i) \in RxRing
      BY <1>0, <1>2, <2>2, PlusFacts DEF Counts
    <2>4. RxDist(DMARxDescToGet, Plus(info.FS, i)) = ETH_RXBUFNB - (Stepped - i)
      <3>1. \A a \in RxRing : \A k, s \in 0..ETH_RXBUFNB : k < s /\ s < ETH_RXBUFNB
               => RxDist(Plus(a, s), Plus(a, k)) = ETH_RXBUFNB - (s - k)
        BY <1>2 DEF RxRing, RxDist, Plus
      <3>2. Stepped \in 0..ETH_RXBUFNB /\ Stepped < ETH_RXBUFNB /\ i \in 0..ETH_RXBUFNB
        BY <1>2, <1>3, <2>2
      <3>3. QED
        BY <2>2, <3>1, <3>2
    <2>5. Plus(info.FS, i) # rxMac.d
      BY <1>2, <1>3, <1>4, <2>2, <2>4
    <2>6. QED
      BY <1>0, <2>1, <2>3, <2>5, StoreHolds, StoreEffect
  <1>14. RxWindow(u + 1)'
    <2>1. rxMac'.d = Plus(DMARxDescToGet, u + 1)
      BY <1>0, <1>2, <1>3, <1>4, PlusNext, StoreEffect
    <2>2. ASSUME NEW x \in RxRing
          PROVE  rxDesc'[x].OWN <=> /\ u + 1 <= RxDist(DMARxDescToGet, x)
                                  /\ RxDist(DMARxDescToGet, x) < ETH_RXBUFNB - HeldBack
      <3>1. rxDesc[x].OWN <=> /\ u <= RxDist(DMARxDescToGet, x)
                            /\ RxDist(DMARxDescToGet, x) < ETH_RXBUFNB - HeldBack
        BY <1>1 DEF RxWindow
      <3>2. CASE x = rxMac.d
        BY <1>0, <1>2, <1>4, <3>2, StoreEffect
      <3>3. CASE x # rxMac.d
        <4>1. rxDesc'[x] = rxDesc[x] /\ RxDist(DMARxDescToGet, x) # u
              /\ RxDist(DMARxDescToGet, x) \in Nat
          BY <1>0, <1>10, <3>3, StoreEffect
        <4>2. QED
          BY <1>2, <3>1, <4>1
      <3>4. QED
        BY <3>2, <3>3
    <2>3. ~Last => HeldBack + (u + 1) < ETH_RXBUFNB
      <3> SUFFICES ASSUME ~Last PROVE HeldBack + (u + 1) < ETH_RXBUFNB
        OBVIOUS
      <3>1. NextRxDesc(rxMac.d) \in RxRing /\ rxDesc[NextRxDesc(rxMac.d)].OWN /\ NextRxDesc(rxMac.d) # rxMac.d
        BY <1>0, <1>2, NextFacts DEF Last
      <3>2. RxDist(DMARxDescToGet, NextRxDesc(rxMac.d)) = IF u + 1 < ETH_RXBUFNB THEN u + 1 ELSE 0
        BY <1>0, <1>2, <1>4, NextFacts
      <3>3. u <= RxDist(DMARxDescToGet, NextRxDesc(rxMac.d))
            /\ RxDist(DMARxDescToGet, NextRxDesc(rxMac.d)) < ETH_RXBUFNB - HeldBack
        BY <1>1, <3>1 DEF RxWindow
      <3>4. RxDist(DMARxDescToGet, NextRxDesc(rxMac.d)) # u
        BY <1>10, <3>1
      <3>5. QED
        BY <1>2, <1>4, <3>2, <3>3, <3>4
    <2>4. rxMac'.left > 0 => ~Last
      BY <1>0, StoreEffect
    <2>5. QED
      BY <1>2, <1>3, <1>5, <2>1, <2>2, <2>3, <2>4 DEF RxWindow
  <1> DEFINE K == [J EXCEPT ![rxMac.d] = Len(stored) + 1]
             Q == [P EXCEPT ![rxMac.d] = rxMac.done + 1]
  <1>15. /\ K \in Positions /\ Q \in Positions
         /\ K[rxMac.d] = Len(stored) + 1 /\ Q[rxMac.d] = rxMac.done + 1
         /\ \A x \in RxRing : x # rxMac.d => K[x] = J[x] /\ Q[x] = P[x]
    BY <1>2 DEF Positions
  <1>16. PICK k \in Positions, q \in Positions : k = K /\ q = Q
    BY <1>15
  <1> HIDE DEF K, Q
  <1>17. /\ k[rxMac.d] = Len(stored) + 1 /\ q[rxMac.d] = rxMac.done + 1
         /\ \A x \in RxRing : x # rxMac.d => k[x] = J[x] /\ q[x] = P[x]
    BY <1>15, <1>16
  <1>18. Unread(u + 1, k, q)'
    <2> SUFFICES ASSUME NEW x \in RxRing, RxDist(DMARxDescToGet, x) < u + 1
                 PROVE  /\ Holds(x, k[x], q[x])'
                        /\ Len(stored') + 1 - k[x] <= (u + 1) - RxDist(DMARxDescToGet, x)
      BY <1>5 DEF Unread
    <2>1. CASE x = rxMac.d
      <3>1. Len(stored') + 1 - k[x] <= (u + 1) - RxDist(DMARxDescToGet, x)
        BY <1>2, <1>4, <1>8, <1>17, <2>1
      <3>2. /\ rxDesc'[x].FDES <=> q[x] = 1
            /\ rxDesc'[x].LDES <=> Last
            /\ rxDesc'[x].buf = <<rxMac.frame, q[x]>>
        BY <1>0, <1>2, <1>17, <2>1, StoreEffect
      <3>3. CASE Last
        <4>1. /\ k[x] \in 1..Len(stored')
              /\ stored'[k[x]] = WholeRxFrame(rxMac.frame, rxMac.done + 1)
          BY <1>0, <1>2, <1>7, <1>8, <1>17, <2>1, <3>3, StoreEffect
        <4>2. /\ Len(stored'[k[x]]) = rxMac.done + 1
              /\ q[x] \in 1..(rxMac.done + 1) /\ q[x] = rxMac.done + 1
              /\ stored'[k[x]][q[x]] = <<rxMac.frame, q[x]>>
          <5>1. q[x] = rxMac.done + 1 /\ q[x] \in 1..(rxMac.done + 1) /\ rxMac.done + 1 \in Nat
            BY <1>2, <1>17, <2>1
          <5>2. QED
            BY <4>1, <5>1 DEF WholeRxFrame
        <4>3. QED
          BY <3>1, <3>2, <3>3, <4>1, <4>2 DEF Holds
      <3>4. CASE ~Last
        <4>1. /\ stored' = stored /\ rxMac'.left > 0 /\ rxMac'.done = rxMac.done + 1
              /\ rxMac'.frame = rxMac.frame
          BY <1>0, <1>2, <3>4, StoreEffect
        <4>2. q[x] \in 1..rxMac'.done /\ k[x] = Len(stored') + 1
          BY <1>2, <1>17, <2>1, <4>1
        <4>3. QED
          BY <3>1, <3>2, <3>4, <4>1, <4>2 DEF Holds
      <3>5. QED
        BY <3>3, <3>4
    <2>2. CASE x # rxMac.d
      <3>1. RxDist(DMARxDescToGet, x) < u /\ RxDist(DMARxDescToGet, x) \in Nat
        BY <1>2, <1>10, <2>2
      <3>2. Holds(x, J[x], P[x]) /\ Len(stored) + 1 - J[x] <= u - RxDist(DMARxDescToGet, x)
            /\ J[x] \in Nat
        BY <1>1, <3>1 DEF RxChain, Unread, Positions
      <3>3. Holds(x, J[x], P[x])'
        BY <1>0, <2>2, <3>2, StoreHolds
      <3>4. Len(stored') + 1 - J[x] <= (u + 1) - RxDist(DMARxDescToGet, x)
        BY <1>2, <1>8, <3>1, <3>2
      <3>5. QED
        BY <1>17, <2>2, <3>3, <3>4
    <2>3. QED
      BY <2>1, <2>2
  <1>19. Linked(u + 1, k, q)'
    <2> SUFFICES ASSUME NEW x \in RxRing, RxDist(DMARxDescToGet, x) + 1 < u + 1
                 PROVE  RxFollows(x, k, q, k[NextRxDesc(x)], q[NextRxDesc(x)])'
      BY <1>5 DEF Linked
    <2>1. /\ RxDist(DMARxDescToGet, x) < u /\ x # rxMac.d /\ rxDesc'[x] = rxDesc[x]
          /\ RxDist(DMARxDescToGet, x) \in Nat /\ k[x] = J[x] /\ q[x] = P[x]
      BY <1>0, <1>2, <1>10, <1>17, StoreEffect
    <2>2. NextRxDesc(x) \in RxRing /\ RxDist(DMARxDescToGet, NextRxDesc(x)) = RxDist(DMARxDescToGet, x) + 1
      BY <1>0, <1>2, <1>4, <2>1, NextFacts
    <2>3. CASE RxDist(DMARxDescToGet, x) + 1 = u
      <3>1. NextRxDesc(x) = rxMac.d
        BY <1>10, <2>2, <2>3
      <3>2. RxFollows(x, J, P, Len(stored) + 1, MacPart)
        BY <1>1, <2>3 DEF RxChain, Ends
      <3>3. QED
        BY <1>6, <1>17, <2>1, <3>1, <3>2 DEF RxFollows
    <2>4. CASE RxDist(DMARxDescToGet, x) + 1 # u
      <3>1. RxDist(DMARxDescToGet, x) + 1 < u
        BY <1>2, <2>1, <2>4
      <3>2. NextRxDesc(x) # rxMac.d
        BY <1>4, <2>2, <2>4
      <3>3. k[NextRxDesc(x)] = J[NextRxDesc(x)] /\ q[NextRxDesc(x)] = P[NextRxDesc(x)]
        BY <1>17, <2>2, <3>2
      <3>4. RxFollows(x, J, P, J[NextRxDesc(x)], P[NextRxDesc(x)])
        BY <1>1, <3>1 DEF RxChain, Linked
      <3>5. QED
        BY <2>1, <3>3, <3>4 DEF RxFollows
    <2>5. QED
      BY <2>3, <2>4
  <1>20. Ends(u + 1, k, q)'
    <2> SUFFICES ASSUME NEW x \in RxRing, RxDist(DMARxDescToGet, x) + 1 = u + 1
                 PROVE  RxFollows(x, k, q, Len(stored) + 1, MacPart)'
      BY <1>5 DEF Ends
    <2>1. x = rxMac.d
      BY <1>2, <1>10
    <2>2. rxDesc'[x].LDES <=> Last
      BY <1>0, <2>1, StoreEffect
    <2>3. k[x] = Len(stored) + 1 /\ q[x] = rxMac.done + 1
      BY <1>17, <2>1
    <2>4. CASE Last
      <3>1. rxDesc'[x].LDES /\ Len(stored') = Len(stored) + 1 /\ MacPart' = 1
        BY <1>6, <1>8, <2>2, <2>4
      <3>2. QED
        BY <2>3, <3>1 DEF RxFollows
    <2>5. CASE ~Last
      <3>1. ~rxDesc'[x].LDES /\ Len(stored') = Len(stored) /\ MacPart' = (rxMac.done + 1) + 1
        BY <1>2, <1>6, <1>8, <2>2, <2>5
      <3>2. QED
        BY <2>3, <3>1 DEF RxFollows
    <2>6. QED
      BY <2>4, <2>5
  <1>21. Starts(u + 1, k, q)'
    <2>1. k[DMARxDescToGet] = Len(read) + 1 /\ q[DMARxDescToGet] = Stepped + 1
      <3>1. CASE u = 0
        <4>1. rxMac.d = DMARxDescToGet
          BY <1>0, <1>2, <1>3, <3>1, PlusFacts DEF Counts
        <4>2. Len(read) = Len(stored) /\ rxMac.done + 1 = Stepped + 1
          BY <1>1, <1>6, <3>1 DEF RxChain, Starts
        <4>3. QED
          BY <1>17, <4>1, <4>2
      <3>2. CASE u # 0
        <4>1. DMARxDescToGet # rxMac.d
          BY <1>0, <1>2, <1>4, <3>2, RxDistFacts
        <4>2. J[DMARxDescToGet] = Len(read) + 1 /\ P[DMARxDescToGet] = Stepped + 1
          BY <1>1, <1>2, <3>2 DEF RxChain, Starts
        <4>3. QED
          BY <1>2, <1>17, <4>1, <4>2
      <3>3. QED
        BY <3>1, <3>2
    <2>2. QED
      BY <1>2, <1>5, <2>1 DEF Starts
  <1>22. u + 1 \in Counts
    BY <1>2, <1>4 DEF Counts
  <1>23. Core'
    BY <1>0, <1>9, <1>12, <1>13 DEF Core
  <1>24. QED
    BY <1>14, <1>18, <1>19, <1>20, <1>21, <1>22, <1>23 DEF RxInv, RxChain

-----------------------------------------------------------------------------
(* The theorems. *)

LEMMA InitHolds == EthRxAssumption /\ RxInit => RxInv
  <1> SUFFICES ASSUME EthRxAssumption, RxInit PROVE RxInv
    OBVIOUS
  <1>1. 0 \in RxRing /\ ETH_RXBUFNB \in Nat /\ ETH_RXBUFNB > 0 /\ MaxSegs \in Nat /\ MaxRxFrames \in Nat
    BY DEF EthRxAssumption, RxRing
  <1>2. RxType
    BY <1>1 DEF RxInit, RxType, RxIdle, NoRxPart
  <1>3. Stepped = 0 /\ HeldBack = 0 /\ ~Releasing /\ MacPart = 1
    BY DEF RxInit, Stepped, HeldBack, Releasing, RxIdle, MacPart
  <1>4. CpuInv /\ SteppedInv
    BY <1>3 DEF RxInit, RxIdle, CpuInv, SteppedInv
  <1>5. PICK J \in Positions : TRUE
    <2>1. [x \in RxRing |-> 0] \in Positions
      BY DEF Positions
    <2>2. QED
      BY <2>1
  <1>6. DMARxDescToGet = 0 /\ rxMac.d = 0 /\ rxMac.left = 0 /\ Len(stored) = 0 /\ Len(read) = 0
        /\ \A x \in RxRing : rxDesc[x].OWN
    BY DEF RxInit
  <1>7. \A x \in RxRing : RxDist(0, x) \in Nat /\ RxDist(0, x) < ETH_RXBUFNB
    BY <1>1, RxDistFacts
  <1>8. RxWindow(0)
    BY <1>1, <1>3, <1>6, <1>7 DEF RxWindow, Plus
  <1>9. RxChain(0, J, J)
    BY <1>3, <1>6, <1>7 DEF RxChain, Unread, Linked, Ends, Starts
  <1>10. 0 \in Counts
    BY <1>1 DEF Counts
  <1>11. QED
    BY <1>2, <1>4, <1>5, <1>8, <1>9, <1>10 DEF RxInv, Core

LEMMA StepHolds == RxInv /\ [RxNext]_rxVars => RxInv'
  <1> SUFFICES ASSUME RxInv, [RxNext]_rxVars PROVE RxInv'
    OBVIOUS
  <1>0. rxCpu \in Cpus /\ ETH_RXBUFNB \in Nat
    BY Numbers DEF RxInv, Core, RxType, Cpus
  <1>1. CASE UNCHANGED rxVars
    <2>1. /\ UNCHANGED <<rxDesc, DMARxDescToGet, info, rxCpu, rxMac, stored, read>>
          /\ Stepped' = Stepped /\ HeldBack' = HeldBack /\ MacPart' = MacPart /\ Get' = Get
          /\ Releasing' = Releasing
      BY <1>1 DEF rxVars, Stepped, HeldBack, Releasing, MacPart, Get
    <2>2. RxType' /\ CpuInv' /\ SteppedInv'
      BY <2>1, HoldsSame DEF RxInv, Core, RxType, CpuInv, SteppedInv
    <2>3. PICK u \in Counts, J \in Positions, P \in Positions : RxWindow(u) /\ RxChain(u, J, P)
      BY DEF RxInv
    <2>4. RxWindow(u)'
      BY <2>1, <2>3 DEF RxWindow
    <2>5. RxChain(u, J, P)'
      BY <2>1, <2>3 DEF RxChain, Unread, Linked, Ends, Starts, Holds, RxFollows
    <2>6. QED
      BY <2>2, <2>4, <2>5 DEF RxInv, Core
  <1>2. CASE Call
    <2>1. rxCpu.at \in Looking /\ rxCpu' \in Cpus /\ rxCpu'.at \in Looking
      BY <1>0, <1>2 DEF Call, Looking, Cpus
    <2>2. QED
      BY <1>2, <2>1, LookOn DEF Call
  <1>3. CASE CheckReceivedFrame
    <2>1. rxCpu.at = "check" /\ rxCpu.at \in Looking /\ RxIdle \in Cpus /\ RxIdle.at \in Looking
      BY <1>0, <1>3 DEF CheckReceivedFrame, Looking, RxIdle, Cpus
    <2>2. CASE ~Get.OWN /\ Get.LDES
      BY <1>3, <2>1, <2>2, FoundLast DEF CheckReceivedFrame
    <2>3. CASE ~Get.OWN /\ ~Get.LDES
      BY <1>3, <2>1, <2>3, StepOver DEF CheckReceivedFrame
    <2>4. CASE Get.OWN
      BY <1>3, <2>1, <2>4, LookOn DEF CheckReceivedFrame
    <2>5. QED
      BY <2>2, <2>3, <2>4
  <1>4. CASE ReadReceivedFrame
    BY <1>4, ReadTakes
  <1>5. CASE ScanRound
    <2>1. CASE Get.LDES
      BY <1>5, <2>1, ReadTakes
    <2>2. CASE ~Get.LDES
      <3>1. /\ rxCpu.at = "scan" /\ ~Get.OWN /\ rxCpu.n < ETH_RXBUFNB /\ Advance
            /\ info' = (IF Get.FDES THEN FirstSegment ELSE MiddleSegment)
            /\ rxCpu' = [rxCpu EXCEPT !.n = @ + 1] /\ UNCHANGED <<rxDesc, rxMac, stored, read>>
        BY <1>5, <2>2 DEF ScanRound
      <3>2. rxCpu' \in Cpus /\ rxCpu'.at = "scan"
        BY <1>0, <3>1 DEF Cpus
      <3>3. QED
        BY <2>2, <3>1, <3>2, StepOver DEF Looking
    <2>3. QED
      BY <2>1, <2>2
  <1>6. CASE ScanEnd
    <2>1. rxCpu.at \in Looking /\ rxCpu' \in Cpus /\ rxCpu'.at \in Looking
      BY <1>0, <1>6 DEF ScanEnd, Looking, Cpus, RxIdle
    <2>2. QED
      BY <1>6, <2>1, LookOn DEF ScanEnd
  <1>7. CASE Release
    BY <1>7, ReleaseKeeps
  <1>8. CASE Mac_Store \/ \E n \in 1..MaxSegs : Mac_Arrive(n)
    BY <1>8, StoreKeeps, ArriveKeeps
  <1>9. QED
    BY <1>1, <1>2, <1>3, <1>4, <1>5, <1>6, <1>7, <1>8 DEF RxNext, RxCpu

LEMMA RxAlways == ASSUME EthRxAssumption PROVE RxSpec => []RxInv
  BY InitHolds, StepHolds, PTL DEF RxSpec

(* For every ring, frame length and number of frames the state keeps its    *)
(* type; segCount in particular never passes the length of the ring, so the *)
(* driver never counts a segment twice.                                     *)
THEOREM RxTypeCorrect == ASSUME EthRxAssumption PROVE RxSpec => []RxTypeOK
  <1>1. RxInv => RxTypeOK
    <2> SUFFICES ASSUME RxInv PROVE RxTypeOK
      OBVIOUS
    <2>1. RxFrames \subseteq Seq(RxPart)
      <3> SUFFICES ASSUME NEW f \in 1..MaxRxFrames, NEW n \in 1..MaxSegs
                   PROVE  WholeRxFrame(f, n) \in Seq(RxPart)
        BY DEF RxFrames
      <3>1. MaxRxFrames \in Nat /\ MaxSegs \in Nat
        BY Numbers DEF RxInv
      <3>2. n \in Nat /\ \A k \in 1..n : <<f, k>> \in RxPart
        BY <3>1 DEF RxPart
      <3>3. QED
        BY <3>2 DEF WholeRxFrame
    <2>2. stored \in Seq(Seq(RxPart)) /\ read \in Seq(Seq(RxPart))
      <3>1. stored \in Seq(RxFrames) /\ read \in Seq(RxFrames)
        BY DEF RxInv, Core, RxType
      <3>2. QED
        BY <2>1, <3>1, SeqMonotonic, Zenon
    <2>3. QED
      BY <2>2 DEF RxInv, Core, RxType, RxTypeOK
  <1>2. QED
    BY <1>1, RxAlways, PTL

-----------------------------------------------------------------------------
(* The refinement of FrameQueue. *)

(* Taking and putting, of the unread end of a sequence. *)
LEMMA QueuePut ==
    ASSUME NEW S, NEW s \in Seq(S), NEW r \in Nat, r <= Len(s), NEW e \in S
    PROVE  SubSeq(Append(s, e), r + 1, Len(Append(s, e))) = Append(SubSeq(s, r + 1, Len(s)), e)
  <1>1. Len(s) \in Nat
    OBVIOUS
  <1>2. /\ SubSeq(s, r + 1, Len(s)) \in Seq(S)
        /\ Len(SubSeq(s, r + 1, Len(s))) = Len(s) - r
        /\ \A i \in 1..(Len(s) - r) : SubSeq(s, r + 1, Len(s))[i] = s[r + i]
    BY <1>1
  <1> DEFINE p == SubSeq(s, r + 1, Len(s))
  <1>3. SubSeq(Append(s, e), r + 1, Len(Append(s, e))) = Append(p, e)
    <2> DEFINE t == Append(s, e)
               v == SubSeq(t, r + 1, Len(t))
               w == Append(p, e)
    <2>1. /\ t \in Seq(S) /\ Len(t) = Len(s) + 1 /\ t[Len(s) + 1] = e
          /\ \A i \in 1..Len(s) : t[i] = s[i]
      OBVIOUS
    <2> HIDE DEF t
    <2>2. /\ v \in Seq(S) /\ Len(v) = (Len(s) + 1) - r
          /\ \A i \in 1..((Len(s) + 1) - r) : v[i] = t[r + i]
      BY <1>1, <2>1
    <2> HIDE DEF v, p
    <2>3. p \in Seq(S) /\ Len(p) = Len(s) - r
      BY <1>2 DEF p
    <2>4. /\ w \in Seq(S) /\ Len(w) = (Len(s) - r) + 1 /\ w[(Len(s) - r) + 1] = e
          /\ \A i \in 1..(Len(s) - r) : w[i] = p[i]
      BY <2>3
    <2> HIDE DEF w
    <2>5. ASSUME NEW i \in 1..Len(v) PROVE v[i] = w[i]
      <3>1. CASE i = (Len(s) - r) + 1
        <4>1. i \in 1..((Len(s) + 1) - r) /\ r + i = Len(s) + 1
          BY <1>1, <2>2, <3>1
        <4>2. v[i] = t[r + i]
          BY <2>2, <4>1
        <4>3. QED
          BY <2>1, <2>4, <3>1, <4>1, <4>2
      <3>2. CASE i # (Len(s) - r) + 1
        <4>1. i \in 1..(Len(s) - r) /\ r + i \in 1..Len(s)
          <5>1. Len(v) = (Len(s) + 1) - r
            BY <2>2
          <5>2. i \in Nat /\ 1 <= i /\ i <= (Len(s) + 1) - r
            BY <1>1, <5>1
          <5>3. QED
            BY <1>1, <3>2, <5>2
        <4>2. v[i] = s[r + i] /\ w[i] = s[r + i]
          BY <1>1, <1>2, <2>1, <2>2, <2>4, <4>1 DEF p
        <4>3. QED
          BY <4>2
      <3>3. QED
        BY <3>1, <3>2
    <2>6. Len(v) = Len(w)
      BY <1>1, <2>2, <2>4
    <2>7. v = w
      BY <2>2, <2>4, <2>5, <2>6, SeqEqual
    <2>8. QED
      BY <2>7 DEF v, w, t
  <1>4. QED
    BY <1>3 DEF p

LEMMA QueueTake ==
    ASSUME NEW S, NEW s \in Seq(S), NEW r \in Nat, r <= Len(s)
    PROVE  /\ Len(SubSeq(s, r + 1, Len(s))) = Len(s) - r
           /\ r < Len(s) =>
                /\ SubSeq(s, r + 1, Len(s)) # << >>
                /\ Head(SubSeq(s, r + 1, Len(s))) = s[r + 1]
                /\ Tail(SubSeq(s, r + 1, Len(s))) = SubSeq(s, (r + 1) + 1, Len(s))
  <1>1. Len(s) \in Nat
    OBVIOUS
  <1>2. /\ SubSeq(s, r + 1, Len(s)) \in Seq(S)
        /\ Len(SubSeq(s, r + 1, Len(s))) = Len(s) - r
        /\ \A i \in 1..(Len(s) - r) : SubSeq(s, r + 1, Len(s))[i] = s[r + i]
    BY <1>1
  <1> DEFINE p == SubSeq(s, r + 1, Len(s))
  <1>3. ASSUME r < Len(s)
        PROVE  p # << >> /\ Head(p) = s[r + 1] /\ Tail(p) = SubSeq(s, (r + 1) + 1, Len(s))
    <2> HIDE DEF p
    <2>1. p \in Seq(S) /\ Len(p) = Len(s) - r /\ \A i \in 1..(Len(s) - r) : p[i] = s[r + i]
      BY <1>2 DEF p
    <2>2. Len(p) > 0 /\ p # << >>
      BY <1>1, <1>3, <2>1
    <2>3. Head(p) = s[r + 1]
      BY <1>1, <1>3, <2>1, <2>2
    <2> DEFINE t == Tail(p)
               v == SubSeq(s, (r + 1) + 1, Len(s))
    <2>4. /\ t \in Seq(S) /\ Len(t) = (Len(s) - r) - 1
          /\ \A i \in 1..((Len(s) - r) - 1) : t[i] = p[i + 1]
      BY <1>1, <2>1, <2>2
    <2>5. /\ v \in Seq(S) /\ Len(v) = Len(s) - (r + 1)
          /\ \A i \in 1..(Len(s) - (r + 1)) : v[i] = s[(r + 1) + i]
      BY <1>1, <1>3
    <2> HIDE DEF t, v
    <2>6. ASSUME NEW i \in 1..Len(t) PROVE t[i] = v[i]
      <3>1. /\ i \in 1..((Len(s) - r) - 1) /\ i \in 1..(Len(s) - (r + 1))
            /\ i + 1 \in 1..(Len(s) - r) /\ r + (i + 1) = (r + 1) + i
        BY <1>1, <2>4
      <3>2. QED
        BY <2>1, <2>4, <2>5, <3>1
    <2>7. Len(t) = Len(v)
      BY <1>1, <2>4, <2>5
    <2>8. t = v
      BY <2>4, <2>5, <2>6, <2>7, SeqEqual
    <2>9. QED
      BY <2>2, <2>3, <2>8 DEF t, v
  <1>4. QED
    BY <1>2, <1>3

(* Not more frames are pending than descriptors are unread. *)
LEMMA RxPendingFits ==
    ASSUME Core, NEW u \in Counts, NEW J \in Positions, NEW P \in Positions, RxWindow(u),
           RxChain(u, J, P)
    PROVE  Len(read) <= Len(stored) /\ Len(stored) - Len(read) <= u
  <1>1. Len(read) \in Nat /\ Len(stored) \in Nat /\ u \in Nat /\ DMARxDescToGet \in RxRing
    BY Numbers DEF Counts
  <1>2. CASE u = 0
    BY <1>1, <1>2 DEF RxChain, Starts
  <1>3. CASE u > 0
    <2>1. RxDist(DMARxDescToGet, DMARxDescToGet) = 0
      BY <1>1, RxDistFacts DEF Core
    <2>2. J[DMARxDescToGet] = Len(read) + 1
      BY <1>3 DEF RxChain, Starts
    <2>3. /\ Holds(DMARxDescToGet, J[DMARxDescToGet], P[DMARxDescToGet])
          /\ Len(stored) + 1 - J[DMARxDescToGet] <= u - 0
      BY <1>1, <1>3, <2>1 DEF RxChain, Unread
    <2>4. J[DMARxDescToGet] <= Len(stored) + 1
      BY <1>1, <2>3 DEF Holds
    <2>5. QED
      BY <1>1, <2>2, <2>3, <2>4
  <1>4. QED
    BY <1>1, <1>2, <1>3

(* Every step is a Put, a Take, or leaves the queue alone. *)
LEMMA RxQueueStep == ASSUME RxInv, [RxNext]_rxVars PROVE [RxQueue!Next]_<<RxPending, read>>
  <1>0. Core /\ stored \in Seq(RxFrames) /\ Len(read) \in Nat
    BY Numbers DEF RxInv, Core, RxType
  <1>1. PICK u \in Counts, J \in Positions, P \in Positions : RxWindow(u) /\ RxChain(u, J, P)
    BY DEF RxInv
  <1>2. Len(read) <= Len(stored) /\ Len(stored) - Len(read) <= u
    BY <1>0, <1>1, RxPendingFits
  <1>3. Len(RxPending) = Len(stored) - Len(read)
    BY <1>0, <1>2, QueueTake DEF RxPending
  <1>4. CASE ReadReceivedFrame \/ (ScanRound /\ Get.LDES)
    <2>1. /\ Len(read) + 1 \in 1..Len(stored) /\ stored' = stored
          /\ read' = Append(read, stored[Len(read) + 1])
      BY <1>4, ReadTakes
    <2>2. Len(read') = Len(read) + 1
      BY <1>0, <2>1 DEF Core, RxType
    <2>3. Len(read) < Len(stored)
      BY <1>0, <2>1
    <2>4. /\ RxPending # << >> /\ Head(RxPending) = stored[Len(read) + 1]
          /\ Tail(RxPending) = SubSeq(stored, (Len(read) + 1) + 1, Len(stored))
      BY <1>0, <1>2, <2>3, QueueTake DEF RxPending
    <2>5. RxPending' = Tail(RxPending)
      BY <2>1, <2>2, <2>4 DEF RxPending
    <2>6. RxQueue!Take
      BY <2>1, <2>4, <2>5 DEF RxQueue!Take
    <2>7. QED
      BY <2>6 DEF RxQueue!Next
  <1>5. CASE Mac_Store /\ Last
    <2>1. /\ WholeRxFrame(rxMac.frame, rxMac.done + 1) \in RxFrames /\ read' = read
          /\ stored' = Append(stored, WholeRxFrame(rxMac.frame, rxMac.done + 1))
      BY <1>0, <1>5, StoreEffect DEF RxFrames
    <2>2. RxPending' = Append(RxPending, WholeRxFrame(rxMac.frame, rxMac.done + 1))
      <3>1. PICK e \in RxFrames : e = WholeRxFrame(rxMac.frame, rxMac.done + 1)
        BY <2>1
      <3>2. SubSeq(Append(stored, e), Len(read) + 1, Len(Append(stored, e)))
              = Append(SubSeq(stored, Len(read) + 1, Len(stored)), e)
        BY <1>0, <1>2, QueuePut
      <3>3. QED
        BY <2>1, <3>1, <3>2 DEF RxPending
    <2>3. Len(RxPending) < ETH_RXBUFNB
      <3>1. rxMac.left > 0 /\ u \in Nat /\ HeldBack \in Nat /\ ETH_RXBUFNB \in Nat
            /\ Len(stored) \in Nat
        BY <1>0, <1>5, StoreEffect, Numbers DEF Counts
      <3>2. HeldBack + u < ETH_RXBUFNB
        BY <1>1, <3>1 DEF RxWindow
      <3>3. QED
        BY <1>0, <1>2, <1>3, <3>1, <3>2
    <2>4. RxQueue!Put
      BY <2>1, <2>2, <2>3 DEF RxQueue!Put
    <2>5. QED
      BY <2>4 DEF RxQueue!Next
  <1>6. CASE stored' = stored /\ read' = read
    BY <1>6 DEF RxPending
  <1>7. CASE Mac_Store /\ ~Last
    BY <1>0, <1>6, <1>7, StoreEffect
  <1>8. CASE ScanRound /\ ~Get.LDES
    BY <1>6, <1>8 DEF ScanRound
  <1>9. CASE Call \/ CheckReceivedFrame \/ ScanEnd \/ Release
               \/ (\E n \in 1..MaxSegs : Mac_Arrive(n)) \/ UNCHANGED rxVars
    BY <1>6, <1>9 DEF Call, CheckReceivedFrame, ScanEnd, Release, Mac_Arrive, rxVars
  <1>10. QED
    BY <1>4, <1>5, <1>7, <1>8, <1>9 DEF RxNext, RxCpu

(* Whether the caller polls or takes the interrupt, and mixes the two, the  *)
(* ring is a queue of frames: what it gets is what the engine stored,       *)
(* whole, once and in order, for every length of the ring, frames that fill *)
(* any number of buffers, frames cut off when the ring is full, and every   *)
(* interleaving with the engine.                                            *)
THEOREM RxRingIsQueue == ASSUME EthRxAssumption PROVE RxSpec => RxImplementsQueue
  <1>1. RxInv /\ [RxNext]_rxVars => [RxQueue!Next]_<<RxPending, read>>
    BY RxQueueStep
  <1>2. RxInit => RxQueue!Init
    <2> SUFFICES ASSUME RxInit PROVE RxQueue!Init
      OBVIOUS
    <2>1. stored = << >> /\ read = << >> /\ Len(stored) = 0 /\ Len(read) = 0
      BY DEF RxInit
    <2>2. RxPending = << >>
      BY <2>1 DEF RxPending
    <2>3. QED
      BY <2>1, <2>2 DEF RxQueue!Init
  <1>3. QED
    BY <1>1, <1>2, InitHolds, StepHolds, PTL DEF RxSpec, RxImplementsQueue, RxQueue!Queue
=============================================================================
