--------------------------- MODULE EthernetProofs ---------------------------
(***************************************************************************)
(* The receive path of the Ethernet interface never finds its driver       *)
(* locked, forgets no frame, never goes deaf and loses no packet buffer;   *)
(* it implements a FrameChannel, and so does the transmit path as long as  *)
(* no writer preempts another: for any number of descriptors, packet       *)
(* buffers and mailbox slots, and any frames.                              *)
(***************************************************************************)
EXTENDS EthernetIf, SequenceTheorems, FiniteSetTheorems, TLAPS

(* How far d is from the descriptor of the DMA.                            *)
Ahead(a, d) == IF d >= a THEN d - a ELSE d - a + ETH_RXBUFNB

(* The oldest descriptor that is not the DMA's, if there is one.           *)
Oldest == IF inPc \in {"copy", "own"} THEN FSRxDesc ELSE RxDesc

(* The descriptors of the DMA are those from its own to the oldest one.    *)
RingShape(own, dma, t) ==
  IF t = dma
  THEN (\A d \in RxDescs : own[d]) \/ (\A d \in RxDescs : ~own[d])
  ELSE \A d \in RxDescs : own[d] <=> Ahead(dma, d) < Ahead(dma, t)

RingInv == RingShape(rxOwn, dmaRx, Oldest)

(* A frame that was stored is there until its descriptor is given back.    *)
HandInv ==
  /\ \A d \in RxDescs : ~rxOwn[d] => rxBuf[d] \in Frames
  /\ inPc \in {"copy", "own"} =>
       ~rxOwn[FSRxDesc] /\ RxDesc = After(FSRxDesc, ETH_RXBUFNB)
  /\ inPc \in {"wait", "get", "copy"} => pbuf = NoFrame
  /\ inPc = "input" => pbuf # NoFrame
  /\ inPc \in {"own", "resume"} => pbuf # NoFrame \/ dry

(* Whoever locked the driver is below the input thread.                    *)
LockInv == Lock => inPc = "wait" /\ (isr = "idle" => inputSemaphore = 0)

IsrInv == isr = "clear" => inputSemaphore = 1

(* The DMA waits only for a full ring, until the thread has released some. *)
SuspendInv == suspended /\ inPc # "resume" => \A d \in RxDescs : ~rxOwn[d]

(* The thread will wake up, or need not.                                   *)
Woken == irq \/ isr = "clear" \/ inputSemaphore = 1
WakeInv ==
  /\ inPc = "resume" => Woken \/ rxOwn[dmaRx]
  /\ inPc = "wait" =>
       Woken \/ (/\ rxOwn[dmaRx] /\ ~suspended
                 /\ dry \/ \A d \in RxDescs : rxOwn[d])

EthInv ==
  /\ EthTypeOK /\ LockInv /\ IsrInv
  /\ HandInv /\ RingInv /\ SuspendInv /\ WakeInv

-----------------------------------------------------------------------------
(* The descriptor after another one.                                       *)
LEMMA AfterType ==
  ASSUME NEW n \in Nat \ {0}, NEW d \in 0..(n - 1)
  PROVE  After(d, n) \in 0..(n - 1)
BY SMT DEF After

(* The DMA fills its descriptor and goes on.                               *)
LEMMA RingReceive ==
  ASSUME NEW own \in [RxDescs -> BOOLEAN], NEW dma \in RxDescs,
         NEW t \in RxDescs, RingShape(own, dma, t), own[dma]
  PROVE  RingShape([own EXCEPT ![dma] = FALSE], After(dma, ETH_RXBUFNB), t)
<1> DEFINE N == ETH_RXBUFNB
           own2 == [own EXCEPT ![dma] = FALSE]
           dma2 == After(dma, N)
<1>1. N \in Nat \ {0}
  BY EthAssumption
<1>2. dma2 \in RxDescs /\ dma2 = (IF dma = N - 1 THEN 0 ELSE dma + 1)
  BY <1>1, SMT DEF After, RxDescs
<1>3. \A d \in RxDescs : own2[d] <=> own[d] /\ d # dma
  OBVIOUS
<1>4. \A d \in RxDescs : d # dma => Ahead(dma2, d) = Ahead(dma, d) - 1
  BY <1>1, <1>2, SMT DEF RxDescs, Ahead
<1>5. Ahead(dma2, dma) = N - 1 /\ Ahead(dma, dma) = 0
  BY <1>1, <1>2, SMT DEF RxDescs, Ahead
<1>6. \A d \in RxDescs :
        Ahead(dma, d) \in 0..(N - 1) /\ (Ahead(dma, d) = 0 => d = dma)
  BY <1>1, SMT DEF RxDescs, Ahead
<1>7. \A d \in RxDescs : Ahead(dma2, d) = 0 => d = dma2
  BY <1>1, <1>2, SMT DEF RxDescs, Ahead
<1>8. Ahead(dma2, dma2) = 0
  BY <1>1, <1>2, SMT DEF RxDescs, Ahead
<1> HIDE DEF own2, dma2, N
<1>9. CASE t = dma
  <2>1. \A d \in RxDescs : own[d]
    BY <1>9 DEF RingShape
  <2>2. CASE dma2 = t
    <3>1. N - 1 = 0
      BY <2>2, <1>9, <1>5, <1>8, <1>1, SMT
    <3>2. \A d \in RxDescs : d = dma
      BY <3>1, <1>6, SMT
    <3>3. \A d \in RxDescs : ~own2[d]
      BY <3>2, <1>3
    <3> QED
      BY <3>3, <2>2 DEF RingShape, own2, dma2, N
  <2>3. CASE dma2 # t
    <3>1. \A d \in RxDescs : d # dma => Ahead(dma2, d) < N - 1
      BY <1>4, <1>6, <1>1, SMT
    <3>2. \A d \in RxDescs : own2[d] <=> Ahead(dma2, d) < Ahead(dma2, t)
      BY <3>1, <1>3, <2>1, <1>5, <1>9, <1>1, SMT
    <3> QED
      BY <3>2, <2>3 DEF RingShape, own2, dma2, N
  <2> QED
    BY <2>2, <2>3
<1>10. CASE t # dma
  <2>1. \A d \in RxDescs : own[d] <=> Ahead(dma, d) < Ahead(dma, t)
    BY <1>10 DEF RingShape
  <2>2. CASE dma2 = t
    <3>1. Ahead(dma, t) = 1
      BY <2>2, <1>4, <1>8, <1>10, <1>6, SMT
    <3>2. \A d \in RxDescs : own[d] => d = dma
      BY <3>1, <2>1, <1>6, SMT
    <3> QED
      BY <3>2, <1>3, <2>2 DEF RingShape, own2, dma2, N
  <2>3. CASE dma2 # t
    <3>1. Ahead(dma2, t) = Ahead(dma, t) - 1
      BY <1>4, <1>10
    <3>2. \A d \in RxDescs : d # dma =>
            (own2[d] <=> Ahead(dma2, d) < Ahead(dma2, t))
      BY <3>1, <1>3, <1>4, <2>1, <1>6, SMT
    <3>3. ~(Ahead(dma2, dma) < Ahead(dma2, t))
      BY <3>1, <1>5, <1>6, <1>1, SMT
    <3>4. ~own2[dma]
      BY <1>3
    <3>5. \A d \in RxDescs : own2[d] <=> Ahead(dma2, d) < Ahead(dma2, t)
      BY <3>2, <3>3, <3>4
    <3> QED
      BY <3>5, <2>3 DEF RingShape, own2, dma2, N
  <2> QED
    BY <2>2, <2>3
<1> QED
  BY <1>9, <1>10

(* The oldest descriptor is given back to the DMA.                         *)
LEMMA RingRelease ==
  ASSUME NEW own \in [RxDescs -> BOOLEAN], NEW dma \in RxDescs,
         NEW t \in RxDescs, RingShape(own, dma, t), ~own[t]
  PROVE  RingShape([own EXCEPT ![t] = TRUE], dma, After(t, ETH_RXBUFNB))
<1> DEFINE N == ETH_RXBUFNB
           own2 == [own EXCEPT ![t] = TRUE]
           t2 == After(t, N)
<1>1. N \in Nat \ {0}
  BY EthAssumption
<1>2. t2 \in RxDescs /\ t2 = (IF t = N - 1 THEN 0 ELSE t + 1)
  BY <1>1, SMT DEF After, RxDescs
<1>3. \A d \in RxDescs : own2[d] <=> own[d] \/ d = t
  OBVIOUS
<1>4. t2 # dma => Ahead(dma, t2) = Ahead(dma, t) + 1
  BY <1>1, <1>2, SMT DEF RxDescs, Ahead
<1>5. t2 = dma => Ahead(dma, t) = N - 1
  BY <1>1, <1>2, SMT DEF RxDescs, Ahead
<1>6. \A d \in RxDescs :
        /\ Ahead(dma, d) \in 0..(N - 1)
        /\ Ahead(dma, d) = Ahead(dma, t) => d = t
  BY <1>1, SMT DEF RxDescs, Ahead
<1>7. \A d \in RxDescs : own[d] <=> Ahead(dma, d) < Ahead(dma, t)
  <2>1. CASE t = dma
    <3>1. \A d \in RxDescs : ~own[d]
      BY <2>1 DEF RingShape
    <3>2. Ahead(dma, t) = 0
      BY <2>1, <1>1, SMT DEF RxDescs, Ahead
    <3> HIDE DEF N, own2, t2
    <3> QED
      BY <3>1, <3>2, <1>6, SMT
  <2>2. CASE t # dma
    BY <2>2 DEF RingShape
  <2> QED
    BY <2>1, <2>2
<1> HIDE DEF own2, t2, N
<1>8. \A d \in RxDescs : own2[d] <=> Ahead(dma, d) < Ahead(dma, t) + 1
  BY <1>3, <1>6, <1>7, SMT
<1>9. CASE t2 = dma
  <2>1. \A d \in RxDescs : own2[d]
    BY <1>9, <1>5, <1>6, <1>8, <1>1, SMT
  <2> QED
    BY <2>1, <1>9 DEF RingShape, own2, t2, N
<1>10. CASE t2 # dma
  <2>1. \A d \in RxDescs : own2[d] <=> Ahead(dma, d) < Ahead(dma, t2)
    BY <1>10, <1>4, <1>8
  <2> QED
    BY <2>1, <1>10 DEF RingShape, own2, t2, N
<1> QED
  BY <1>9, <1>10

(* The ring has no other shapes: when the DMA's descriptor is not its own, *)
(* none is; when the oldest one is the DMA's, all are.                     *)
LEMMA RingEnds ==
  ASSUME NEW own \in [RxDescs -> BOOLEAN], NEW dma \in RxDescs,
         NEW t \in RxDescs, RingShape(own, dma, t)
  PROVE  /\ ~own[dma] => \A d \in RxDescs : ~own[d]
         /\ own[t] => \A d \in RxDescs : own[d]
<1>1. CASE t = dma
  BY <1>1 DEF RingShape
<1>2. CASE t # dma
  <2>1. Ahead(dma, dma) = 0 /\ Ahead(dma, t) \in Nat \ {0}
    BY <1>2, EthAssumption, SMT DEF RxDescs, Ahead
  <2>2. own[dma]
    BY <2>1, <1>2, SMT DEF RingShape
  <2>3. ~own[t]
    BY <2>1, <1>2, SMT DEF RingShape
  <2> QED
    BY <2>2, <2>3
<1> QED
  BY <1>1, <1>2

-----------------------------------------------------------------------------
(* What a step may change beside the receive ring.                         *)
RestTypeOK ==
  /\ {Lock, suspended, irq, dry, overlap} \subseteq BOOLEAN
  /\ isr \in {"idle", "clear"} /\ inputSemaphore \in {0, 1}
  /\ inPc \in {"wait", "get", "copy", "own", "resume", "input"}

RingTypeOK ==
  /\ rxOwn \in [RxDescs -> BOOLEAN]
  /\ rxBuf \in [RxDescs -> Frames \cup {NoFrame}]
  /\ {dmaRx, RxDesc, FSRxDesc} \subseteq RxDescs
  /\ pbuf \in Frames \cup {NoFrame}

LwipTypeOK == pool \in Nat /\ held \in Nat /\ mbox \in Seq(Frames)

TxTypeOK ==
  /\ txOwn \in [TxDescs -> BOOLEAN]
  /\ txBuf \in [TxDescs -> Writers \cup {NoFrame}]
  /\ {dmaTx, TxDesc} \subseteq TxDescs
  /\ outPc \in [Writers -> {"idle", "copy", "lock", "give", "next"}]
  /\ desc \in [Writers -> TxDescs] /\ raw \in Nat

(* The four are the type invariant.                                        *)
LEMMA TypeParts ==
  EthTypeOK <=> RestTypeOK /\ RingTypeOK /\ LwipTypeOK /\ TxTypeOK
BY DEF EthTypeOK, RestTypeOK, RingTypeOK, LwipTypeOK, TxTypeOK

(* The transmit side keeps its types.                                      *)
LEMMA TxTypeStep ==
  ASSUME TxTypeOK, Next
  PROVE  TxTypeOK'
<1>1. ETH_TXBUFNB \in Nat \ {0}
  BY EthAssumption
<1>2. \A d \in TxDescs : After(d, ETH_TXBUFNB) \in TxDescs
  BY <1>1, AfterType DEF TxDescs
<1>3. 0 \in TxDescs
  BY <1>1, SMT DEF TxDescs
<1>4. CASE UNCHANGED txVars
  BY <1>4 DEF TxTypeOK, txVars
<1>5. ASSUME NEW w \in Writers, OutBegin(w) PROVE TxTypeOK'
  <2>1. raw' \in Nat
    BY <1>5, SMT DEF OutBegin, TxTypeOK
  <2> QED
    BY <1>5, <2>1 DEF OutBegin, TxTypeOK
<1>6. ASSUME NEW w \in Writers, OutCopy(w) PROVE TxTypeOK'
  BY <1>6 DEF OutCopy, TxTypeOK
<1>7. ASSUME NEW w \in Writers, OutLock(w) PROVE TxTypeOK'
  BY <1>7, <1>3 DEF OutLock, TxTypeOK
<1>8. ASSUME NEW w \in Writers, OutGive(w) PROVE TxTypeOK'
  BY <1>8 DEF OutGive, TxTypeOK
<1>9. ASSUME NEW w \in Writers, OutNext(w) PROVE TxTypeOK'
  <2>1. TxDesc' \in TxDescs
    BY <1>9, <1>2 DEF OutNext, NextTx, TxTypeOK
  <2> QED
    BY <1>9, <1>3, <2>1 DEF OutNext, TxTypeOK
<1>10. CASE DmaSend
  BY <1>10, <1>2 DEF DmaSend, TxTypeOK
<1>11. CASE Irq \/ Input \/ Fetch \/ Free \/ \E f \in Frames : DmaReceive(f)
  BY <1>11, <1>4 DEF Irq, IrqRelease, IrqClear, Input, InWait, InGet, InCopy,
     InOwn, InResume, InInput, Fetch, Free, DmaReceive
<1> QED
  BY <1>5, <1>6, <1>7, <1>8, <1>9, <1>10, <1>11
     DEF Next, Hardware, Output

(* The receive ring keeps its types.                                       *)
LEMMA RingTypeStep ==
  ASSUME RingTypeOK, Next
  PROVE  RingTypeOK'
<1>1. ETH_RXBUFNB \in Nat \ {0}
  BY EthAssumption
<1>2. \A d \in RxDescs : After(d, ETH_RXBUFNB) \in RxDescs
  BY <1>1, AfterType DEF RxDescs
<1>3. ASSUME NEW f \in Frames, DmaReceive(f) PROVE RingTypeOK'
  <2>1. UNCHANGED <<RxDesc, FSRxDesc, pbuf>>
    BY <1>3 DEF DmaReceive, inVars
  <2>2. CASE UNCHANGED <<rxOwn, rxBuf, dmaRx>>
    BY <2>1, <2>2 DEF RingTypeOK
  <2>3. CASE /\ rxOwn' = [rxOwn EXCEPT ![dmaRx] = FALSE]
             /\ rxBuf' = [rxBuf EXCEPT ![dmaRx] = f]
             /\ dmaRx' = After(dmaRx, ETH_RXBUFNB)
    BY <1>2, <2>1, <2>3 DEF RingTypeOK
  <2> QED
    BY <1>3, <2>2, <2>3 DEF DmaReceive
<1>4. CASE InGet
  BY <1>4, <1>2 DEF InGet, RingTypeOK
<1>5. CASE InCopy
  BY <1>5 DEF InCopy, Source, RingTypeOK, ringVars
<1>6. CASE InOwn
  BY <1>6 DEF InOwn, ReleasedRx, RingTypeOK
<1>7. CASE InResume \/ InInput
  BY <1>7 DEF InResume, InInput, RingTypeOK, ringVars
<1>8. CASE UNCHANGED <<ringVars, FSRxDesc, pbuf>>
  BY <1>8 DEF RingTypeOK, ringVars
<1>9. CASE Irq \/ InWait \/ Fetch \/ Free \/ DmaSend
           \/ \E w \in Writers : Output(w)
  BY <1>9, <1>8 DEF Irq, IrqRelease, IrqClear, InWait, Fetch, Free, DmaSend,
     Output, OutBegin, OutCopy, OutLock, OutGive, OutNext, rxVars, inVars
<1> QED
  BY <1>3, <1>4, <1>5, <1>6, <1>7, <1>9 DEF Next, Hardware, Input

(* Packet buffers are counted in natural numbers.                          *)
LEMMA LwipTypeStep ==
  ASSUME EthTypeOK, HandInv, Next
  PROVE  LwipTypeOK'
<1> USE TypeParts DEF LwipTypeOK
<1>1. CASE InCopy
  BY <1>1, SMT DEF InCopy
<1>2. CASE InInput
  <2>1. pbuf \in Frames
    BY <1>2 DEF InInput, HandInv, RingTypeOK
  <2>2. Append(mbox, pbuf) \in Seq(Frames)
    BY <2>1, AppendProperties
  <2>3. (UNCHANGED mbox \/ mbox' = Append(mbox, pbuf))
        /\ (UNCHANGED pool \/ pool' = pool + 1) /\ UNCHANGED held
    BY <1>2 DEF InInput, Freed
  <2>4. pool' \in Nat
    BY <2>3, SMT
  <2> QED
    BY <2>2, <2>3, <2>4
<1>3. CASE Fetch
  <2>1. Tail(mbox) \in Seq(Frames)
    BY <1>3, HeadTailProperties DEF Fetch
  <2>2. mbox' = Tail(mbox) /\ held' = held + 1 /\ UNCHANGED pool
    BY <1>3 DEF Fetch
  <2>3. held' \in Nat
    BY <2>2, SMT
  <2> QED
    BY <2>1, <2>2, <2>3
<1>4. CASE Free
  BY <1>4, SMT DEF Free
<1>5. CASE UNCHANGED lwipVars
  BY <1>5 DEF lwipVars
<1>6. CASE Irq \/ InWait \/ InGet \/ InOwn \/ InResume \/ Hardware
           \/ \E w \in Writers : Output(w)
  BY <1>6, <1>5 DEF Irq, IrqRelease, IrqClear, InWait, InGet, InOwn, InResume,
     Hardware, DmaReceive, DmaSend, Output, OutBegin, OutCopy, OutLock,
     OutGive, OutNext, rxVars
<1> QED
  BY <1>1, <1>2, <1>3, <1>4, <1>6 DEF Next, Input

(* Flags and program counters.                                             *)
LEMMA RestTypeStep ==
  ASSUME RestTypeOK, Next
  PROVE  RestTypeOK'
<1>1. ASSUME NEW f \in Frames, DmaReceive(f) PROVE RestTypeOK'
  BY <1>1 DEF DmaReceive, RestTypeOK, inVars, txVars
<1>2. CASE Irq
  BY <1>2 DEF Irq, IrqRelease, IrqClear, Unlocked, RestTypeOK, ringVars, inVars,
     txVars
<1>3. CASE Input
  BY <1>3 DEF Input, InWait, InGet, InCopy, InOwn, InResume, InInput, More,
     RestTypeOK, ringVars, intVars, txVars
<1>4. CASE Fetch \/ Free
  BY <1>4 DEF Fetch, Free, RestTypeOK, ringVars, intVars, inVars, txVars
<1>5. ASSUME NEW w \in Writers, Output(w) PROVE RestTypeOK'
  BY <1>5 DEF Output, OutBegin, OutCopy, OutLock, OutGive, OutNext, RestTypeOK,
     rxVars, ringVars, intVars, inVars
<1>6. CASE DmaSend
  BY <1>6 DEF DmaSend, RestTypeOK, rxVars, ringVars, intVars, inVars
<1> QED
  BY <1>1, <1>2, <1>3, <1>4, <1>5, <1>6 DEF Next, Hardware

-----------------------------------------------------------------------------
(* A writer locks the driver only when the input thread sleeps, and the    *)
(* interrupt that wakes it unlocks the driver first.                       *)
LEMMA LockStep ==
  ASSUME EthTypeOK, LockInv, IsrInv, Next
  PROVE  LockInv' /\ IsrInv'
<1> USE DEF LockInv, IsrInv
<1>1. CASE Hardware
  BY <1>1 DEF Hardware, DmaReceive, DmaSend, inVars, rxVars, intVars
<1>2. CASE Irq
  BY <1>2 DEF Irq, IrqRelease, IrqClear, Unlocked, inVars
<1>3. CASE Input
  <2>1. isr = "idle" /\ UNCHANGED <<Lock, isr>>
    BY <1>3 DEF Input, InWait, InGet, InCopy, InOwn, InResume, InInput, intVars
  <2>2. ~Lock
    BY <1>3, <2>1, SMT
       DEF Input, InWait, InGet, InCopy, InOwn, InResume, InInput
  <2> QED
    BY <2>1, <2>2
<1>4. CASE Fetch \/ Free
  BY <1>4 DEF Fetch, Free, intVars, inVars
<1>5. ASSUME NEW w \in Writers, Output(w) PROVE LockInv' /\ IsrInv'
  <2>1. CanRun(w) /\ UNCHANGED rxVars
    BY <1>5 DEF Output, OutBegin, OutCopy, OutLock, OutGive, OutNext
  <2> QED
    BY <2>1 DEF CanRun, rxVars, intVars, inVars
<1> QED
  BY <1>1, <1>2, <1>3, <1>4, <1>5 DEF Next

(* The frame in hand stays in its descriptor until it has been copied.     *)
LEMMA HandStep ==
  ASSUME EthTypeOK, HandInv, Next
  PROVE  HandInv'
<1>1. RingTypeOK
  BY TypeParts
<1> USE DEF HandInv
<1>2. ASSUME NEW f \in Frames, DmaReceive(f) PROVE HandInv'
  <2>1. UNCHANGED <<inPc, FSRxDesc, pbuf, dry, RxDesc>>
    BY <1>2 DEF DmaReceive, inVars
  <2>2. CASE UNCHANGED <<rxOwn, rxBuf>>
    BY <2>1, <2>2
  <2>3. CASE /\ rxOwn' = [rxOwn EXCEPT ![dmaRx] = FALSE]
             /\ rxBuf' = [rxBuf EXCEPT ![dmaRx] = f]
    BY <1>1, <2>1, <2>3 DEF RingTypeOK
  <2> QED
    BY <1>2, <2>2, <2>3 DEF DmaReceive
<1>3. CASE InWait
  BY <1>3 DEF InWait, ringVars
<1>4. CASE InGet
  <2>1. rxOwn[RxDesc] \in BOOLEAN
    BY <1>1 DEF RingTypeOK
  <2> QED
    BY <1>4, <2>1 DEF InGet, GetFails
<1>5. CASE InCopy
  <2>1. Source \in Frames /\ Source # NoFrame
    BY <1>1, <1>5, EthAssumption DEF InCopy, Source, RingTypeOK
  <2> QED
    BY <1>5, <2>1 DEF InCopy, ringVars
<1>6. CASE InOwn
  <2>1. \A d \in RxDescs : ~rxOwn'[d] => ~rxOwn[d] /\ rxBuf'[d] = rxBuf[d]
    BY <1>1, <1>6 DEF InOwn, ReleasedRx, RingTypeOK
  <2> QED
    BY <1>6, <2>1 DEF InOwn
<1>7. CASE InResume
  BY <1>7 DEF InResume
<1>8. CASE InInput
  BY <1>8 DEF InInput, More, ringVars
<1>9. CASE UNCHANGED <<ringVars, inVars>>
  BY <1>9 DEF ringVars, inVars
<1>10. CASE Irq \/ Fetch \/ Free \/ DmaSend \/ \E w \in Writers : Output(w)
  BY <1>10, <1>9 DEF Irq, IrqRelease, IrqClear, Fetch, Free, DmaSend,
     Output, OutBegin, OutCopy, OutLock, OutGive, OutNext, rxVars
<1> QED
  BY <1>2, <1>3, <1>4, <1>5, <1>6, <1>7, <1>8, <1>10 DEF Next, Hardware, Input

(* The two pointers stay at the ends of the frames that were received.     *)
LEMMA RingStep ==
  ASSUME EthTypeOK, HandInv, RingInv, Next
  PROVE  RingInv'
<1>1. RingTypeOK /\ Oldest \in RxDescs
  BY TypeParts DEF RingTypeOK, Oldest
<1>2. ASSUME NEW f \in Frames, DmaReceive(f) PROVE RingInv'
  <2>1. Oldest' = Oldest
    BY <1>2 DEF DmaReceive, Oldest, inVars
  <2>2. CASE UNCHANGED <<rxOwn, dmaRx>>
    BY <2>1, <2>2 DEF RingInv
  <2>3. CASE /\ rxOwn[dmaRx] /\ rxOwn' = [rxOwn EXCEPT ![dmaRx] = FALSE]
             /\ dmaRx' = After(dmaRx, ETH_RXBUFNB)
    BY <1>1, <2>1, <2>3, RingReceive DEF RingInv, RingTypeOK
  <2> QED
    BY <1>2, <2>2, <2>3 DEF DmaReceive
<1>3. CASE InOwn
  <2>1. Oldest = FSRxDesc /\ Oldest' = After(Oldest, ETH_RXBUFNB)
    BY <1>3 DEF InOwn, Oldest, HandInv
  <2>2. ~rxOwn[Oldest] /\ rxOwn' = [rxOwn EXCEPT ![Oldest] = TRUE]
    BY <1>3, <2>1 DEF InOwn, ReleasedRx, HandInv
  <2>3. UNCHANGED dmaRx
    BY <1>3 DEF InOwn
  <2> QED
    BY <1>1, <2>1, <2>2, <2>3, RingRelease DEF RingInv, RingTypeOK
<1>4. CASE UNCHANGED <<rxOwn, dmaRx>> /\ Oldest' = Oldest
  BY <1>4 DEF RingInv
<1>5. CASE InWait \/ InGet \/ InCopy \/ InResume \/ InInput
  <2>1. Oldest' = Oldest
    BY <1>5 DEF InWait, InGet, InCopy, InResume, InInput, More, Oldest, ringVars
  <2> QED
    BY <1>4, <1>5, <2>1 DEF InWait, InGet, InCopy, InResume, InInput, ringVars
<1>6. CASE UNCHANGED <<ringVars, inVars>>
  BY <1>4, <1>6 DEF ringVars, inVars, Oldest
<1>7. CASE Irq \/ Fetch \/ Free \/ DmaSend \/ \E w \in Writers : Output(w)
  BY <1>7, <1>6 DEF Irq, IrqRelease, IrqClear, Fetch, Free, DmaSend,
     Output, OutBegin, OutCopy, OutLock, OutGive, OutNext, rxVars
<1> QED
  BY <1>2, <1>3, <1>5, <1>7 DEF Next, Hardware, Input

(* The DMA waits only for a full ring.                                     *)
LEMMA SuspendStep ==
  ASSUME EthTypeOK, RingInv, SuspendInv, Next
  PROVE  SuspendInv'
<1>1. RingTypeOK /\ Oldest \in RxDescs /\ suspended \in BOOLEAN
  BY TypeParts DEF RingTypeOK, RestTypeOK, Oldest
<1>2. ~rxOwn[dmaRx] => \A d \in RxDescs : ~rxOwn[d]
  BY <1>1, RingEnds DEF RingInv, RingTypeOK
<1> USE DEF SuspendInv
<1>3. ASSUME NEW f \in Frames, DmaReceive(f) PROVE SuspendInv'
  BY <1>2, <1>3 DEF DmaReceive, inVars
<1>4. CASE InOwn
  BY <1>4 DEF InOwn
<1>5. CASE InResume
  BY <1>5 DEF InResume
<1>6. CASE InWait \/ InGet \/ InCopy \/ InInput
  BY <1>6 DEF InWait, InGet, InCopy, InInput, More, ringVars
<1>7. CASE UNCHANGED <<ringVars, inVars>>
  BY <1>7 DEF ringVars, inVars
<1>8. CASE Irq \/ Fetch \/ Free \/ DmaSend \/ \E w \in Writers : Output(w)
  BY <1>8, <1>7 DEF Irq, IrqRelease, IrqClear, Fetch, Free, DmaSend,
     Output, OutBegin, OutCopy, OutLock, OutGive, OutNext, rxVars
<1> QED
  BY <1>3, <1>4, <1>5, <1>6, <1>8 DEF Next, Hardware, Input

(* The thread sleeps only when nothing is left to fetch, or when it had no *)
(* packet buffer; then it has just given a descriptor back.                *)
LEMMA WakeStep ==
  ASSUME EthTypeOK, LockInv, HandInv, RingInv, SuspendInv, WakeInv, IsrInv, Next
  PROVE  WakeInv'
<1>1. RingTypeOK /\ Oldest \in RxDescs /\ suspended \in BOOLEAN
      /\ irq \in BOOLEAN
  BY TypeParts DEF RingTypeOK, RestTypeOK, Oldest
<1>2. /\ ~rxOwn[dmaRx] => \A d \in RxDescs : ~rxOwn[d]
      /\ rxOwn[Oldest] => \A d \in RxDescs : rxOwn[d]
  BY <1>1, RingEnds DEF RingInv, RingTypeOK
<1> USE DEF WakeInv, Woken
<1>3. ASSUME NEW f \in Frames, DmaReceive(f) PROVE WakeInv'
  <2>1. UNCHANGED <<isr, inputSemaphore, inPc, dry>>
    BY <1>3 DEF DmaReceive, inVars
  <2>2. CASE irq'
    BY <2>2
  <2>3. CASE ~rxOwn[dmaRx] /\ UNCHANGED <<irq, rxOwn, dmaRx>>
    BY <2>1, <2>3
  <2> QED
    BY <1>3, <2>2, <2>3 DEF DmaReceive
<1>4. CASE Irq
  BY <1>4 DEF Irq, IrqRelease, IrqClear, IsrInv, inVars
<1>5. CASE InWait
  BY <1>5 DEF InWait
<1>6. CASE InGet
  <2>1. CASE inPc' = "wait"
    <3>1. rxOwn[Oldest]
      BY <1>6, <2>1 DEF InGet, GetFails, LockInv, Oldest
    <3>2. \A d \in RxDescs : rxOwn[d]
      BY <1>2, <3>1
    <3>3. ~suspended
      BY <1>1, <1>6, <3>1 DEF SuspendInv, InGet
    <3>4. rxOwn[dmaRx]
      BY <1>1, <3>2 DEF RingTypeOK
    <3> QED
      BY <1>6, <3>2, <3>3, <3>4 DEF InGet
  <2>2. CASE inPc' # "wait"
    BY <1>6, <2>2 DEF InGet
  <2> QED
    BY <2>1, <2>2
<1>7. CASE InCopy \/ InInput
  BY <1>7 DEF InCopy, InInput, More
<1>8. CASE InOwn
  <2>1. rxOwn'[FSRxDesc]
    BY <1>1, <1>8 DEF InOwn, ReleasedRx, RingTypeOK
  <2>2. RingInv' /\ RingTypeOK' /\ Oldest' \in RxDescs
    <3>1. RingTypeOK'
      BY <1>1, RingTypeStep
    <3>2. RingInv'
      BY RingStep
    <3> QED
      BY <3>1, <3>2 DEF RingTypeOK, Oldest
  <2>3. ~rxOwn'[dmaRx'] => \A d \in RxDescs : ~rxOwn'[d]
    BY <2>2, RingEnds DEF RingInv, RingTypeOK
  <2>4. rxOwn'[dmaRx']
    BY <1>1, <2>1, <2>3 DEF RingTypeOK
  <2> QED
    BY <1>8, <2>4 DEF InOwn
<1>9. CASE InResume
  <2>1. Woken \/ rxOwn[dmaRx]
    BY <1>9 DEF InResume
  <2>2. inPc' = "wait" => dry
    BY <1>9 DEF InResume, HandInv
  <2>3. inPc' # "resume" /\ ~suspended'
        /\ UNCHANGED <<irq, isr, inputSemaphore, rxOwn, dmaRx, dry>>
    BY <1>9 DEF InResume, intVars
  <2> QED
    BY <2>1, <2>2, <2>3
<1>10. CASE UNCHANGED <<ringVars, intVars, inVars>>
  BY <1>10 DEF ringVars, intVars, inVars
<1>11. CASE Fetch \/ Free \/ DmaSend \/ \E w \in Writers : Output(w)
  BY <1>11, <1>10 DEF Fetch, Free, DmaSend,
     Output, OutBegin, OutCopy, OutLock, OutGive, OutNext, rxVars
<1> QED
  BY <1>3, <1>4, <1>5, <1>6, <1>7, <1>8, <1>9, <1>11 DEF Next, Hardware, Input

-----------------------------------------------------------------------------
(* The invariant holds at first.                                           *)
LEMMA EthInit == Init => EthInv
<1> SUFFICES ASSUME Init PROVE EthInv
  OBVIOUS
<1>1. 0 \in RxDescs /\ 0 \in TxDescs
  BY EthAssumption, SMT DEF RxDescs, TxDescs
<1>2. RestTypeOK /\ RingTypeOK
  BY <1>1 DEF Init, RestTypeOK, RingTypeOK
<1>3. LwipTypeOK
  BY EthAssumption, EmptySeq DEF Init, LwipTypeOK
<1>4. TxTypeOK
  BY <1>1, EthAssumption DEF Init, TxTypeOK
<1>5. EthTypeOK
  BY <1>2, <1>3, <1>4, TypeParts
<1>6. HandInv /\ RingInv /\ SuspendInv /\ WakeInv /\ LockInv /\ IsrInv
  BY <1>1 DEF Init, HandInv, RingInv, RingShape, Oldest, SuspendInv, WakeInv,
     Woken, LockInv, IsrInv
<1> QED
  BY <1>5, <1>6 DEF EthInv

(* Each step keeps it.                                                     *)
LEMMA EthStep == EthInv /\ [Next]_vars => EthInv'
<1> SUFFICES ASSUME EthInv, [Next]_vars PROVE EthInv'
  OBVIOUS
<1>1. CASE Next
  <2>1. EthTypeOK'
    <3>1. RestTypeOK' /\ RingTypeOK' /\ TxTypeOK'
      BY <1>1, TypeParts, RestTypeStep, RingTypeStep, TxTypeStep DEF EthInv
    <3>2. LwipTypeOK'
      BY <1>1, LwipTypeStep DEF EthInv
    <3> QED
      BY <3>1, <3>2 DEF EthTypeOK, RestTypeOK, RingTypeOK, LwipTypeOK, TxTypeOK
  <2>2. LockInv' /\ IsrInv'
    BY <1>1, LockStep DEF EthInv
  <2>3. HandInv'
    BY <1>1, HandStep DEF EthInv
  <2>4. RingInv'
    BY <1>1, RingStep DEF EthInv
  <2>5. SuspendInv'
    BY <1>1, SuspendStep DEF EthInv
  <2>6. WakeInv'
    BY <1>1, WakeStep DEF EthInv
  <2> QED
    BY <2>1, <2>2, <2>3, <2>4, <2>5, <2>6 DEF EthInv
<1>2. CASE UNCHANGED vars
  BY <1>2 DEF vars, rxVars, ringVars, intVars, lwipVars, inVars, txVars, EthInv,
     EthTypeOK, LockInv, IsrInv, HandInv, RingInv, Oldest, SuspendInv, WakeInv,
     Woken
<1> QED
  BY <1>1, <1>2

(* Every variable keeps its type, whatever the threads and the DMA do.     *)
THEOREM EthTyped == Spec => []EthTypeOK
<1>1. EthInv => EthTypeOK
  BY DEF EthInv
<1> QED
  BY <1>1, EthInit, EthStep, PTL DEF Spec

(* The input thread never finds the driver locked by a thread it preempted. *)
THEOREM RxIsNeverBusy == Spec => []RxNeverBusy
<1>1. EthInv => RxNeverBusy
  BY DEF EthInv, LockInv, RxNeverBusy
<1> QED
  BY <1>1, EthInit, EthStep, PTL DEF Spec

(* When the input thread sleeps no frame waits for it that it could have   *)
(* fetched, and the next one will wake it.                                 *)
THEOREM NoneForgotten == Spec => []NoFrameForgotten
<1>1. EthInv => NoFrameForgotten
  BY DEF EthInv, EthTypeOK, WakeInv, Woken, Quiet, NoFrameForgotten
<1> QED
  BY <1>1, EthInit, EthStep, PTL DEF Spec

-----------------------------------------------------------------------------
(* A packet buffer changes hands, but is never lost or counted twice.      *)
LEMMA PbufsStep ==
  ASSUME EthInv, PbufsAccounted, Next
  PROVE  PbufsAccounted'
<1>1. /\ pool \in Nat /\ held \in Nat /\ mbox \in Seq(Frames)
      /\ Len(mbox) \in Nat /\ PBUF_POOL_SIZE \in Nat
      /\ pbuf \in Frames \cup {NoFrame}
  BY EthAssumption, LenProperties DEF EthInv, EthTypeOK
<1> DEFINE Hand == IF pbuf = NoFrame THEN 0 ELSE 1
<1>2. CASE InCopy
  <2>1. pbuf = NoFrame /\ Source # NoFrame
    BY <1>2, TypeParts, EthAssumption
       DEF InCopy, EthInv, HandInv, Source, RingTypeOK
  <2>2. \/ pool' = pool - 1 /\ pbuf' # NoFrame
        \/ pool' = pool /\ pbuf' = NoFrame
    BY <1>2, <2>1 DEF InCopy
  <2>3. UNCHANGED <<held, mbox>>
    BY <1>2 DEF InCopy
  <2> QED
    BY <1>1, <2>1, <2>2, <2>3, SMT DEF PbufsAccounted
<1>3. CASE InInput
  <2>1. pbuf \in Frames /\ pbuf # NoFrame /\ pbuf' = NoFrame
    BY <1>1, <1>3 DEF InInput, EthInv, HandInv
  <2>2. Len(Append(mbox, pbuf)) = Len(mbox) + 1
    BY <1>1, <2>1, AppendProperties
  <2>3. \/ mbox' = Append(mbox, pbuf) /\ pool' = pool
        \/ mbox' = mbox /\ pool' = pool + 1
    BY <1>3 DEF InInput, Freed
  <2>4. \/ Len(mbox') = Len(mbox) + 1 /\ pool' = pool
        \/ Len(mbox') = Len(mbox) /\ pool' = pool + 1
    BY <2>2, <2>3
  <2>5. UNCHANGED held
    BY <1>3 DEF InInput
  <2> QED
    BY <1>1, <2>1, <2>4, <2>5, SMT DEF PbufsAccounted
<1>4. CASE Fetch
  <2>1. Len(mbox') = Len(mbox) - 1
    BY <1>1, <1>4, HeadTailProperties DEF Fetch
  <2>2. held' = held + 1 /\ UNCHANGED <<pool, pbuf>>
    BY <1>4 DEF Fetch, inVars
  <2> QED
    BY <1>1, <2>1, <2>2, SMT DEF PbufsAccounted
<1>5. CASE Free
  <2>1. held' = held - 1 /\ pool' = pool + 1 /\ UNCHANGED <<mbox, pbuf>>
    BY <1>5 DEF Free, inVars
  <2> QED
    BY <1>1, <2>1, SMT DEF PbufsAccounted
<1>6. CASE UNCHANGED <<lwipVars, pbuf>>
  BY <1>6 DEF lwipVars, PbufsAccounted
<1>7. CASE Irq \/ InWait \/ InGet \/ InOwn \/ InResume \/ Hardware
           \/ \E w \in Writers : Output(w)
  BY <1>7, <1>6 DEF Irq, IrqRelease, IrqClear, InWait, InGet, InOwn, InResume,
     Hardware, DmaReceive, DmaSend, Output, OutBegin, OutCopy, OutLock,
     OutGive, OutNext, rxVars, inVars
<1> QED
  BY <1>2, <1>3, <1>4, <1>5, <1>7 DEF Next, Input

(* The pool of packet buffers does not leak: what arrives and cannot be    *)
(* delivered is freed.                                                     *)
THEOREM PbufsAreAccounted == Spec => []PbufsAccounted
<1>1. Init => PbufsAccounted
  <2>1. ASSUME Init PROVE PbufsAccounted
    <3>1. Len(mbox) = 0
      BY <2>1, EmptySeq DEF Init
    <3> QED
      BY <2>1, <3>1, EthAssumption, SMT DEF Init, PbufsAccounted
  <2> QED
    BY <2>1
<1>2. EthInv /\ PbufsAccounted /\ [Next]_vars => PbufsAccounted'
  <2>1. UNCHANGED vars /\ PbufsAccounted => PbufsAccounted'
    BY DEF vars, rxVars, lwipVars, inVars, PbufsAccounted
  <2> QED
    BY <2>1, PbufsStep
<1> QED
  BY <1>1, <1>2, EthInit, EthStep, PTL DEF Spec

-----------------------------------------------------------------------------
(* Both rings are queues: S holds descriptors from d on, and the next one  *)
(* to be added is e.                                                       *)
IsQueue(S, d, e, size) ==
  /\ S \subseteq 0..(size - 1)
  /\ e = Beyond(d, Cardinality(S), size)
  /\ \A k \in 0..(Cardinality(S) - 1) : Beyond(d, k, size) \in S

(* Beyond counts the descriptors along the ring, and each once.            *)
LEMMA BeyondProperties ==
  ASSUME NEW size \in Nat \ {0}, NEW d \in 0..(size - 1)
  PROVE  /\ Beyond(d, 0, size) = d
         /\ \A k \in 0..(size - 1) :
              /\ Beyond(d, k, size) \in 0..(size - 1)
              /\ k # 0 => Beyond(d, k, size) # d
              /\ After(Beyond(d, k, size), size) = Beyond(d, k + 1, size)
              /\ Beyond(After(d, size), k, size) = Beyond(d, k + 1, size)
BY SMT DEF Beyond, After

(* A set of descriptors is finite.                                         *)
LEMMA DescsFinite ==
  ASSUME NEW size \in Nat \ {0}, NEW S \in SUBSET (0..(size - 1))
  PROVE  IsFiniteSet(S) /\ Cardinality(S) \in 0..size
<1>1. IsFiniteSet(0..(size - 1)) /\ Cardinality(0..(size - 1)) = size
  BY FS_Interval, SMT
<1>2. IsFiniteSet(S) /\ Cardinality(S) <= size
  BY <1>1, FS_Subset
<1>3. Cardinality(S) \in Nat
  BY <1>2, FS_CardinalityType
<1> QED
  BY <1>2, <1>3, SMT

(* A descriptor is added at the end.                                       *)
LEMMA QueueAdd ==
  ASSUME NEW size \in Nat \ {0}, NEW d \in 0..(size - 1),
         NEW e \in 0..(size - 1), NEW S, IsQueue(S, d, e, size), e \notin S
  PROVE  /\ IsQueue(S \cup {e}, d, After(e, size), size)
         /\ Cardinality(S) \in 0..(size - 1)
         /\ Cardinality(S \cup {e}) = Cardinality(S) + 1
<1>1. S \in SUBSET (0..(size - 1)) /\ S \cup {e} \in SUBSET (0..(size - 1))
  BY DEF IsQueue
<1>2. Cardinality(S \cup {e}) = Cardinality(S) + 1
  BY <1>1, DescsFinite, FS_AddElement
<1>3. Cardinality(S) \in 0..size /\ Cardinality(S \cup {e}) \in 0..size
  BY <1>1, DescsFinite
<1> DEFINE n == Cardinality(S)
<1>4. n \in 0..(size - 1)
  BY <1>2, <1>3, SMT
<1>5. e = Beyond(d, n, size) /\ \A k \in 0..(n - 1) : Beyond(d, k, size) \in S
  BY DEF IsQueue
<1>6. After(e, size) = Beyond(d, n + 1, size)
  BY <1>4, <1>5, BeyondProperties
<1>7. ASSUME NEW k \in 0..n PROVE Beyond(d, k, size) \in S \cup {e}
  <2>1. k = n \/ k \in 0..(n - 1)
    BY <1>4, SMT
  <2> QED
    BY <1>5, <2>1
<1>8. (n + 1) - 1 = n
  BY <1>4, SMT
<1> QED
  BY <1>1, <1>2, <1>4, <1>6, <1>7, <1>8 DEF IsQueue

(* The first descriptor is taken.                                          *)
LEMMA QueueTake ==
  ASSUME NEW size \in Nat \ {0}, NEW d \in 0..(size - 1),
         NEW e, NEW S, IsQueue(S, d, e, size), S # {}
  PROVE  /\ IsQueue(S \ {d}, After(d, size), e, size)
         /\ Cardinality(S) \in 1..size
         /\ Cardinality(S \ {d}) = Cardinality(S) - 1
         /\ d \in S
<1>1. S \in SUBSET (0..(size - 1)) /\ S \ {d} \in SUBSET (0..(size - 1))
  BY DEF IsQueue
<1>2. IsFiniteSet(S) /\ Cardinality(S) \in 0..size
  BY <1>1, DescsFinite
<1> DEFINE n == Cardinality(S)
<1>3. n \in 1..size
  <2>1. n # 0
    BY <1>2, FS_EmptySet
  <2> QED
    BY <1>2, <2>1, SMT
<1>4. e = Beyond(d, n, size) /\ \A k \in 0..(n - 1) : Beyond(d, k, size) \in S
  BY DEF IsQueue
<1>5. d \in S
  <2>1. 0 \in 0..(n - 1)
    BY <1>3, SMT
  <2> QED
    BY <1>4, <2>1, BeyondProperties
<1>6. Cardinality(S \ {d}) = n - 1
  BY <1>2, <1>5, FS_RemoveElement
<1>7. e = Beyond(After(d, size), n - 1, size)
  <2>1. n - 1 \in 0..(size - 1) /\ (n - 1) + 1 = n
    BY <1>3, SMT
  <2> QED
    BY <1>4, <2>1, BeyondProperties
<1>8. ASSUME NEW k \in 0..((n - 1) - 1)
      PROVE  Beyond(After(d, size), k, size) \in S \ {d}
  <2>1. k \in 0..(size - 1) /\ k + 1 \in 0..(n - 1)
        /\ k + 1 \in 0..(size - 1) /\ k + 1 # 0
    BY <1>3, SMT
  <2>2. Beyond(After(d, size), k, size) = Beyond(d, k + 1, size)
    BY <2>1, BeyondProperties
  <2> QED
    BY <1>4, <2>1, <2>2, BeyondProperties
<1> QED
  BY <1>1, <1>3, <1>5, <1>6, <1>7, <1>8 DEF IsQueue

(* What a queue holds, if each of its buffers does.                        *)
LEMMA QueuedType ==
  ASSUME NEW T, NEW buf, NEW d, NEW size, NEW n \in Nat,
         \A k \in 0..(n - 1) : buf[Beyond(d, k, size)] \in T
  PROVE  Queued(buf, d, n, size) \in Seq(T)
<1>1. \A i \in 1..n : i - 1 \in 0..(n - 1)
  BY SMT
<1>2. Queued(buf, d, n, size) \in [1..n -> T]
  BY <1>1 DEF Queued
<1> QED
  BY <1>2, SeqDef

(* Its elements are the contents of the buffers.                           *)
LEMMA QueuedElements ==
  ASSUME NEW buf, NEW d, NEW size, NEW n \in Nat
  PROVE  /\ Len(Queued(buf, d, n, size)) = n
         /\ \A i \in 1..n :
              Queued(buf, d, n, size)[i] = buf[Beyond(d, i - 1, size)]
BY DEF Queued

(* The contents are the same if the buffers are.                           *)
LEMMA QueuedSame ==
  ASSUME NEW buf, NEW buf2, NEW d, NEW size, NEW n \in Nat,
         \A k \in 0..(n - 1) :
           buf2[Beyond(d, k, size)] = buf[Beyond(d, k, size)]
  PROVE  Queued(buf2, d, n, size) = Queued(buf, d, n, size)
<1>1. \A i \in 1..n : i - 1 \in 0..(n - 1)
  BY SMT
<1> QED
  BY <1>1 DEF Queued

(* A longer queue ends with the contents of one more buffer.               *)
LEMMA QueuedAdd ==
  ASSUME NEW buf, NEW d, NEW size, NEW n \in Nat
  PROVE  Queued(buf, d, n + 1, size)
           = Append(Queued(buf, d, n, size), buf[Beyond(d, n, size)])
<1> DEFINE T == {buf[Beyond(d, k, size)] : k \in 0..n}
           f == buf[Beyond(d, n, size)]
           q == Queued(buf, d, n, size)
           r == Queued(buf, d, n + 1, size)
<1>1. r \in Seq(T)
  <2>1. \A k \in 0..((n + 1) - 1) : buf[Beyond(d, k, size)] \in T
    OBVIOUS
  <2> QED
    BY <2>1, QueuedType
<1>2. /\ Len(r) = n + 1
      /\ \A i \in 1..(n + 1) : r[i] = buf[Beyond(d, i - 1, size)]
  BY QueuedElements
<1>3. q \in Seq(T)
  <2>1. \A k \in 0..(n - 1) : buf[Beyond(d, k, size)] \in T
    <3>1. \A k \in 0..(n - 1) : k \in 0..n
      BY SMT
    <3> QED
      BY <3>1
  <2> QED
    BY <2>1, QueuedType
<1>4. Len(q) = n /\ \A i \in 1..n : q[i] = buf[Beyond(d, i - 1, size)]
  BY QueuedElements
<1>5. f \in T
  <2>1. n \in 0..n
    BY SMT
  <2> QED
    BY <2>1
<1> HIDE DEF T, f, q, r
<1>6. /\ Append(q, f) \in Seq(T) /\ Len(Append(q, f)) = n + 1
      /\ \A i \in 1..n : Append(q, f)[i] = q[i]
      /\ Append(q, f)[n + 1] = f
  BY <1>3, <1>4, <1>5, AppendProperties
<1>7. ASSUME NEW i \in 1..(n + 1) PROVE r[i] = Append(q, f)[i]
  <2>1. CASE i = n + 1
    <3>1. i - 1 = n
      BY <2>1, SMT
    <3> QED
      BY <1>2, <1>6, <2>1, <3>1 DEF f
  <2>2. CASE i # n + 1
    <3>1. i \in 1..n /\ i - 1 \in 0..(n - 1)
      BY <2>2, SMT
    <3> QED
      BY <1>2, <1>4, <1>6, <3>1
  <2> QED
    BY <2>1, <2>2
<1>8. r = Append(q, f)
  BY <1>1, <1>2, <1>6, <1>7, SeqEqual
<1> QED
  BY <1>8 DEF f, q, r

(* The queue without its first buffer.                                     *)
LEMMA QueuedTake ==
  ASSUME NEW buf, NEW size \in Nat \ {0},
         NEW d \in 0..(size - 1), NEW n \in 1..size
  PROVE  /\ Queued(buf, d, n, size) # << >>
         /\ Queued(buf, After(d, size), n - 1, size)
              = Tail(Queued(buf, d, n, size))
         /\ Head(Queued(buf, d, n, size)) = buf[d]
<1>1. n \in Nat /\ n - 1 \in Nat
  BY SMT
<1> DEFINE T == {buf[Beyond(d, k, size)] : k \in 0..(n - 1)}
           d2 == After(d, size)
           q == Queued(buf, d, n, size)
           r == Queued(buf, d2, n - 1, size)
<1>2. q \in Seq(T)
  <2>1. \A k \in 0..(n - 1) : buf[Beyond(d, k, size)] \in T
    OBVIOUS
  <2> QED
    BY <1>1, <2>1, QueuedType
<1>3. Len(q) = n /\ \A i \in 1..n : q[i] = buf[Beyond(d, i - 1, size)]
  BY <1>1, QueuedElements
<1> HIDE DEF d2
<1>4. ASSUME NEW k \in 0..((n - 1) - 1)
      PROVE  /\ buf[Beyond(d2, k, size)] = buf[Beyond(d, k + 1, size)]
             /\ buf[Beyond(d2, k, size)] \in T
  <2>1. k \in 0..(size - 1) /\ k + 1 \in 1..(n - 1) /\ k + 1 \in 0..(n - 1)
    BY SMT
  <2>2. Beyond(d2, k, size) = Beyond(d, k + 1, size)
    BY <2>1, BeyondProperties DEF d2
  <2> QED
    BY <2>1, <2>2
<1>5. r \in Seq(T)
  BY <1>1, <1>4, QueuedType
<1>6. /\ Len(r) = n - 1
      /\ \A i \in 1..(n - 1) : r[i] = buf[Beyond(d2, i - 1, size)]
  BY <1>1, QueuedElements
<1> HIDE DEF T, q, r
<1>7. q # << >>
  BY <1>2, <1>3, EmptySeq, SMT
<1>8. /\ Tail(q) \in Seq(T) /\ Len(Tail(q)) = n - 1
      /\ \A i \in 1..(n - 1) : Tail(q)[i] = q[i + 1]
  BY <1>2, <1>3, <1>7, HeadTailProperties
<1>9. ASSUME NEW i \in 1..(n - 1) PROVE r[i] = Tail(q)[i]
  <2>1. i - 1 \in 0..((n - 1) - 1) /\ i + 1 \in 1..n
        /\ (i - 1) + 1 = i /\ (i + 1) - 1 = i
    BY SMT
  <2>2. r[i] = buf[Beyond(d, i, size)]
    BY <1>4, <1>6, <2>1
  <2>3. q[i + 1] = buf[Beyond(d, i, size)]
    BY <1>3, <2>1
  <2> QED
    BY <1>8, <2>2, <2>3
<1>10. r = Tail(q)
  BY <1>5, <1>6, <1>8, <1>9, SeqEqual
<1>11. Head(q) = buf[d]
  <2>1. 1 \in 1..n /\ 1 - 1 = 0
    BY SMT
  <2>2. q[1] = buf[Beyond(d, 0, size)]
    BY <1>3, <2>1
  <2>3. Beyond(d, 0, size) = d
    BY BeyondProperties
  <2> QED
    BY <1>2, <1>7, <2>2, <2>3
<1> QED
  BY <1>7, <1>10, <1>11 DEF q, r, d2

-----------------------------------------------------------------------------
(* Where the next frame is put: the writer may have given a descriptor to  *)
(* the DMA and not yet gone on.                                            *)
TxEnd ==
  IF \E w \in Writers : outPc[w] = "next" THEN NextTx(TxDesc) ELSE TxDesc

(* A writer that was not preempted by the other works with the driver's    *)
(* descriptor, and its frame is there when it gives it to the DMA.         *)
TxAlone ==
  /\ \A v, w \in Writers : outPc[v] # "idle" /\ outPc[w] # "idle" => v = w
  /\ \A w \in Writers :
       /\ outPc[w] # "idle" => desc[w] = TxDesc
       /\ outPc[w] \in {"lock", "give"} => txBuf[TxDesc] = w
       /\ outPc[w] \in {"copy", "lock", "give"} => ~txOwn[TxDesc]

TxQueue == IsQueue(TxGiven, dmaTx, TxEnd, ETH_TXBUFNB)

TxInv == ~overlap => TxAlone /\ TxQueue

(* The transmit ring's size and contents.                                  *)
LEMMA TxRingType ==
  ASSUME TxTypeOK, TxQueue
  PROVE  /\ ETH_TXBUFNB \in Nat \ {0} /\ TxDescs = 0..(ETH_TXBUFNB - 1)
         /\ Cardinality(TxGiven) \in 0..ETH_TXBUFNB
         /\ \A k \in 0..(Cardinality(TxGiven) - 1) :
              Beyond(dmaTx, k, ETH_TXBUFNB) \in TxGiven
<1>1. ETH_TXBUFNB \in Nat \ {0} /\ TxDescs = 0..(ETH_TXBUFNB - 1)
  BY EthAssumption DEF TxDescs
<1>2. TxGiven \in SUBSET (0..(ETH_TXBUFNB - 1))
  BY <1>1 DEF TxGiven
<1>3. Cardinality(TxGiven) \in 0..ETH_TXBUFNB
  BY <1>1, <1>2, DescsFinite
<1> QED
  BY <1>1, <1>3 DEF TxQueue, IsQueue

(* A frame is given to the DMA: it is the writer's, and the last to go.    *)
LEMMA TxGive ==
  ASSUME TxTypeOK, TxAlone, TxQueue, NEW w \in Writers, OutGive(w)
  PROVE  TxAlone' /\ TxQueue' /\ outPc[w] = "give" /\ Tx!Put(w)
<1> DEFINE n == Cardinality(TxGiven)
<1>1. outPc[w] = "give" /\ desc[w] = TxDesc /\ txBuf[TxDesc] = w
      /\ ~txOwn[TxDesc]
  BY DEF OutGive, TxAlone
<1>2. /\ txOwn' = [txOwn EXCEPT ![TxDesc] = TRUE]
      /\ desc' = [desc EXCEPT ![w] = TxDesc]
      /\ outPc' = [outPc EXCEPT ![w] = "next"]
      /\ UNCHANGED <<txBuf, dmaTx, TxDesc>>
  BY <1>1 DEF OutGive
<1>3. TxAlone'
  BY <1>1, <1>2 DEF TxAlone, TxTypeOK
<1>4. TxEnd = TxDesc /\ TxEnd' = NextTx(TxDesc)
  BY <1>1, <1>2 DEF TxEnd, NextTx, TxAlone, TxTypeOK
<1>5. TxGiven' = TxGiven \cup {TxDesc} /\ TxDesc \notin TxGiven
  BY <1>1, <1>2 DEF TxGiven, TxTypeOK
<1>6. dmaTx \in 0..(ETH_TXBUFNB - 1) /\ TxDesc \in 0..(ETH_TXBUFNB - 1)
  BY TxRingType DEF TxTypeOK
<1>7. /\ IsQueue(TxGiven \cup {TxDesc}, dmaTx, NextTx(TxDesc), ETH_TXBUFNB)
      /\ n \in 0..(ETH_TXBUFNB - 1)
      /\ Cardinality(TxGiven \cup {TxDesc}) = n + 1
  BY <1>4, <1>5, <1>6, TxRingType, QueueAdd DEF TxQueue, NextTx
<1>8. TxQueue'
  BY <1>2, <1>4, <1>5, <1>7 DEF TxQueue
<1>9. Beyond(dmaTx, n, ETH_TXBUFNB) = TxDesc
  BY <1>4 DEF TxQueue, IsQueue
<1>10. n \in Nat
  BY <1>7
<1>11. Queued(txBuf, dmaTx, Cardinality(TxGiven \cup {TxDesc}), ETH_TXBUFNB)
         = Append(Queued(txBuf, dmaTx, n, ETH_TXBUFNB),
                  txBuf[Beyond(dmaTx, n, ETH_TXBUFNB)])
  BY <1>7, <1>10, QueuedAdd
<1>12. TxRing' = Append(TxRing, w)
  BY <1>1, <1>2, <1>5, <1>7, <1>9, <1>11 DEF TxRing
<1> QED
  BY <1>1, <1>3, <1>8, <1>12 DEF Tx!Put

(* The DMA sends the first frame of the ring.                              *)
LEMMA TxSend ==
  ASSUME TxTypeOK, TxAlone, TxQueue, DmaSend
  PROVE  TxAlone' /\ TxQueue' /\ Tx!Take
<1> DEFINE n == Cardinality(TxGiven)
<1>1. /\ txOwn[dmaTx] /\ txOwn' = [txOwn EXCEPT ![dmaTx] = FALSE]
      /\ txBuf' = [txBuf EXCEPT ![dmaTx] = NoFrame]
      /\ dmaTx' = After(dmaTx, ETH_TXBUFNB)
      /\ UNCHANGED <<TxDesc, outPc, desc>>
  BY DEF DmaSend
<1>2. TxAlone'
  BY <1>1 DEF TxAlone, TxTypeOK
<1>3. TxEnd' = TxEnd
  BY <1>1 DEF TxEnd, NextTx
<1>4. TxGiven' = TxGiven \ {dmaTx} /\ dmaTx \in TxGiven
  BY <1>1 DEF TxGiven, TxTypeOK
<1>5. dmaTx \in 0..(ETH_TXBUFNB - 1)
  BY TxRingType DEF TxTypeOK
<1>6. /\ IsQueue(TxGiven \ {dmaTx}, After(dmaTx, ETH_TXBUFNB), TxEnd,
                 ETH_TXBUFNB)
      /\ n \in 1..ETH_TXBUFNB
      /\ Cardinality(TxGiven \ {dmaTx}) = n - 1
  <2>1. /\ ETH_TXBUFNB \in Nat \ {0} /\ TxGiven # {}
        /\ IsQueue(TxGiven, dmaTx, TxEnd, ETH_TXBUFNB)
    BY <1>4, EthAssumption DEF TxQueue
  <2>2. /\ IsQueue(TxGiven \ {dmaTx}, After(dmaTx, ETH_TXBUFNB), TxEnd,
                   ETH_TXBUFNB)
        /\ n \in 1..ETH_TXBUFNB
    BY <1>5, <2>1, QueueTake, Zenon
  <2>3. TxGiven \in SUBSET (0..(ETH_TXBUFNB - 1))
    BY <2>1 DEF IsQueue
  <2>4. IsFiniteSet(TxGiven)
    BY <2>1, <2>3, DescsFinite
  <2>5. Cardinality(TxGiven \ {dmaTx}) = n - 1
    BY <1>4, <2>4, FS_RemoveElement
  <2> QED
    BY <2>2, <2>5
<1>7. TxQueue'
  BY <1>1, <1>3, <1>4, <1>6 DEF TxQueue
<1>8. ASSUME NEW k \in 0..((n - 1) - 1)
      PROVE  txBuf'[Beyond(After(dmaTx, ETH_TXBUFNB), k, ETH_TXBUFNB)]
               = txBuf[Beyond(After(dmaTx, ETH_TXBUFNB), k, ETH_TXBUFNB)]
  <2>1. k \in 0..(Cardinality(TxGiven \ {dmaTx}) - 1)
    BY <1>6
  <2>2. Beyond(After(dmaTx, ETH_TXBUFNB), k, ETH_TXBUFNB) \in TxGiven \ {dmaTx}
    BY <1>6, <2>1 DEF IsQueue
  <2> QED
    BY <1>1, <2>2 DEF TxTypeOK, TxGiven
<1>9. /\ Queued(txBuf, dmaTx, n, ETH_TXBUFNB) # << >>
      /\ Queued(txBuf, After(dmaTx, ETH_TXBUFNB), n - 1, ETH_TXBUFNB)
           = Tail(Queued(txBuf, dmaTx, n, ETH_TXBUFNB))
  BY <1>5, <1>6, EthAssumption, QueuedTake
<1>10. Queued(txBuf', After(dmaTx, ETH_TXBUFNB), n - 1, ETH_TXBUFNB)
         = Queued(txBuf, After(dmaTx, ETH_TXBUFNB), n - 1, ETH_TXBUFNB)
  <2>1. n - 1 \in Nat
    BY <1>6, EthAssumption, SMT
  <2> QED
    BY <1>8, <2>1, QueuedSame
<1>11. TxRing # << >> /\ TxRing' = Tail(TxRing)
  BY <1>1, <1>4, <1>6, <1>9, <1>10 DEF TxRing
<1> QED
  BY <1>2, <1>7, <1>11 DEF Tx!Take

(* A writer before and after that does not touch what the DMA has.         *)
LEMMA TxWork ==
  ASSUME TxTypeOK, TxAlone, TxQueue, NEW w \in Writers, ~overlap',
         OutBegin(w) \/ OutCopy(w) \/ OutLock(w) \/ OutNext(w)
  PROVE  TxAlone' /\ TxQueue' /\ UNCHANGED TxRing
<1> DEFINE n == Cardinality(TxGiven)
<1>1. UNCHANGED <<txOwn, dmaTx>> /\ TxGiven' = TxGiven
  BY DEF OutBegin, OutCopy, OutLock, OutNext, TxGiven
<1>2. CASE OutBegin(w)
  <2>1. \A v \in Writers \ {w} : outPc[v] = "idle"
    BY <1>2 DEF OutBegin
  <2>2. TxAlone'
    BY <1>2, <2>1 DEF OutBegin, Available, TxAlone, TxTypeOK
  <2>3. TxEnd' = TxEnd
    BY <1>2 DEF OutBegin, TxEnd, NextTx, TxTypeOK
  <2>4. UNCHANGED txBuf
    BY <1>2 DEF OutBegin
  <2> QED
    BY <1>1, <2>2, <2>3, <2>4 DEF TxQueue, TxRing
<1>3. CASE OutCopy(w)
  <2>1. outPc[w] = "copy" /\ desc[w] = TxDesc /\ ~txOwn[TxDesc]
    BY <1>3 DEF OutCopy, TxAlone
  <2>2. TxAlone'
    BY <1>3, <2>1 DEF OutCopy, TxAlone, TxTypeOK
  <2>3. TxEnd' = TxEnd
    BY <1>3 DEF OutCopy, TxEnd, NextTx, TxTypeOK
  <2>4. \A d \in TxGiven : txBuf'[d] = txBuf[d]
    BY <1>3, <2>1 DEF OutCopy, TxGiven, TxTypeOK
  <2>5. Queued(txBuf', dmaTx, n, ETH_TXBUFNB)
          = Queued(txBuf, dmaTx, n, ETH_TXBUFNB)
    BY <2>4, TxRingType, QueuedSame
  <2> QED
    BY <1>1, <2>2, <2>3, <2>5 DEF TxQueue, TxRing
<1>4. CASE OutLock(w)
  <2>1. TxAlone'
    BY <1>4 DEF OutLock, TxAlone, TxTypeOK
  <2>2. TxEnd' = TxEnd
    BY <1>4 DEF OutLock, TxEnd, NextTx, TxTypeOK
  <2>3. UNCHANGED txBuf
    BY <1>4 DEF OutLock
  <2> QED
    BY <1>1, <2>1, <2>2, <2>3 DEF TxQueue, TxRing
<1>5. CASE OutNext(w)
  <2>1. outPc[w] = "next" /\ desc[w] = TxDesc /\ TxDesc' = NextTx(TxDesc)
    BY <1>5 DEF OutNext, TxAlone
  <2>2. /\ outPc' = [outPc EXCEPT ![w] = "idle"]
        /\ desc' = [desc EXCEPT ![w] = 0] /\ UNCHANGED txBuf
    BY <1>5 DEF OutNext
  <2>3. \A v \in Writers : outPc'[v] = "idle"
    BY <2>1, <2>2 DEF TxAlone, TxTypeOK
  <2>4. TxAlone'
    BY <2>3 DEF TxAlone
  <2>5. TxEnd = NextTx(TxDesc) /\ TxEnd' = TxDesc'
    BY <2>1, <2>3 DEF TxEnd
  <2> QED
    BY <1>1, <2>1, <2>2, <2>4, <2>5 DEF TxQueue, TxRing
<1> QED
  BY <1>2, <1>3, <1>4, <1>5

(* What the transmit side does in each step.                               *)
TxAction ==
  overlap' \/ (\E w \in Writers : outPc[w] = "give" /\ Tx!Put(w)) \/ Tx!Take

LEMMA TxStep ==
  ASSUME TxTypeOK, TxInv, [Next]_vars
  PROVE  TxInv' /\ [TxAction]_TxRing
<1>1. CASE overlap'
  BY <1>1 DEF TxInv, TxAction
<1>2. CASE ~overlap'
  <2>1. ~overlap
    BY <1>2 DEF Next, Hardware, DmaReceive, DmaSend, Irq, IrqRelease, IrqClear,
       Input, InWait, InGet, InCopy, InOwn, InResume, InInput, Fetch, Free,
       Output, OutBegin, OutCopy, OutLock, OutGive, OutNext, vars, txVars
  <2>2. TxAlone /\ TxQueue
    BY <2>1 DEF TxInv
  <2>3. CASE UNCHANGED txVars
    BY <2>2, <2>3 DEF txVars, TxInv, TxAlone, TxQueue, TxGiven, TxEnd, TxRing,
       NextTx
  <2>4. CASE DmaSend
    BY <2>2, <2>4, TxSend DEF TxInv, TxAction
  <2>5. ASSUME NEW w \in Writers, Output(w) PROVE TxInv' /\ [TxAction]_TxRing
    BY <1>2, <2>2, <2>5, TxGive, TxWork DEF Output, TxInv, TxAction
  <2>6. CASE Irq \/ Input \/ Fetch \/ Free \/ UNCHANGED vars
             \/ \E f \in Frames : DmaReceive(f)
    BY <2>3, <2>6 DEF DmaReceive, Irq, IrqRelease, IrqClear, Input, InWait,
       InGet, InCopy, InOwn, InResume, InInput, Fetch, Free, vars
  <2> QED
    BY <2>4, <2>5, <2>6 DEF Next, Hardware
<1> QED
  BY <1>1, <1>2

(* As long as no writer preempted another, what goes out is what was       *)
(* accepted, in its order, and none is lost.                               *)
THEOREM TxImplementsChannel == Spec => TxIsChannel
<1>1. Init => TxInv
  <2> SUFFICES ASSUME Init PROVE TxAlone /\ TxQueue
    BY DEF TxInv
  <2>1. TxGiven = {} /\ TxEnd = 0 /\ dmaTx = 0
    BY DEF Init, TxGiven, TxEnd
  <2>2. ETH_TXBUFNB \in Nat \ {0}
    BY EthAssumption
  <2>3. Beyond(0, 0, ETH_TXBUFNB) = 0
    BY <2>2, SMT DEF Beyond
  <2>4. TxQueue
    BY <2>1, <2>3, FS_EmptySet, SMT DEF TxQueue, IsQueue
  <2> QED
    BY <2>4 DEF Init, TxAlone
<1>2. EthInv => TxTypeOK
  BY TypeParts DEF EthInv
<1>3. EthInv /\ TxInv /\ [Next]_vars => TxInv' /\ [TxAction]_TxRing
  BY <1>2, TxStep
<1>4. Spec => [][TxAction]_TxRing
  BY <1>1, <1>3, EthInit, EthStep, PTL DEF Spec
<1> QED
  BY <1>4 DEF TxIsChannel, TxAction

-----------------------------------------------------------------------------
RxQueue == IsQueue(RxStored, RxDesc, dmaRx, ETH_RXBUFNB)

(* The frames in the receive ring.                                         *)
LEMMA RxRingType ==
  ASSUME RingTypeOK, HandInv, RxQueue
  PROVE  /\ ETH_RXBUFNB \in Nat \ {0} /\ RxDescs = 0..(ETH_RXBUFNB - 1)
         /\ IsFiniteSet(RxStored) /\ Cardinality(RxStored) \in 0..ETH_RXBUFNB
         /\ RxRing \in Seq(Frames)
<1> DEFINE n == Cardinality(RxStored)
<1>1. ETH_RXBUFNB \in Nat \ {0} /\ RxDescs = 0..(ETH_RXBUFNB - 1)
  BY EthAssumption DEF RxDescs
<1>2. RxStored \in SUBSET (0..(ETH_RXBUFNB - 1))
  BY <1>1 DEF RxStored
<1>3. IsFiniteSet(RxStored) /\ n \in 0..ETH_RXBUFNB
  BY <1>1, <1>2, DescsFinite
<1>4. \A d \in RxStored : rxBuf[d] \in Frames
  BY DEF HandInv, RxStored
<1>5. \A k \in 0..(n - 1) : rxBuf[Beyond(RxDesc, k, ETH_RXBUFNB)] \in Frames
  BY <1>4 DEF RxQueue, IsQueue
<1>6. n \in Nat
  BY <1>1, <1>3, SMT
<1>7. RxRing \in Seq(Frames)
  BY <1>5, <1>6, QueuedType DEF RxRing
<1> QED
  BY <1>1, <1>3, <1>7

(* A frame arrives at the end of the ring; the one that is being copied is *)
(* not touched.                                                            *)
LEMMA RxStore ==
  ASSUME RingTypeOK, HandInv, RxQueue, NEW f \in Frames, DmaReceive(f),
         rxOwn[dmaRx]
  PROVE  RxQueue' /\ Copied' = Copied /\ RxRing' = Append(RxRing, f)
<1> DEFINE n == Cardinality(RxStored)
<1>1. /\ rxOwn' = [rxOwn EXCEPT ![dmaRx] = FALSE]
      /\ rxBuf' = [rxBuf EXCEPT ![dmaRx] = f]
      /\ dmaRx' = After(dmaRx, ETH_RXBUFNB)
      /\ UNCHANGED <<RxDesc, inPc, FSRxDesc>>
  BY DEF DmaReceive, inVars
<1>2. InHand' = InHand /\ dmaRx \notin InHand
  BY <1>1 DEF InHand, HandInv
<1>3. RxStored' = RxStored \cup {dmaRx} /\ dmaRx \notin RxStored
  BY <1>1, <1>2 DEF RxStored, RingTypeOK
<1>4. Copied' = Copied
  BY <1>1 DEF Copied, HandInv, RingTypeOK
<1>5. RxDesc \in 0..(ETH_RXBUFNB - 1) /\ dmaRx \in 0..(ETH_RXBUFNB - 1)
  BY RxRingType DEF RingTypeOK
<1>6. /\ IsQueue(RxStored \cup {dmaRx}, RxDesc, After(dmaRx, ETH_RXBUFNB),
                 ETH_RXBUFNB)
      /\ n \in 0..(ETH_RXBUFNB - 1)
      /\ Cardinality(RxStored \cup {dmaRx}) = n + 1
  BY <1>3, <1>5, RxRingType, QueueAdd DEF RxQueue
<1>7. RxQueue'
  BY <1>1, <1>3, <1>6 DEF RxQueue
<1>8. n \in Nat
  BY <1>6
<1>9. Beyond(RxDesc, n, ETH_RXBUFNB) = dmaRx
  BY DEF RxQueue, IsQueue
<1>10. Queued(rxBuf', RxDesc, n, ETH_RXBUFNB) = RxRing
  <2>1. \A d \in RxStored : rxBuf'[d] = rxBuf[d]
    BY <1>1, <1>3 DEF RingTypeOK, RxStored
  <2>2. \A k \in 0..(n - 1) : rxBuf'[Beyond(RxDesc, k, ETH_RXBUFNB)]
                                = rxBuf[Beyond(RxDesc, k, ETH_RXBUFNB)]
    BY <2>1 DEF RxQueue, IsQueue
  <2> QED
    BY <1>8, <2>2, QueuedSame DEF RxRing
<1>11. Queued(rxBuf', RxDesc, n + 1, ETH_RXBUFNB)
         = Append(Queued(rxBuf', RxDesc, n, ETH_RXBUFNB),
                  rxBuf'[Beyond(RxDesc, n, ETH_RXBUFNB)])
  BY <1>8, QueuedAdd
<1>12. rxBuf'[dmaRx] = f
  BY <1>1 DEF RingTypeOK
<1>13. RxRing' = Append(RxRing, f)
  BY <1>1, <1>3, <1>6, <1>9, <1>10, <1>11, <1>12 DEF RxRing
<1> QED
  BY <1>4, <1>7, <1>13

(* The input thread takes the first frame of the ring into its hand.       *)
LEMMA RxGet ==
  ASSUME RingTypeOK, HandInv, RxQueue, InGet, inPc' = "copy"
  PROVE  /\ RxQueue' /\ RxRing # << >> /\ RxRing' = Tail(RxRing)
         /\ Copied = NoFrame /\ Copied' = Head(RxRing) /\ Copied' \in Frames
<1> DEFINE n == Cardinality(RxStored)
<1>1. /\ inPc = "get" /\ ~rxOwn[RxDesc]
      /\ FSRxDesc' = RxDesc /\ RxDesc' = After(RxDesc, ETH_RXBUFNB)
      /\ UNCHANGED <<rxOwn, rxBuf, dmaRx>>
  BY DEF InGet, GetFails
<1>2. InHand = {} /\ InHand' = {RxDesc}
  BY <1>1 DEF InHand
<1>3. RxStored' = RxStored \ {RxDesc} /\ RxDesc \in RxStored
  BY <1>1, <1>2 DEF RxStored, RingTypeOK
<1>4. RxDesc \in 0..(ETH_RXBUFNB - 1)
  BY RxRingType DEF RingTypeOK
<1>5. /\ IsQueue(RxStored \ {RxDesc}, After(RxDesc, ETH_RXBUFNB), dmaRx,
                 ETH_RXBUFNB)
      /\ n \in 1..ETH_RXBUFNB
  <2>1. /\ ETH_RXBUFNB \in Nat \ {0} /\ RxStored # {}
        /\ IsQueue(RxStored, RxDesc, dmaRx, ETH_RXBUFNB)
    BY <1>3, EthAssumption DEF RxQueue
  <2> QED
    BY <1>4, <2>1, QueueTake, Zenon
<1>6. Cardinality(RxStored \ {RxDesc}) = n - 1
  BY <1>3, RxRingType, FS_RemoveElement
<1>7. RxQueue'
  BY <1>1, <1>3, <1>5 DEF RxQueue
<1>8. /\ Queued(rxBuf, RxDesc, n, ETH_RXBUFNB) # << >>
      /\ Queued(rxBuf, After(RxDesc, ETH_RXBUFNB), n - 1, ETH_RXBUFNB)
           = Tail(Queued(rxBuf, RxDesc, n, ETH_RXBUFNB))
      /\ Head(Queued(rxBuf, RxDesc, n, ETH_RXBUFNB)) = rxBuf[RxDesc]
  BY <1>4, <1>5, EthAssumption, QueuedTake
<1>9. RxRing # << >> /\ RxRing' = Tail(RxRing) /\ Head(RxRing) = rxBuf[RxDesc]
  BY <1>1, <1>3, <1>6, <1>8 DEF RxRing
<1>10. Copied = NoFrame /\ Copied' = rxBuf[RxDesc] /\ rxBuf[RxDesc] \in Frames
  BY <1>1 DEF Copied, HandInv, RingTypeOK
<1> QED
  BY <1>7, <1>9, <1>10

(* The frame in hand is not in the ring any more when its descriptor is    *)
(* given back.                                                             *)
LEMMA RxRelease ==
  ASSUME RingTypeOK, HandInv, RxQueue, InOwn
  PROVE  RxQueue' /\ UNCHANGED RxRing /\ Copied = NoFrame /\ Copied' = NoFrame
<1> DEFINE n == Cardinality(RxStored)
<1>1. /\ inPc = "own" /\ inPc' = "resume" /\ UNCHANGED <<dmaRx, RxDesc>>
      /\ rxOwn' = [rxOwn EXCEPT ![FSRxDesc] = TRUE]
      /\ rxBuf' = [rxBuf EXCEPT ![FSRxDesc] = NoFrame]
  BY DEF InOwn, ReleasedRx
<1>2. InHand = {FSRxDesc} /\ InHand' = {}
  BY <1>1 DEF InHand
<1>3. RxStored' = RxStored
  BY <1>1, <1>2 DEF RxStored, RingTypeOK
<1>4. \A d \in RxStored : rxBuf'[d] = rxBuf[d]
  BY <1>1, <1>2 DEF RxStored, RingTypeOK
<1>5. n \in Nat
  BY RxRingType, SMT
<1>6. Queued(rxBuf', RxDesc, n, ETH_RXBUFNB)
        = Queued(rxBuf, RxDesc, n, ETH_RXBUFNB)
  <2>1. \A k \in 0..(n - 1) : rxBuf'[Beyond(RxDesc, k, ETH_RXBUFNB)]
                                = rxBuf[Beyond(RxDesc, k, ETH_RXBUFNB)]
    BY <1>4 DEF RxQueue, IsQueue
  <2> QED
    BY <1>5, <2>1, QueuedSame
<1>7. RxQueue' /\ UNCHANGED RxRing
  BY <1>1, <1>3, <1>6 DEF RxQueue, RxRing
<1> QED
  BY <1>1, <1>7 DEF Copied

(* The other steps do not touch the ring.                                  *)
LEMMA RxOthers ==
  ASSUME RxQueue, UNCHANGED ringVars, UNCHANGED FSRxDesc,
         inPc \in {"copy", "own"} <=> inPc' \in {"copy", "own"}
  PROVE  RxQueue' /\ UNCHANGED RxRing
<1>1. RxStored' = RxStored
  BY DEF ringVars, RxStored, InHand
<1> QED
  BY <1>1 DEF ringVars, RxQueue, RxRing

-----------------------------------------------------------------------------
(* The frames of RxChan: in the mailbox, in a packet buffer, being copied, *)
(* and in the ring.                                                        *)
Chan(m, p, c, r) == m \o Held(p) \o Held(c) \o r

LEMMA HeldType ==
  /\ Held(NoFrame) = << >>
  /\ \A f \in Frames : Held(f) = <<f>>
  /\ \A f \in Frames \cup {NoFrame} : Held(f) \in Seq(Frames)
BY EthAssumption, EmptySeq DEF Held

(* An empty hand adds nothing.                                             *)
LEMMA ChanForms ==
  ASSUME NEW m \in Seq(Frames), NEW r \in Seq(Frames)
  PROVE  /\ Chan(m, NoFrame, NoFrame, r) = m \o r
         /\ \A f \in Frames : /\ Chan(m, NoFrame, f, r) = (m \o <<f>>) \o r
                              /\ Chan(m, f, NoFrame, r) = (m \o <<f>>) \o r
<1>1. m \o << >> = m
  BY ConcatEmptySeq
<1>2. \A f \in Frames : (m \o <<f>>) \o << >> = m \o <<f>>
  <2> SUFFICES ASSUME NEW f \in Frames PROVE (m \o <<f>>) \o << >> = m \o <<f>>
    OBVIOUS
  <2>1. <<f>> \in Seq(Frames)
    BY HeldType
  <2>2. m \o <<f>> \in Seq(Frames)
    BY <2>1, ConcatProperties
  <2> QED
    BY <2>2, ConcatEmptySeq
<1> QED
  BY <1>1, <1>2, HeldType DEF Chan

(* What is added to the ring is added to the channel.                      *)
LEMMA ChanPut ==
  ASSUME NEW u \in Seq(Frames), NEW r \in Seq(Frames), NEW f \in Frames
  PROVE  u \o Append(r, f) = Append(u \o r, f)
<1>1. <<f>> \in Seq(Frames)
  OBVIOUS
<1>2. u \o Append(r, f) = u \o (r \o <<f>>)
  BY AppendIsConcat
<1>3. u \o (r \o <<f>>) = (u \o r) \o <<f>>
  BY <1>1, ConcatAssociative
<1>4. u \o r \in Seq(Frames)
  BY ConcatProperties
<1>5. Append(u \o r, f) = (u \o r) \o <<f>>
  BY <1>4, AppendIsConcat
<1> QED
  BY <1>2, <1>3, <1>5

(* Taking the first frame of the ring into the hand changes nothing.       *)
LEMMA ChanGet ==
  ASSUME NEW m \in Seq(Frames), NEW r \in Seq(Frames), r # << >>
  PROVE  /\ Head(r) \in Frames
         /\ Chan(m, NoFrame, Head(r), Tail(r)) = Chan(m, NoFrame, NoFrame, r)
<1>1. Head(r) \in Frames /\ Tail(r) \in Seq(Frames)
  BY HeadTailProperties
<1>2. <<Head(r)>> \in Seq(Frames)
  BY <1>1
<1>3. <<Head(r)>> \o Tail(r) = r
  OBVIOUS
<1>4. (m \o <<Head(r)>>) \o Tail(r) = m \o (<<Head(r)>> \o Tail(r))
  BY <1>1, <1>2, ConcatAssociative
<1> QED
  BY <1>1, <1>3, <1>4, ChanForms

(* Posting the packet in the mailbox changes nothing.                      *)
LEMMA ChanPost ==
  ASSUME NEW m \in Seq(Frames), NEW r \in Seq(Frames), NEW f \in Frames
  PROVE  Chan(Append(m, f), NoFrame, NoFrame, r) = Chan(m, f, NoFrame, r)
<1>1. Append(m, f) \in Seq(Frames)
  BY AppendProperties
<1>2. Append(m, f) = m \o <<f>>
  BY AppendIsConcat
<1>3. Chan(Append(m, f), NoFrame, NoFrame, r) = Append(m, f) \o r
  BY <1>1, ChanForms
<1>4. Chan(m, f, NoFrame, r) = (m \o <<f>>) \o r
  BY ChanForms
<1> QED
  BY <1>2, <1>3, <1>4

(* The frame in the hand may be lost.                                      *)
LEMMA ChanLose ==
  ASSUME NEW m \in Seq(Frames), NEW r \in Seq(Frames), NEW f \in Frames
  PROVE  LET s == (m \o <<f>>) \o r IN
           \E i \in 1..Len(s) : m \o r = Rx!RemoveAt(s, i)
<1> DEFINE u == m \o <<f>>
           s == u \o r
           i == Len(m) + 1
<1>1. <<f>> \in Seq(Frames) /\ Len(<<f>>) = 1
  OBVIOUS
<1>2. /\ u \in Seq(Frames) /\ Len(u) = Len(m) + 1
      /\ \A j \in 1..(Len(m) + 1) : u[j] = IF j <= Len(m) THEN m[j] ELSE f
  BY <1>1, ConcatProperties
<1>3. Len(m) \in Nat /\ Len(r) \in Nat
  BY LenProperties
<1> HIDE DEF u
<1>4. /\ s \in Seq(Frames) /\ Len(s) = Len(m) + 1 + Len(r)
      /\ \A j \in 1..(Len(u) + Len(r)) :
           s[j] = IF j <= Len(u) THEN u[j] ELSE r[j - Len(u)]
  <2>1. /\ s \in Seq(Frames) /\ Len(s) = Len(u) + Len(r)
        /\ \A j \in 1..(Len(u) + Len(r)) :
             s[j] = IF j <= Len(u) THEN u[j] ELSE r[j - Len(u)]
    BY <1>2, ConcatProperties
  <2> QED
    BY <1>2, <1>3, <2>1
<1> HIDE DEF s
<1>5. SubSeq(s, 1, i - 1) = m
  <2>1. i - 1 = Len(m)
    BY <1>3, SMT
  <2>2. \A j \in 1..Len(m) : s[j] = m[j]
    BY <1>2, <1>3, <1>4, SMT
  <2>3. \A j \in 1..Len(m) : s[j] \in Frames
    BY <2>2, ElementOfSeq
  <2>4. /\ SubSeq(s, 1, Len(m)) \in Seq(Frames)
        /\ Len(SubSeq(s, 1, Len(m))) = Len(m)
        /\ \A j \in 1..Len(m) : SubSeq(s, 1, Len(m))[j] = s[j]
    BY <1>3, <2>3, SubSeqProperties
  <2> QED
    BY <2>1, <2>2, <2>4, SeqEqual
<1>6. SubSeq(s, i + 1, Len(s)) = r
  <2>1. \A j \in 1..Len(r) : s[(i + 1) + j - 1] = r[j]
    <3> SUFFICES ASSUME NEW j \in 1..Len(r)
                 PROVE  s[(i + 1) + j - 1] = r[j]
      OBVIOUS
    <3> DEFINE k == Len(u) + j
    <3>1. (i + 1) + j - 1 = k
      BY <1>2, <1>3
    <3>2. k \in 1..(Len(u) + Len(r)) /\ ~(k <= Len(u)) /\ k - Len(u) = j
      BY <1>2, <1>3
    <3> HIDE DEF k
    <3>3. s[k] = r[k - Len(u)]
      BY <1>4, <3>2
    <3> QED
      BY <3>1, <3>2, <3>3
  <2>2. \A j \in (i + 1)..Len(s) : s[j] \in Frames
    BY <1>3, <1>4, ElementOfSeq, SMT
  <2>3. /\ SubSeq(s, i + 1, Len(s)) \in Seq(Frames)
        /\ Len(SubSeq(s, i + 1, Len(s))) = Len(r)
        /\ \A j \in 1..Len(r) : SubSeq(s, i + 1, Len(s))[j] = s[(i + 1) + j - 1]
    BY <1>3, <1>4, <2>2, SubSeqProperties
  <2> QED
    BY <2>1, <2>3, SeqEqual
<1>7. i \in 1..Len(s)
  BY <1>3, <1>4, SMT
<1>8. m \o r = Rx!RemoveAt(s, i)
  BY <1>5, <1>6 DEF Rx!RemoveAt
<1> QED
  BY <1>7, <1>8 DEF s, u

(* What LwIP takes from the mailbox is the first of the channel.           *)
LEMMA ChanTake ==
  ASSUME NEW m \in Seq(Frames), NEW r \in Seq(Frames), m # << >>,
         NEW p \in Frames \cup {NoFrame}, NEW c \in Frames \cup {NoFrame}
  PROVE  /\ Chan(m, p, c, r) # << >>
         /\ Chan(Tail(m), p, c, r) = Tail(Chan(m, p, c, r))
<1> DEFINE h == Head(m)
           t == Tail(m)
           v == (Held(p) \o Held(c)) \o r
<1>1. h \in Frames /\ t \in Seq(Frames) /\ m = <<h>> \o t
  BY HeadTailProperties
<1>2. Held(p) \in Seq(Frames) /\ Held(c) \in Seq(Frames)
  BY HeldType
<1>3. v \in Seq(Frames) /\ Held(p) \o Held(c) \in Seq(Frames)
  BY <1>2, ConcatProperties
<1> DEFINE Assoc == \A x, y, z \in Seq(Frames) :
                       (x \o y) \o z = x \o (y \o z)
<1>0. Assoc
  BY ConcatAssociative
<1>4. \A x \in Seq(Frames) : Chan(x, p, c, r) = x \o v
  <2> SUFFICES ASSUME NEW x \in Seq(Frames) PROVE Chan(x, p, c, r) = x \o v
    OBVIOUS
  <2>1. (x \o Held(p)) \o Held(c) = x \o (Held(p) \o Held(c))
    BY <1>2, <1>0
  <2>2. (x \o (Held(p) \o Held(c))) \o r = x \o v
    BY <1>3, <1>0
  <2> QED
    BY <2>1, <2>2 DEF Chan
<1> HIDE DEF h, t, v
<1>5. <<h>> \in Seq(Frames)
  BY <1>1
<1>6. Chan(m, p, c, r) = <<h>> \o (t \o v)
  <2>1. Chan(m, p, c, r) = (<<h>> \o t) \o v
    BY <1>1, <1>4
  <2>2. (<<h>> \o t) \o v = <<h>> \o (t \o v)
    BY <1>1, <1>3, <1>5, <1>0
  <2> QED
    BY <2>1, <2>2
<1>7. t \o v \in Seq(Frames)
  BY <1>1, <1>3, ConcatProperties
<1>8. <<h>> \o (t \o v) # << >> /\ Tail(<<h>> \o (t \o v)) = t \o v
  BY <1>1, <1>5, <1>7
<1> QED
  BY <1>1, <1>4, <1>6, <1>8 DEF t
-----------------------------------------------------------------------------
(* What the steps of the receive path do to RxChan.                        *)
LEMMA RxParts ==
  ASSUME EthTypeOK, HandInv, RxQueue
  PROVE  /\ RingTypeOK /\ mbox \in Seq(Frames) /\ RxRing \in Seq(Frames)
         /\ pbuf \in Frames \cup {NoFrame} /\ Copied \in Frames \cup {NoFrame}
         /\ RxChan = Chan(mbox, pbuf, Copied, RxRing)
<1>1. RingTypeOK /\ mbox \in Seq(Frames) /\ pbuf \in Frames \cup {NoFrame}
  BY TypeParts DEF EthTypeOK
<1>2. RxRing \in Seq(Frames)
  BY <1>1, RxRingType
<1>3. Copied \in Frames \cup {NoFrame}
  BY <1>1 DEF Copied, RingTypeOK
<1> QED
  BY <1>1, <1>2, <1>3 DEF RxChan, Chan

(* A frame that arrives is put in the channel, or never was in it.         *)
LEMMA RxArrives ==
  ASSUME EthTypeOK, HandInv, RxQueue, NEW f \in Frames, DmaReceive(f)
  PROVE  RxQueue' /\ (RxChan' = Append(RxChan, f) \/ UNCHANGED RxChan)
<1>1. UNCHANGED <<mbox, pbuf, inPc, FSRxDesc, RxDesc>>
  BY DEF DmaReceive, lwipVars, inVars
<1>2. CASE rxOwn[dmaRx]
  <2>1. RxQueue' /\ Copied' = Copied /\ RxRing' = Append(RxRing, f)
    BY <1>2, RxParts, RxStore
  <2> DEFINE u == (mbox \o Held(pbuf)) \o Held(Copied)
  <2>2. RxChan = u \o RxRing /\ RxChan' = u \o Append(RxRing, f)
    BY <1>1, <2>1 DEF RxChan
  <2>3. u \in Seq(Frames)
    BY RxParts, HeldType, ConcatProperties
  <2> HIDE DEF u
  <2>4. u \o Append(RxRing, f) = Append(u \o RxRing, f)
    BY <2>3, RxParts, ChanPut
  <2> QED
    BY <2>1, <2>2, <2>4
<1>3. CASE ~rxOwn[dmaRx]
  <2>1. UNCHANGED <<rxOwn, rxBuf, dmaRx>>
    BY <1>3 DEF DmaReceive
  <2> QED
    BY <1>1, <2>1 DEF RxQueue, RxStored, InHand, RxChan, RxRing, Copied
<1> QED
  BY <1>2, <1>3

(* The input thread takes a frame from the ring.                           *)
LEMMA RxTaken ==
  ASSUME EthTypeOK, HandInv, RxQueue, InGet
  PROVE  RxQueue' /\ UNCHANGED RxChan
<1>1. inPc = "get" /\ UNCHANGED <<mbox, pbuf>> /\ pbuf = NoFrame
  BY DEF InGet, lwipVars, HandInv
<1>2. CASE GetFails
  <2>1. inPc' = "wait" /\ UNCHANGED ringVars /\ UNCHANGED FSRxDesc
    BY <1>2 DEF InGet, ringVars
  <2>2. RxQueue' /\ UNCHANGED RxRing
    BY <1>1, <2>1, RxOthers
  <2> QED
    BY <1>1, <2>1, <2>2 DEF RxChan, Copied
<1>3. CASE ~GetFails
  <2>1. inPc' = "copy"
    BY <1>3 DEF InGet
  <2>2. /\ RxQueue' /\ RxRing # << >> /\ RxRing' = Tail(RxRing)
        /\ Copied = NoFrame /\ Copied' = Head(RxRing)
    BY <2>1, RxParts, RxGet
  <2>3. RxChan' = Chan(mbox, NoFrame, Head(RxRing), Tail(RxRing))
    BY <1>1, <2>2 DEF RxChan, Chan
  <2>4. RxChan = Chan(mbox, NoFrame, NoFrame, RxRing)
    BY <1>1, <2>2, RxParts
  <2> QED
    BY <2>2, <2>3, <2>4, RxParts, ChanGet
<1> QED
  BY <1>2, <1>3

(* It copies it, or loses it for want of a packet buffer.                  *)
LEMMA RxCopied ==
  ASSUME EthTypeOK, HandInv, RxQueue, InCopy
  PROVE  RxQueue' /\ (UNCHANGED RxChan \/ Rx!Lose)
<1> DEFINE f == rxBuf[FSRxDesc]
<1>1. /\ inPc = "copy" /\ inPc' = "own" /\ UNCHANGED <<mbox, FSRxDesc>>
      /\ UNCHANGED ringVars /\ (pbuf' = f \/ pbuf' = NoFrame)
  BY DEF InCopy, Source
<1>2. RxQueue' /\ UNCHANGED RxRing
  BY <1>1, RxOthers
<1>3. pbuf = NoFrame /\ f \in Frames /\ Copied = f /\ Copied' = NoFrame
  BY <1>1, RxParts DEF HandInv, Copied, RingTypeOK
<1> HIDE DEF f
<1>4. RxChan' = Chan(mbox, pbuf', NoFrame, RxRing)
  BY <1>1, <1>2, <1>3 DEF RxChan, Chan
<1>5. RxChan = (mbox \o <<f>>) \o RxRing
  <2>1. RxChan = Chan(mbox, NoFrame, f, RxRing)
    BY <1>3, RxParts
  <2> QED
    BY <1>3, <2>1, RxParts, ChanForms
<1>6. CASE pbuf' = f
  BY <1>2, <1>3, <1>4, <1>5, <1>6, RxParts, ChanForms
<1>7. CASE pbuf' = NoFrame
  <2>1. RxChan' = mbox \o RxRing
    BY <1>4, <1>7, RxParts, ChanForms
  <2>2. \E i \in 1..Len(RxChan) : mbox \o RxRing = Rx!RemoveAt(RxChan, i)
    BY <1>3, <1>5, RxParts, ChanLose
  <2> QED
    BY <1>2, <2>1, <2>2 DEF Rx!Lose
<1> QED
  BY <1>1, <1>6, <1>7

(* It posts the packet in the mailbox, or frees it when that is full.      *)
LEMMA RxPosted ==
  ASSUME EthTypeOK, HandInv, RxQueue, InInput
  PROVE  RxQueue' /\ (UNCHANGED RxChan \/ Rx!Lose)
<1>1. /\ inPc = "input" /\ inPc' = "get" /\ UNCHANGED FSRxDesc
      /\ UNCHANGED ringVars /\ pbuf' = NoFrame
      /\ mbox' = Append(mbox, pbuf) \/ mbox' = mbox
  BY DEF InInput, More
<1>2. RxQueue' /\ UNCHANGED RxRing
  BY <1>1, RxOthers
<1>3. pbuf \in Frames /\ Copied = NoFrame /\ Copied' = NoFrame
  BY <1>1, RxParts DEF HandInv, Copied
<1>4. RxChan' = Chan(mbox', NoFrame, NoFrame, RxRing)
  BY <1>1, <1>2, <1>3 DEF RxChan, Chan
<1>5. RxChan = Chan(mbox, pbuf, NoFrame, RxRing)
  BY <1>3, RxParts
<1>6. CASE mbox' = Append(mbox, pbuf)
  BY <1>2, <1>3, <1>4, <1>5, <1>6, RxParts, ChanPost
<1>7. CASE mbox' = mbox
  <2>1. RxChan' = mbox \o RxRing
    BY <1>4, <1>7, RxParts, ChanForms
  <2>2. RxChan = (mbox \o <<pbuf>>) \o RxRing
    BY <1>3, <1>5, RxParts, ChanForms
  <2>3. \E i \in 1..Len(RxChan) : mbox \o RxRing = Rx!RemoveAt(RxChan, i)
    BY <1>3, <2>2, RxParts, ChanLose
  <2> QED
    BY <1>2, <2>1, <2>3 DEF Rx!Lose
<1> QED
  BY <1>1, <1>6, <1>7

(* LwIP takes the first frame of the channel.                              *)
LEMMA RxFetched ==
  ASSUME EthTypeOK, HandInv, RxQueue, Fetch
  PROVE  RxQueue' /\ Rx!Take
<1>1. /\ mbox # << >> /\ mbox' = Tail(mbox)
      /\ UNCHANGED ringVars /\ UNCHANGED inVars
  BY DEF Fetch
<1>2. UNCHANGED <<inPc, FSRxDesc, pbuf, rxBuf>>
  BY <1>1 DEF ringVars, inVars
<1>3. RxQueue' /\ UNCHANGED RxRing
  BY <1>1, <1>2, RxOthers
<1>4. RxChan' = Chan(Tail(mbox), pbuf, Copied, RxRing)
  BY <1>1, <1>2, <1>3 DEF RxChan, Chan, Copied
<1>5. /\ Chan(mbox, pbuf, Copied, RxRing) # << >>
      /\ Chan(Tail(mbox), pbuf, Copied, RxRing)
           = Tail(Chan(mbox, pbuf, Copied, RxRing))
  BY <1>1, RxParts, ChanTake
<1> QED
  BY <1>3, <1>4, <1>5, RxParts DEF Rx!Take

(* The descriptor is given back, and the DMA resumed.                      *)
LEMMA RxGivenBack ==
  ASSUME EthTypeOK, HandInv, RxQueue, InOwn \/ InResume
  PROVE  RxQueue' /\ UNCHANGED RxChan
<1>1. UNCHANGED <<mbox, pbuf, FSRxDesc>>
  BY DEF InOwn, InResume, lwipVars
<1>2. CASE InOwn
  BY <1>1, <1>2, RxParts, RxRelease DEF RxChan
<1>3. CASE InResume
  BY <1>1, <1>3 DEF InResume, RxQueue, RxStored, InHand, RxChan, RxRing, Copied
<1> QED
  BY <1>2, <1>3

LEMMA RxStep ==
  ASSUME EthTypeOK, HandInv, RxQueue, [Next]_vars
  PROVE  RxQueue' /\ [Rx!Next]_RxChan
<1>1. ASSUME NEW f \in Frames, DmaReceive(f)
      PROVE  RxQueue' /\ [Rx!Next]_RxChan
  BY <1>1, RxArrives DEF Rx!Next, Rx!Put
<1>2. CASE InGet
  BY <1>2, RxTaken
<1>3. CASE InCopy
  BY <1>3, RxCopied DEF Rx!Next
<1>4. CASE InOwn \/ InResume
  BY <1>4, RxGivenBack
<1>5. CASE InInput
  BY <1>5, RxPosted DEF Rx!Next
<1>6. CASE Fetch
  BY <1>6, RxFetched DEF Rx!Next
<1>7. CASE InWait \/ Free \/ Irq \/ DmaSend \/ UNCHANGED vars
           \/ \E w \in Writers : Output(w)
  <2>1. /\ UNCHANGED ringVars /\ UNCHANGED <<FSRxDesc, mbox, pbuf>>
        /\ inPc' = inPc \/ (inPc = "wait" /\ inPc' = "get")
    <3>1. CASE InWait \/ Free \/ Irq
      BY <3>1 DEF InWait, Free, Irq, IrqRelease, IrqClear, lwipVars, inVars
    <3>2. ASSUME NEW w \in Writers, Output(w) PROVE UNCHANGED rxVars
      BY <3>2 DEF Output, OutBegin, OutCopy, OutLock, OutGive, OutNext
    <3>3. CASE DmaSend \/ UNCHANGED vars
      BY <3>3 DEF DmaSend, vars, rxVars, lwipVars, inVars
    <3> QED
      BY <1>7, <3>1, <3>2, <3>3 DEF rxVars, lwipVars, inVars
  <2>2. RxQueue' /\ UNCHANGED RxRing
    BY <2>1, RxOthers
  <2> QED
    BY <2>1, <2>2 DEF RxChan, Copied, ringVars
<1> QED
  BY <1>1, <1>2, <1>3, <1>4, <1>5, <1>6, <1>7 DEF Next, Hardware, Input

(* What LwIP is given are the frames that arrived, in their order, none    *)
(* twice and each as it arrived: the receive ring, the input thread and    *)
(* the mailbox implement a FrameChannel that may lose frames.              *)
THEOREM RxImplementsChannel == Spec => RxIsChannel
<1>1. Init => RxQueue /\ Rx!Init
  <2> SUFFICES ASSUME Init PROVE RxQueue /\ RxChan = << >>
    BY DEF Rx!Init
  <2>1. RxStored = {} /\ RxDesc = 0 /\ dmaRx = 0
    BY DEF Init, RxStored
  <2>2. ETH_RXBUFNB \in Nat \ {0}
    BY EthAssumption
  <2>3. Beyond(0, 0, ETH_RXBUFNB) = 0
    BY <2>2, SMT DEF Beyond
  <2>4. RxQueue
    BY <2>1, <2>3, FS_EmptySet, SMT DEF RxQueue, IsQueue
  <2>5. RxRing = << >>
    BY <2>1, FS_EmptySet, SMT DEF RxRing, Queued
  <2>6. mbox = << >> /\ Held(pbuf) = << >> /\ Held(Copied) = << >>
    BY DEF Init, Held, Copied
  <2>7. RxChan = << >>
    BY <2>5, <2>6, ConcatEmptySeq, EmptySeq DEF RxChan
  <2> QED
    BY <2>4, <2>7
<1>2. EthInv => EthTypeOK /\ HandInv
  BY DEF EthInv
<1>3. EthInv /\ RxQueue /\ [Next]_vars => RxQueue' /\ [Rx!Next]_RxChan
  BY <1>2, RxStep
<1>4. Spec => Rx!Init /\ [][Rx!Next]_RxChan
  BY <1>1, <1>3, EthInit, EthStep, PTL DEF Spec
<1> QED
  BY <1>4 DEF RxIsChannel, Rx!Spec
=============================================================================
