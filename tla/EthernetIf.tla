----------------------------- MODULE EthernetIf -----------------------------
(***************************************************************************)
(* The Ethernet interface of BSP/ethernetIf.cpp over the HAL's driver: the *)
(* receive ring, its interrupt and input thread; the pool of packet        *)
(* buffers and the mailbox of the TCP/IP thread; and lowLevelOutput, which *)
(* two may call: whoever holds the core lock of LwIP, and the dhcp thread, *)
(* whose raw calls do not take it.                                         *)
(*                                                                         *)
(* One processor: the interrupt handler runs first, then the input thread, *)
(* the holder of the core lock, and the dhcp thread.  The DMA runs any     *)
(* time.  A frame fits in one buffer of each kind.                         *)
(***************************************************************************)
EXTENDS Naturals, Sequences, FiniteSets

CONSTANTS
  Frames, NoFrame,
  ETH_RXBUFNB, ETH_TXBUFNB,
  PBUF_POOL_SIZE, TCPIP_MBOX_SIZE,
  RawSends         \* frames the dhcp thread sends by raw calls: the first
                   \* of dhcp_start and the first of sntpInit

ASSUME EthAssumption ==
  /\ {ETH_RXBUFNB, ETH_TXBUFNB, PBUF_POOL_SIZE, TCPIP_MBOX_SIZE}
       \subseteq Nat \ {0}
  /\ NoFrame \notin Frames /\ RawSends \in Nat

Writers == {"core", "dhcp"}
RxDescs == 0..(ETH_RXBUFNB - 1)
TxDescs == 0..(ETH_TXBUFNB - 1)
(* Buffer2NextDescAddr: the last one is linked to the first.               *)
After(d, n) == IF d = n - 1 THEN 0 ELSE d + 1

VARIABLES
  Lock,            \* EthHandle.Lock
  (* receive *)
  rxOwn, rxBuf,    \* OWN of each descriptor: it is the DMA's; its buffer
  dmaRx, suspended,  \* the DMA's descriptor; RBUS: it found it taken
  RxDesc,          \* EthHandle.RxDesc
  irq, isr,        \* flag R, which interrupts; where the handler is
  inputSemaphore,
  inPc, FSRxDesc, pbuf,   \* the input thread
  pool, mbox, held,  \* free packet buffers, mailbox, buffers LwIP keeps
  dry,             \* history: the thread stopped for want of a buffer
  (* transmit *)
  txOwn, txBuf, dmaTx, TxDesc,
  outPc, desc,     \* each writer: where it is, the descriptor it uses
  raw,             \* what the dhcp thread has yet to send
  overlap          \* history: one writer preempted the other

ringVars == <<rxOwn, rxBuf, dmaRx, suspended, RxDesc>>
intVars == <<irq, isr, inputSemaphore>>
lwipVars == <<pool, mbox, held>>
inVars == <<inPc, FSRxDesc, pbuf, dry>>
rxVars == <<ringVars, intVars, lwipVars, inVars>>
txVars == <<txOwn, txBuf, dmaTx, TxDesc, outPc, desc, raw, overlap>>
vars == <<Lock, rxVars, txVars>>

(* ethernetIfInit: the semaphore is created given.                         *)
Init ==
  /\ Lock = FALSE
  /\ rxOwn = [d \in RxDescs |-> TRUE] /\ rxBuf = [d \in RxDescs |-> NoFrame]
  /\ dmaRx = 0 /\ suspended = FALSE /\ RxDesc = 0
  /\ irq = FALSE /\ isr = "idle" /\ inputSemaphore = 1
  /\ inPc = "wait" /\ FSRxDesc = 0 /\ pbuf = NoFrame /\ dry = FALSE
  /\ pool = PBUF_POOL_SIZE /\ mbox = <<>> /\ held = 0
  /\ txOwn = [d \in TxDescs |-> FALSE] /\ txBuf = [d \in TxDescs |-> NoFrame]
  /\ dmaTx = 0 /\ TxDesc = 0
  /\ outPc = [w \in Writers |-> "idle"]
  /\ desc = [w \in Writers |-> 0]
  /\ raw = RawSends /\ overlap = FALSE

-----------------------------------------------------------------------------
(* A frame arrives: it is stored, or lost because no descriptor is free,   *)
(* and then the DMA waits to be resumed.                                   *)
DmaReceive(f) ==
  /\ ~suspended
  /\ \/ /\ rxOwn[dmaRx]
        /\ rxOwn' = [rxOwn EXCEPT ![dmaRx] = FALSE]
        /\ rxBuf' = [rxBuf EXCEPT ![dmaRx] = f]
        /\ dmaRx' = After(dmaRx, ETH_RXBUFNB) /\ irq' = TRUE
        /\ UNCHANGED suspended
     \/ /\ ~rxOwn[dmaRx] /\ suspended' = TRUE
        /\ UNCHANGED <<rxOwn, rxBuf, dmaRx, irq>>
  /\ UNCHANGED <<Lock, RxDesc, isr, inputSemaphore, lwipVars, inVars, txVars>>

(* HAL_ETH_IRQHandler: it gives the semaphore, clears the flag and unlocks *)
(* the driver, whoever locked it.                                          *)
IrqRelease ==
  /\ irq /\ isr = "idle"
  /\ inputSemaphore' = 1 /\ isr' = "clear"
  /\ UNCHANGED <<Lock, ringVars, irq, lwipVars, inVars, txVars>>

(* Mutant: it leaves the lock alone.                                       *)
Unlocked_Not == Lock
Unlocked == FALSE

IrqClear ==
  /\ isr = "clear" /\ isr' = "idle" /\ irq' = FALSE /\ Lock' = Unlocked
  /\ UNCHANGED <<ringVars, inputSemaphore, lwipVars, inVars, txVars>>

-----------------------------------------------------------------------------
InWait ==
  /\ isr = "idle" /\ inPc = "wait" /\ inputSemaphore = 1
  /\ inputSemaphore' = 0 /\ inPc' = "get" /\ dry' = FALSE
  /\ UNCHANGED <<Lock, ringVars, irq, isr, lwipVars, FSRxDesc, pbuf, txVars>>

(* HAL_ETH_GetReceivedFrame_IT: HAL_BUSY or HAL_ERROR end the loop.        *)
GetFails == Lock \/ rxOwn[RxDesc]
InGet ==
  /\ isr = "idle" /\ inPc = "get"
  /\ IF GetFails
     THEN inPc' = "wait" /\ UNCHANGED <<FSRxDesc, RxDesc>>
     ELSE /\ FSRxDesc' = RxDesc /\ RxDesc' = After(RxDesc, ETH_RXBUFNB)
          /\ inPc' = "copy"
  /\ UNCHANGED <<Lock, rxOwn, rxBuf, dmaRx, suspended, intVars, lwipVars,
                 pbuf, dry, txVars>>

(* The buffer that is copied.  Mutant: the driver's next one.              *)
Source_Next == rxBuf[RxDesc]
Source == rxBuf[FSRxDesc]

InCopy ==
  /\ isr = "idle" /\ inPc = "copy" /\ inPc' = "own"
  /\ \/ pool > 0 /\ pbuf' = Source /\ pool' = pool - 1 /\ UNCHANGED dry
     \/ pool = 0 /\ pbuf' = NoFrame /\ dry' = TRUE /\ UNCHANGED pool
  /\ UNCHANGED <<Lock, ringVars, intVars, mbox, held, FSRxDesc, txVars>>

(* The descriptor is the DMA's again, with or without a packet buffer.     *)
(* Mutant: only when its frame was copied.                                 *)
ReleasedRx_IfCopied == IF pbuf = NoFrame THEN rxOwn
                       ELSE [rxOwn EXCEPT ![FSRxDesc] = TRUE]
ReleasedRx == [rxOwn EXCEPT ![FSRxDesc] = TRUE]

InOwn ==
  /\ isr = "idle" /\ inPc = "own" /\ inPc' = "resume"
  /\ rxOwn' = ReleasedRx /\ rxBuf' = [rxBuf EXCEPT ![FSRxDesc] = NoFrame]
  /\ UNCHANGED <<Lock, dmaRx, suspended, RxDesc, intVars, lwipVars,
                 FSRxDesc, pbuf, dry, txVars>>

InResume ==
  /\ isr = "idle" /\ inPc = "resume" /\ suspended' = FALSE
  /\ inPc' = IF pbuf = NoFrame THEN "wait" ELSE "input"
  /\ UNCHANGED <<Lock, rxOwn, rxBuf, dmaRx, RxDesc, intVars, lwipVars,
                 FSRxDesc, pbuf, dry, txVars>>

(* pbuf_free.  Mutant: it is forgotten.                                    *)
Freed_Forgotten == pool
Freed == pool + 1

(* The loop goes on while there was a packet.                              *)
More == "get"

(* netif->input, which is tcpip_input: the packet is posted or freed.      *)
InInput ==
  /\ isr = "idle" /\ inPc = "input"
  /\ IF Len(mbox) < TCPIP_MBOX_SIZE
     THEN mbox' = Append(mbox, pbuf) /\ UNCHANGED pool
     ELSE pool' = Freed /\ UNCHANGED mbox
  /\ pbuf' = NoFrame /\ inPc' = More
  /\ UNCHANGED <<Lock, ringVars, intVars, held, FSRxDesc, dry, txVars>>

-----------------------------------------------------------------------------
(* A thread runs when nothing above it does.                               *)
CanRun(w) ==
  /\ isr = "idle" /\ inPc = "wait" /\ inputSemaphore = 0
  /\ w = "dhcp" => outPc["core"] = "idle" /\ mbox = <<>>

(* tcpip_thread takes a packet; LwIP frees it in the end.                  *)
Fetch ==
  /\ CanRun("core") /\ mbox # <<>>
  /\ mbox' = Tail(mbox) /\ held' = held + 1
  /\ UNCHANGED <<Lock, ringVars, intVars, pool, inVars, txVars>>

Free ==
  /\ CanRun("core") /\ held > 0
  /\ held' = held - 1 /\ pool' = pool + 1
  /\ UNCHANGED <<Lock, ringVars, intVars, mbox, inVars, txVars>>

-----------------------------------------------------------------------------
(* lowLevelOutput: the descriptor must be free.  A writer's frame is named *)
(* after it.  Mutant: the descriptor is not looked at.                     *)
Available_Any(d) == TRUE
Available(d) == ~txOwn[d]

OutBegin(w) ==
  /\ CanRun(w) /\ outPc[w] = "idle" /\ Available(TxDesc)
  /\ IF w = "dhcp" THEN raw > 0 /\ raw' = raw - 1 ELSE UNCHANGED raw
  /\ outPc' = [outPc EXCEPT ![w] = "copy"]
  /\ desc' = [desc EXCEPT ![w] = TxDesc]
  /\ overlap' = (overlap \/ \E v \in Writers \ {w} : outPc[v] # "idle")
  /\ UNCHANGED <<Lock, rxVars, txOwn, txBuf, dmaTx, TxDesc>>

OutCopy(w) ==
  /\ CanRun(w) /\ outPc[w] = "copy"
  /\ txBuf' = [txBuf EXCEPT ![desc[w]] = w]
  /\ outPc' = [outPc EXCEPT ![w] = "lock"]
  /\ UNCHANGED <<Lock, rxVars, txOwn, dmaTx, TxDesc, desc, raw, overlap>>

(* HAL_ETH_TransmitFrame: HAL_BUSY or HAL_ERROR are not looked at by its   *)
(* caller, and the frame is lost.                                          *)
OutLock(w) ==
  /\ CanRun(w) /\ outPc[w] = "lock"
  /\ IF Lock \/ txOwn[TxDesc]
     THEN /\ outPc' = [outPc EXCEPT ![w] = "idle"] /\ UNCHANGED Lock
          /\ desc' = [desc EXCEPT ![w] = 0]
     ELSE /\ outPc' = [outPc EXCEPT ![w] = "give"] /\ Lock' = TRUE
          /\ desc' = [desc EXCEPT ![w] = TxDesc]
  /\ UNCHANGED <<rxVars, txOwn, txBuf, dmaTx, TxDesc, raw, overlap>>

(* TxDesc is not volatile: after it has changed the old value may be used. *)
OutGive(w) ==
  /\ CanRun(w) /\ outPc[w] = "give"
  /\ \E d \in {desc[w], TxDesc} :
       txOwn' = [txOwn EXCEPT ![d] = TRUE] /\ desc' = [desc EXCEPT ![w] = d]
  /\ outPc' = [outPc EXCEPT ![w] = "next"]
  /\ UNCHANGED <<Lock, rxVars, txBuf, dmaTx, TxDesc, raw, overlap>>

NextTx(d) == After(d, ETH_TXBUFNB)

OutNext(w) ==
  /\ CanRun(w) /\ outPc[w] = "next"
  /\ \E d \in {desc[w], TxDesc} : TxDesc' = NextTx(d)
  /\ Lock' = FALSE /\ outPc' = [outPc EXCEPT ![w] = "idle"]
  /\ desc' = [desc EXCEPT ![w] = 0]
  /\ UNCHANGED <<rxVars, txOwn, txBuf, dmaTx, raw, overlap>>

DmaSend ==
  /\ txOwn[dmaTx] /\ txOwn' = [txOwn EXCEPT ![dmaTx] = FALSE]
  /\ txBuf' = [txBuf EXCEPT ![dmaTx] = NoFrame]
  /\ dmaTx' = After(dmaTx, ETH_TXBUFNB)
  /\ UNCHANGED <<Lock, rxVars, TxDesc, outPc, desc, raw, overlap>>

-----------------------------------------------------------------------------
Hardware == (\E f \in Frames : DmaReceive(f)) \/ DmaSend
Irq == IrqRelease \/ IrqClear
Input == InWait \/ InGet \/ InCopy \/ InOwn \/ InResume \/ InInput
Output(w) == OutBegin(w) \/ OutCopy(w) \/ OutLock(w) \/ OutGive(w) \/ OutNext(w)

Next == Hardware \/ Irq \/ Input \/ Fetch \/ Free
        \/ \E w \in Writers : Output(w)

Spec == Init /\ [][Next]_vars

-----------------------------------------------------------------------------
EthTypeOK ==
  /\ {Lock, suspended, irq, dry, overlap} \subseteq BOOLEAN
  /\ rxOwn \in [RxDescs -> BOOLEAN] /\ txOwn \in [TxDescs -> BOOLEAN]
  /\ rxBuf \in [RxDescs -> Frames \cup {NoFrame}]
  /\ txBuf \in [TxDescs -> Writers \cup {NoFrame}]
  /\ {dmaRx, RxDesc, FSRxDesc} \subseteq RxDescs
  /\ {dmaTx, TxDesc} \subseteq TxDescs
  /\ isr \in {"idle", "clear"} /\ inputSemaphore \in {0, 1}
  /\ inPc \in {"wait", "get", "copy", "own", "resume", "input"}
  /\ pbuf \in Frames \cup {NoFrame}
  /\ pool \in Nat /\ held \in Nat /\ mbox \in Seq(Frames)
  /\ outPc \in [Writers -> {"idle", "copy", "lock", "give", "next"}]
  /\ desc \in [Writers -> TxDescs] /\ raw \in Nat

(* The input thread never finds the driver locked, though it may preempt a *)
(* thread that locked it: a frame it would leave behind is not fetched     *)
(* before the next one arrives.                                            *)
RxNeverBusy == inPc = "get" => ~Lock

(* The input thread waits, and nothing is about to wake it.                *)
Quiet == isr = "idle" /\ ~irq /\ inPc = "wait" /\ inputSemaphore = 0

(* Then no frame has been left behind: every one was fetched, or the pool  *)
(* ran dry.  Even then the next frame finds a descriptor and wakes the     *)
(* thread: the interface does not go deaf.                                 *)
NoFrameForgotten ==
  Quiet =>
    /\ rxOwn[dmaRx] /\ ~suspended
    /\ dry \/ \A d \in RxDescs : rxOwn[d]

(* No packet buffer is lost: each is free, in the hands of the input       *)
(* thread, in the mailbox, or with LwIP.                                   *)
PbufsAccounted ==
  pool + Len(mbox) + held + (IF pbuf = NoFrame THEN 0 ELSE 1) = PBUF_POOL_SIZE

-----------------------------------------------------------------------------
(* The frames of the receive ring in the order of their arrival, and those *)
(* of the transmit ring in the order they will be sent: the n buffers from *)
(* that of descriptor d on.                                                *)
Beyond(d, k, size) == IF d + k < size THEN d + k ELSE d + k - size
Queued(buf, d, n, size) == [i \in 1..n |-> buf[Beyond(d, i - 1, size)]]

InHand == IF inPc \in {"copy", "own"} THEN {FSRxDesc} ELSE {}
RxStored == {d \in RxDescs : ~rxOwn[d]} \ InHand
TxGiven == {d \in TxDescs : txOwn[d]}
RxRing == Queued(rxBuf, RxDesc, Cardinality(RxStored), ETH_RXBUFNB)
TxRing == Queued(txBuf, dmaTx, Cardinality(TxGiven), ETH_TXBUFNB)

(* The frames between the descriptors and LwIP, the oldest first.          *)
Held(f) == IF f = NoFrame THEN <<>> ELSE <<f>>
Copied == IF inPc = "copy" THEN rxBuf[FSRxDesc] ELSE NoFrame
RxChan == mbox \o Held(pbuf) \o Held(Copied) \o RxRing

Rx == INSTANCE FrameChannel WITH chan <- RxChan
Tx == INSTANCE FrameChannel WITH chan <- TxRing, Frames <- Writers

(* What LwIP is given are the frames that arrived, in their order, none    *)
(* twice and each as it arrived, though some are lost: the receive path is *)
(* a FrameChannel.                                                         *)
RxIsChannel == Rx!Spec

(* As long as no writer preempted another, a frame that was accepted is    *)
(* its writer's, is not touched before it has been sent, and is sent in    *)
(* its turn: the transmit path is a FrameChannel that loses nothing.       *)
TxIsChannel ==
  [][overlap' \/ (\E w \in Writers : outPc[w] = "give" /\ Tx!Put(w))
              \/ Tx!Take]_TxRing
=============================================================================
