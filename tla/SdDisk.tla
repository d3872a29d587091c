------------------------------- MODULE SdDisk -------------------------------
(***************************************************************************)
(* BSP/sd.cpp under FatFs: a call of diskRead or diskWrite starts a DMA    *)
(* transfer, waits up to SD_TIMEOUT for the message that the completion    *)
(* interrupt puts into a queue, and then polls the card until it is ready. *)
(* The driver below (stm32f7xx_hal_sd.c) refuses a transfer while it       *)
(* believes that another one is going on.  A read arms the receive stream  *)
(* and the data path before it sends its commands; when a command fails it *)
(* leaves both as they are, and a stream that is armed refuses the buffer  *)
(* of the next read, which the driver does not notice.                     *)
(*                                                                         *)
(* FatFs is used by one thread at a time.  A transfer may be slower than   *)
(* the timeout, it may fail with a CRC, timeout or FIFO error, and a       *)
(* command may fail.  A transfer that fails is not completed too.          *)
(***************************************************************************)
EXTENDS Naturals, Sequences

CONSTANTS
  QueueSize,    \* QUEUE_SIZE
  MaxLate,      \* how many transfers are slower than SD_TIMEOUT
  MaxErrors,    \* how many transfers fail
  MaxCmdErrors  \* how many commands to the card, and diskInits, fail

ASSUME SdDiskAssumption ==
  /\ QueueSize \in Nat \ {0}
  /\ {MaxLate, MaxErrors, MaxCmdErrors} \subseteq Nat

VARIABLES
  State,        \* gSdHandle.State
  hdmatx,       \* whether gSdHandle.hdmatx is not NULL
  hdmarx,       \* gSdHandle.hdmarx: "NULL", "free", or armed at the buffer
                \* of the latest call ("own") or of an earlier one ("old")
  dpsm,         \* the data path: "read", "write" or "none"
  card,         \* "TRANSFER"; "ONE": sending or receiving one block; "MANY":
                \* until it is stopped; "BUSY": with what was there
  gSdQueueId,   \* the contents of the queue
  pc, op,       \* where the call is, and whether it is a read or a write
  result,       \* of the latest call since diskInit
  fate,         \* history: of that call's transfer
  clean,        \* history: since diskInit no transfer was late, and no
                \* command of a read failed
  late, errors, cmdErrors  \* what may still go wrong

halVars == <<State, hdmatx, hdmarx, dpsm, card>>
callVars == <<pc, op, result, fate>>
budget == <<late, errors, cmdErrors>>
vars == <<halVars, gSdQueueId, callVars, clean, budget>>

Kinds == {"read", "write"}

Init ==
  /\ State = "READY" /\ hdmatx = TRUE /\ hdmarx = "free" /\ dpsm = "none"
  /\ card = "TRANSFER" /\ gSdQueueId = << >>
  /\ pc = "idle" /\ op = "read" /\ result = "none" /\ fate = "none"
  /\ clean = TRUE
  /\ late = MaxLate /\ errors = MaxErrors /\ cmdErrors = MaxCmdErrors

-----------------------------------------------------------------------------
(* The call returns.                                                       *)
Return(r) == pc' = "idle" /\ result' = r

(* The card gets CMD16 and the read or write command in its transfer       *)
(* state, for one block or for several.                                    *)
CommandsDone ==
  card = "TRANSFER" /\ card' \in {"ONE", "MANY"} /\ UNCHANGED cmdErrors

(* A command fails: the card is in another state, or got no command or     *)
(* took it and its response was lost.  A write then waits for data.        *)
CommandFails(k) ==
  \/ card # "TRANSFER" /\ UNCHANGED <<card, cmdErrors>>
  \/ /\ card = "TRANSFER" /\ cmdErrors > 0 /\ cmdErrors' = cmdErrors - 1
     /\ card' \in {"TRANSFER", "MANY"} \cup {c \in {"ONE"} : k = "read"}

Started ==
  /\ State' = "BUSY" /\ pc' = "wait" /\ fate' = "running"
  /\ UNCHANGED <<result, clean>>

(* HAL_BUSY, or a buffer or a sector that will not do.                     *)
Refused ==
  /\ Return("ERROR") /\ fate' = "none"
  /\ UNCHANGED <<halVars, clean, cmdErrors>>

(* HAL_SD_ReadBlocks_DMA.  A stream that is armed stays at its buffer.     *)
StartRead ==
  /\ State = "READY" /\ hdmarx # "NULL"
  /\ hdmarx' = IF hdmarx = "free" THEN "own" ELSE "old"
  /\ dpsm' = "read"
  /\ \/ CommandsDone /\ Started
     \/ /\ CommandFails("read")
        /\ Return("ERROR") /\ fate' = "none" /\ clean' = FALSE
        /\ UNCHANGED State
  /\ UNCHANGED hdmatx

(* HAL_SD_WriteBlocks_DMA: DCTRL is cleared, and nothing is armed before   *)
(* the commands.                                                           *)
StartWrite ==
  /\ State = "READY" /\ hdmatx
  /\ \/ /\ hdmarx \in {"NULL", "free"}
        /\ CommandsDone /\ Started /\ dpsm' = "write"
     \/ /\ CommandFails("write")
        /\ Return("ERROR") /\ fate' = "none" /\ dpsm' = "none"
        /\ UNCHANGED <<State, clean>>
  /\ UNCHANGED <<hdmatx, hdmarx>>

(* A NULL handle is dereferenced, or a write starts and both streams serve *)
(* the one request of the SDMMC: what follows is not modelled.             *)
Astray(k) ==
  /\ State = "READY"
  /\ IF k = "read" THEN hdmarx = "NULL"
     ELSE ~hdmatx \/ (hdmarx \in {"own", "old"} /\ card = "TRANSFER")
  /\ pc' = "astray" /\ fate' = "none"
  /\ UNCHANGED <<halVars, result, clean, cmdErrors>>

(* diskRead, diskWrite: up to the wait for the message.                    *)
Start(k) ==
  /\ pc = "idle" /\ op' = k
  /\ \/ Refused \/ Astray(k)
     \/ k = "read" /\ StartRead
     \/ k = "write" /\ StartWrite
  /\ UNCHANGED <<gSdQueueId, late, errors>>

(* What the call does with a message of the queue.  Mutants: diskWrite     *)
(* looks for the message of diskRead; the message stays in the queue.      *)
Accepts_ReadOnly(m) == m = "read"
Accepts(m) == m = op

TakeMessage_Peeks == UNCHANGED gSdQueueId
TakeMessage == gSdQueueId' = Tail(gSdQueueId)

GetMessage ==
  /\ pc = "wait" /\ gSdQueueId # << >>
  /\ TakeMessage
  /\ \/ Accepts(Head(gSdQueueId)) /\ pc' = "poll" /\ UNCHANGED result
     \/ ~Accepts(Head(gSdQueueId)) /\ Return("ERROR")
  /\ UNCHANGED <<halVars, op, fate, clean, budget>>

(* osEventTimeout: the transfer failed, or is late.                        *)
(* Mutants: the status of the event is not looked at; the call does not    *)
(* wait; it waits again.                                                   *)
GetTimeout_Ignored ==
  /\ pc = "wait" /\ gSdQueueId = << >> /\ dpsm = "none"
  /\ pc' = "poll"
  /\ UNCHANGED <<halVars, gSdQueueId, op, result, fate, clean, budget>>
GetTimeout_NoWait ==
  /\ pc = "wait" /\ gSdQueueId = << >>
  /\ Return("ERROR")
  /\ UNCHANGED <<halVars, gSdQueueId, op, fate, clean, budget>>
GetTimeout_WaitsAgain ==
  pc = "wait" /\ gSdQueueId = << >> /\ UNCHANGED vars
GetTimeout ==
  /\ pc = "wait" /\ gSdQueueId = << >>
  /\ \/ dpsm = "none" /\ UNCHANGED <<late, clean>>
     \/ dpsm # "none" /\ late > 0 /\ late' = late - 1 /\ clean' = FALSE
  /\ Return("ERROR")
  /\ UNCHANGED <<halVars, gSdQueueId, op, fate, errors, cmdErrors>>

(* The poll of the card, which has no timeout: timer < osKernelSysTick() + *)
(* SD_TIMEOUT is always true.                                              *)
Poll ==
  /\ pc = "poll" /\ card = "TRANSFER"
  /\ Return("OK")
  /\ UNCHANGED <<halVars, gSdQueueId, op, fate, clean, budget>>

-----------------------------------------------------------------------------
(* The data is there, and CMD12 after several blocks, whose error is       *)
(* ignored.                                                                *)
StopTransfer ==
  \/ /\ card' = IF card = "TRANSFER" THEN card ELSE "BUSY"
     /\ UNCHANGED cmdErrors
  \/ /\ card = "MANY" /\ cmdErrors > 0 /\ cmdErrors' = cmdErrors - 1
     /\ UNCHANGED card

(* HAL_SD_RxCpltCallback, HAL_SD_TxCpltCallback.                           *)
Post(m) ==
  gSdQueueId' = IF Len(gSdQueueId) < QueueSize
                THEN Append(gSdQueueId, m) ELSE gSdQueueId

(* SD_DMAReceiveCplt.  The SDMMC ends the transfer of the receive stream   *)
(* (DMA_PFCTRL), whatever the stream was armed for.                        *)
CompleteRead ==
  /\ dpsm = "read" /\ hdmarx \in {"own", "old"} /\ hdmarx' = "free"
  /\ fate' = IF fate # "running" THEN fate
             ELSE IF hdmarx = "own" THEN "complete" ELSE "misplaced"

(* HAL_SD_IRQHandler, DATAEND of a write.                                  *)
CompleteWrite ==
  /\ dpsm = "write"
  /\ fate' = IF fate = "running" THEN "complete" ELSE fate
  /\ UNCHANGED hdmarx

Complete ==
  /\ card \in {"ONE", "MANY"} /\ (CompleteRead \/ CompleteWrite)
  /\ StopTransfer
  /\ State' = "READY" /\ dpsm' = "none" /\ Post(dpsm)
  /\ UNCHANGED <<hdmatx, pc, op, result, clean, late, errors>>

(* HAL_SD_IRQHandler, on an error: it aborts one of the two DMA streams,   *)
(* and calls nobody.  It aborts the transmit stream first, which leaves    *)
(* the driver busy and the card unstopped (SD_DMATxAbort) unless the other *)
(* was aborted before.  A data path that waits for a card that sends       *)
(* nothing fails by itself.                                                *)
Fail ==
  /\ dpsm # "none" /\ dpsm' = "none"
  /\ \/ errors > 0 /\ errors' = errors - 1
     \/ card \in {"TRANSFER", "BUSY"} /\ UNCHANGED errors
  /\ hdmatx' = FALSE
  /\ hdmarx' = IF hdmatx THEN hdmarx ELSE "NULL"
  /\ IF hdmatx /\ hdmarx # "NULL" THEN UNCHANGED <<State, card, cmdErrors>>
                                  ELSE State' = "READY" /\ StopTransfer
  /\ fate' = IF fate = "running" THEN "failed" ELSE fate
  /\ UNCHANGED <<gSdQueueId, pc, op, result, clean, late>>

(* The card has sent its block, or has programmed the data, also when the  *)
(* driver was told that it never got the command.                          *)
CardReady ==
  /\ \/ card = "BUSY"
     \/ card = "ONE" /\ (dpsm = "none" \/ State = "READY")
  /\ card' = "TRANSFER"
  /\ UNCHANGED <<State, hdmatx, hdmarx, dpsm, gSdQueueId, callVars, clean,
                 budget>>

(* init(): the streams are linked and set up, the receive stream first,    *)
(* and the driver is ready whatever the card answered.  A transfer that is *)
(* cut off may fail between the two, or after them.                        *)
Reset ==
  /\ State' = "READY" /\ dpsm' = "none"
  /\ \/ hdmatx' = TRUE /\ hdmarx' = "free"
     \/ dpsm # "none" /\ hdmatx' = FALSE /\ hdmarx' = "free"
     \/ dpsm # "none" /\ ~hdmatx /\ hdmatx' = TRUE /\ hdmarx' = "NULL"

(* diskInit: before a format, or because the card is not ready.  The queue *)
(* is a new one.                                                           *)
DiskInit ==
  /\ pc = "idle" /\ Reset
  /\ card' = "TRANSFER" /\ gSdQueueId' = << >>
  /\ result' = "none" /\ fate' = "none" /\ clean' = TRUE
  /\ UNCHANGED <<pc, op, budget>>

(* diskInit when the card or its bus does not get ready: the old queue.    *)
DiskInitFails ==
  /\ pc = "idle" /\ Reset
  /\ cmdErrors > 0 /\ cmdErrors' = cmdErrors - 1
  /\ card' \in {"TRANSFER", "MANY"}
  /\ UNCHANGED <<gSdQueueId, callVars, clean, late, errors>>

Call == GetMessage \/ GetTimeout \/ Poll
Transfer == Complete \/ Fail
Next == \/ \E k \in Kinds : Start(k)
        \/ Call \/ Transfer \/ CardReady \/ DiskInit \/ DiskInitFails

Spec == Init /\ [][Next]_vars

(* The calling thread runs and its timeout expires; a transfer completes   *)
(* or fails (the SDMMC has a data timeout); a card gets ready when its one *)
(* block is over or it got the stop command.  Nothing is assumed of a card *)
(* that nobody stopped.                                                    *)
FairSpec == Spec /\ WF_vars(Call) /\ WF_vars(Transfer) /\ WF_vars(CardReady)

-----------------------------------------------------------------------------
SdTypeOK ==
  /\ State \in {"READY", "BUSY"}
  /\ card \in {"TRANSFER", "ONE", "MANY", "BUSY"}
  /\ hdmatx \in BOOLEAN /\ hdmarx \in {"NULL", "free", "own", "old"}
  /\ dpsm \in Kinds \cup {"none"}
  /\ gSdQueueId \in Seq(Kinds) /\ Len(gSdQueueId) <= QueueSize
  /\ pc \in {"idle", "wait", "poll", "astray"} /\ op \in Kinds
  /\ result \in {"none", "OK", "ERROR"}
  /\ fate \in {"none", "running", "complete", "misplaced", "failed"}
  /\ clean \in BOOLEAN
  /\ {late, errors, cmdErrors} \subseteq Nat

(* While no transfer was later than the timeout and no command of a read   *)
(* failed, since diskInit and after any number of failed transfers and     *)
(* failed commands of writes:                                              *)

(* the DMA does not touch the buffer of a call that has returned, nor read *)
(* from it, and no stream that a new read could start is left armed;       *)
BufferIsFree ==
  clean /\ pc = "idle" =>
    dpsm = "none" /\ (State = "READY" => hdmarx \in {"NULL", "free"})

(* a call that waits never finds the message of an earlier one: the queue  *)
(* is empty whenever a transfer starts;                                    *)
MessageIsOwn ==
  clean => /\ pc = "wait" /\ gSdQueueId # << >> => fate = "complete"
           /\ pc # "wait" => gSdQueueId = << >>

(* a call whose transfer is complete does not fail;                        *)
CompleteIsOk == clean /\ pc = "idle" /\ fate = "complete" => result = "OK"

(* "RES_OK: Successful": a call that returns RES_OK has transferred its    *)
(* data, to or from its own buffer.                                        *)
OkIsSuccessful == pc = "idle" /\ result = "OK" => fate = "complete"
CleanOk == clean => OkIsSuccessful

(* A call ends, though its transfer or its commands may fail or be late,   *)
(* unless it polls a card that nobody stopped after its transfer failed or *)
(* the stop command did.                                                   *)
Unstopped == card = "MANY" /\ dpsm = "none"
CallsEnd ==
  pc \in {"wait", "poll"} ~> pc = "idle" \/ (pc = "poll" /\ Unstopped)
=============================================================================
