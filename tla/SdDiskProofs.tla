---------------------------- MODULE SdDiskProofs ----------------------------
(***************************************************************************)
(* Since diskInit, and while no transfer was later than the timeout and no *)
(* command of a read failed, the calls of the disk driver and their        *)
(* transfers stay together, for any queue size, any number of failed       *)
(* transfers and any number of failed commands of writes.                  *)
(***************************************************************************)
EXTENDS SdDisk, SequenceTheorems, TLAPS

(* The receive stream serves nobody.                                       *)
NotArmed == hdmarx \in {"NULL", "free"}

(* What a call knows of its transfer at each place it may be at.           *)
IdleState ==
  /\ dpsm = "none" /\ gSdQueueId = << >> /\ fate # "running"
  /\ result = "OK" <=> fate = "complete"
  /\ State = "READY" => NotArmed

Waiting ==
  /\ fate = "running" /\ dpsm = op /\ gSdQueueId = << >>
  /\ op = "read" => hdmarx = "own"
  /\ op = "write" => NotArmed
  /\ State = "BUSY"
Answered ==
  /\ fate = "complete" /\ dpsm = "none" /\ gSdQueueId = Append(<< >>, op)
  /\ NotArmed
Failed ==
  /\ fate = "failed" /\ dpsm = "none" /\ gSdQueueId = << >>
  /\ State = "READY" => NotArmed
WaitState == Waiting \/ Answered \/ Failed

PollState ==
  fate = "complete" /\ dpsm = "none" /\ gSdQueueId = << >> /\ NotArmed

AstrayState == dpsm = "none" /\ gSdQueueId = << >>

CallState ==
  clean =>
    /\ pc = "idle" => IdleState
    /\ pc = "wait" => WaitState
    /\ pc = "poll" => PollState
    /\ pc = "astray" => AstrayState

SdInv == SdTypeOK /\ CallState

-----------------------------------------------------------------------------
(* A queue of one message.                                                 *)
LEMMA OneMessage ==
  ASSUME NEW k \in Kinds
  PROVE  /\ Append(<< >>, k) \in Seq(Kinds) /\ Len(Append(<< >>, k)) = 1
         /\ Append(<< >>, k) # << >>
         /\ Head(Append(<< >>, k)) = k
         /\ Tail(Append(<< >>, k)) = << >>
<1>1. << >> \in Seq(Kinds) /\ Len(<< >>) = 0
  OBVIOUS
<1> QED
  BY <1>1, AppendProperties, SMT

(* Only diskInit makes the driver clean again.                             *)
LEMMA CleanBefore ==
  ASSUME Next, clean'
  PROVE  clean \/ DiskInit
<1>1. ASSUME NEW k \in Kinds, Start(k) PROVE clean
  BY <1>1 DEF Start, Refused, Astray, StartRead, StartWrite, Started
<1>2. CASE Call
  BY <1>2 DEF Call, GetMessage, GetTimeout, Poll
<1>3. CASE Transfer \/ CardReady \/ DiskInitFails
  BY <1>3 DEF Transfer, Complete, Fail, CardReady, DiskInitFails
<1> QED
  BY <1>1, <1>2, <1>3 DEF Next

-----------------------------------------------------------------------------
(* The type invariant is inductive by itself.                              *)
LEMMA SdTypeInit ==
  ASSUME Init
  PROVE  SdTypeOK
<1>1. << >> \in Seq(Kinds) /\ Len(<< >>) = 0
  OBVIOUS
<1> QED
  BY <1>1, SdDiskAssumption DEF Init, SdTypeOK, Kinds

(* What the budgets leave.                                                 *)
LEMMA BudgetStep ==
  ASSUME SdTypeOK, Next
  PROVE  {late, errors, cmdErrors}' \subseteq Nat
<1> USE DEF SdTypeOK
<1>n. \A n \in Nat : n > 0 => n - 1 \in Nat
  OBVIOUS
<1>1. ASSUME NEW k \in Kinds, Start(k)
      PROVE  {late, errors, cmdErrors}' \subseteq Nat
  <2>1. cmdErrors' = cmdErrors \/ (cmdErrors > 0 /\ cmdErrors' = cmdErrors - 1)
    BY <1>1 DEF Start, Refused, Astray, StartRead, StartWrite, CommandsDone,
       CommandFails
  <2> QED
    BY <1>1, <1>n, <2>1 DEF Start
<1>2. CASE Call
  <2>1. late' = late \/ (late > 0 /\ late' = late - 1)
    BY <1>2 DEF Call, GetMessage, GetTimeout, Poll, budget
  <2>2. errors' = errors /\ cmdErrors' = cmdErrors
    BY <1>2 DEF Call, GetMessage, GetTimeout, Poll, budget
  <2> QED
    BY <1>n, <2>1, <2>2
<1>3. CASE Transfer
  <2>1. late' = late
    BY <1>3 DEF Transfer, Complete, Fail
  <2>2. errors' = errors \/ (errors > 0 /\ errors' = errors - 1)
    BY <1>3 DEF Transfer, Complete, Fail
  <2>3. cmdErrors' = cmdErrors \/ (cmdErrors > 0 /\ cmdErrors' = cmdErrors - 1)
    BY <1>3 DEF Transfer, Complete, Fail, StopTransfer
  <2> QED
    BY <1>n, <2>1, <2>2, <2>3
<1>4. CASE CardReady \/ DiskInit \/ DiskInitFails
  BY <1>4, <1>n DEF CardReady, DiskInit, DiskInitFails, budget
<1> QED
  BY <1>1, <1>2, <1>3, <1>4 DEF Next

(* The state of the handle, the streams and the card.                      *)
HandleOK ==
  /\ State \in {"READY", "BUSY"} /\ hdmatx \in BOOLEAN
  /\ hdmarx \in {"NULL", "free", "own", "old"}
  /\ dpsm \in Kinds \cup {"none"}
  /\ card \in {"TRANSFER", "ONE", "MANY", "BUSY"}

LEMMA HandleStep ==
  ASSUME SdTypeOK, Next
  PROVE  HandleOK'
<1> USE DEF SdTypeOK, HandleOK
<1>1. ASSUME NEW k \in Kinds, Start(k) PROVE HandleOK'
  <2>1. CASE Refused \/ Astray(k)
    BY <2>1 DEF Refused, Astray, halVars
  <2>2. CASE StartRead
    BY <2>2 DEF StartRead, CommandsDone, CommandFails, Started, Kinds
  <2>3. CASE StartWrite
    BY <2>3 DEF StartWrite, CommandsDone, CommandFails, Started, Kinds
  <2> QED
    BY <1>1, <2>1, <2>2, <2>3 DEF Start
<1>2. CASE Call
  BY <1>2 DEF Call, GetMessage, GetTimeout, Poll, halVars
<1>3. CASE Complete
  BY <1>3 DEF Complete, CompleteRead, CompleteWrite, StopTransfer
<1>4. CASE Fail
  BY <1>4 DEF Fail, StopTransfer
<1>5. CASE CardReady
  BY <1>5 DEF CardReady
<1>6. CASE DiskInit \/ DiskInitFails
  BY <1>6 DEF DiskInit, DiskInitFails, Reset
<1> QED
  BY <1>1, <1>2, <1>3, <1>4, <1>5, <1>6 DEF Next, Transfer

(* The call, its history, and the queue, which never exceeds its size.     *)
CallOK ==
  /\ gSdQueueId \in Seq(Kinds) /\ Len(gSdQueueId) <= QueueSize
  /\ pc \in {"idle", "wait", "poll", "astray"} /\ op \in Kinds
  /\ result \in {"none", "OK", "ERROR"}
  /\ fate \in {"none", "running", "complete", "misplaced", "failed"}
  /\ clean \in BOOLEAN

LEMMA CallStep ==
  ASSUME SdTypeOK, Next
  PROVE  CallOK'
<1> USE DEF SdTypeOK, CallOK
<1>1. ASSUME NEW k \in Kinds, Start(k) PROVE CallOK'
  BY <1>1 DEF Start, Refused, Astray, StartRead, StartWrite, Started, Return,
     Kinds
<1>2. CASE GetMessage
  <2>1. Tail(gSdQueueId) \in Seq(Kinds) /\ Len(Tail(gSdQueueId)) <= QueueSize
    BY <1>2, HeadTailProperties, SdDiskAssumption DEF GetMessage
  <2> QED
    BY <1>2, <2>1 DEF GetMessage, TakeMessage, Return
<1>3. CASE GetTimeout \/ Poll
  BY <1>3 DEF GetTimeout, Poll, Return
<1>4. CASE Complete
  <2>1. dpsm \in Kinds
    BY <1>4 DEF Complete, CompleteRead, CompleteWrite, Kinds
  <2>2. gSdQueueId' \in Seq(Kinds) /\ Len(gSdQueueId') <= QueueSize
    BY <1>4, <2>1, AppendProperties, SdDiskAssumption DEF Complete, Post
  <2>3. fate' \in {"none", "running", "complete", "misplaced", "failed"}
    BY <1>4 DEF Complete, CompleteRead, CompleteWrite
  <2> QED
    BY <1>4, <2>2, <2>3 DEF Complete
<1>5. CASE Fail
  BY <1>5 DEF Fail
<1>6. CASE CardReady \/ DiskInitFails
  BY <1>6 DEF CardReady, DiskInitFails, callVars
<1>7. CASE DiskInit
  <2>1. << >> \in Seq(Kinds) /\ Len(<< >>) = 0
    OBVIOUS
  <2> QED
    BY <1>7, <2>1, SdDiskAssumption DEF DiskInit
<1> QED
  BY <1>1, <1>2, <1>3, <1>4, <1>5, <1>6, <1>7 DEF Next, Call, Transfer

LEMMA SdTypeStep ==
  ASSUME SdTypeOK, [Next]_vars
  PROVE  SdTypeOK'
<1>1. CASE Next
  BY <1>1, BudgetStep, HandleStep, CallStep DEF SdTypeOK, HandleOK, CallOK
<1>2. CASE UNCHANGED vars
  BY <1>2 DEF vars, halVars, callVars, budget, SdTypeOK
<1> QED
  BY <1>1, <1>2

-----------------------------------------------------------------------------
(* Each step of a call or of its transfer keeps the two together.          *)
LEMMA CallStateStep ==
  ASSUME SdInv, Next
  PROVE  CallState'
<1>d. CASE DiskInit
  BY <1>d DEF DiskInit, Reset, CallState, IdleState, NotArmed
<1>0. SUFFICES ASSUME clean, clean' PROVE CallState'
  BY <1>d, CleanBefore DEF CallState
<1> USE DEF CallState
<1>t. SdTypeOK /\ CallState /\ op \in Kinds
  BY DEF SdInv, SdTypeOK
<1>1. ASSUME NEW k \in Kinds, Start(k) PROVE CallState'
  <2>1. IdleState /\ gSdQueueId' = << >>
    BY <1>0, <1>1, <1>t DEF Start, IdleState
  <2>2. CASE Refused
    BY <1>1, <2>1, <2>2 DEF Refused, Return, IdleState, NotArmed, halVars
  <2>3. CASE Astray(k)
    BY <1>1, <2>1, <2>3 DEF Astray, IdleState, AstrayState, halVars
  <2>4. CASE k = "read" /\ StartRead
    <3>1. Started /\ dpsm' = "read" /\ hdmarx' = "own"
      BY <1>0, <2>1, <2>4 DEF StartRead, IdleState, NotArmed
    <3> QED
      BY <1>1, <2>1, <2>4, <3>1 DEF Start, Started, WaitState, Waiting
  <2>5. CASE k = "write" /\ StartWrite
    <3>1. NotArmed' /\ pc' \in {"idle", "wait"}
      BY <2>1, <2>5 DEF StartWrite, IdleState, NotArmed, Started, Return
    <3>2. CASE pc' = "wait"
      BY <1>1, <2>1, <2>5, <3>1, <3>2
      DEF Start, StartWrite, Started, Return, WaitState, Waiting
    <3>3. CASE pc' = "idle"
      BY <1>1, <2>1, <2>5, <3>1, <3>3
      DEF Start, StartWrite, Started, Return, IdleState
    <3> QED
      BY <3>1, <3>2, <3>3
  <2> QED
    BY <1>1, <2>2, <2>3, <2>4, <2>5 DEF Start
<1>2. CASE GetMessage
  <2>1. Answered
    BY <1>0, <1>2, <1>t DEF GetMessage, WaitState, Waiting, Failed
  <2>2. Head(gSdQueueId) = op /\ Tail(gSdQueueId) = << >>
    BY <2>1, <1>t, OneMessage DEF Answered
  <2>3. pc' = "poll" /\ gSdQueueId' = << >> /\ UNCHANGED <<dpsm, fate, hdmarx>>
    BY <1>2, <2>2 DEF GetMessage, Accepts, TakeMessage, halVars
  <2> QED
    BY <2>1, <2>3 DEF PollState, Answered, NotArmed
<1>3. CASE GetTimeout
  <2>1. dpsm = "none" /\ gSdQueueId = << >> /\ pc = "wait"
    BY <1>0, <1>3 DEF GetTimeout
  <2>2. op # "none" /\ gSdQueueId # Append(<< >>, op)
    BY <1>t, <2>1, OneMessage DEF Kinds
  <2>3. Failed
    BY <1>0, <1>t, <2>1, <2>2 DEF WaitState, Waiting, Answered
  <2> QED
    BY <1>3, <2>1, <2>3 DEF GetTimeout, Return, halVars, IdleState, Failed,
       NotArmed
<1>4. CASE Poll
  BY <1>0, <1>4, <1>t DEF Poll, Return, halVars, PollState, IdleState, NotArmed
<1>5. ASSUME Transfer PROVE pc = "wait" /\ Waiting
  <2>1. dpsm # "none"
    BY <1>5 DEF Transfer, Complete, CompleteRead, CompleteWrite, Fail
  <2> QED
    BY <1>0, <1>t, <2>1 DEF IdleState, PollState, AstrayState, WaitState,
       Answered, Failed, SdTypeOK
<1>6. CASE Complete
  <2>1. pc = "wait" /\ Waiting
    BY <1>5, <1>6 DEF Transfer
  <2>2. gSdQueueId' = Append(<< >>, op)
    BY <1>6, <2>1, SdDiskAssumption DEF Complete, Post, Waiting
  <2>3. fate' = "complete" /\ dpsm' = "none" /\ op' = op /\ pc' = "wait"
    BY <1>6, <2>1 DEF Complete, CompleteRead, CompleteWrite, Waiting
  <2>4. NotArmed'
    BY <1>6, <2>1 DEF Complete, CompleteRead, CompleteWrite, Waiting, NotArmed
  <2> QED
    BY <2>2, <2>3, <2>4 DEF WaitState, Answered
<1>7. CASE Fail
  <2>1. pc = "wait" /\ Waiting
    BY <1>5, <1>7 DEF Transfer
  <2>2. State' = "READY" => NotArmed'
    BY <1>7, <2>1 DEF Fail, Waiting, NotArmed
  <2> QED
    BY <1>7, <2>1, <2>2 DEF Fail, Waiting, WaitState, Failed
<1>8. CASE CardReady
  BY <1>0, <1>8, <1>t DEF CardReady, callVars, IdleState, PollState,
     AstrayState, WaitState, Waiting, Answered, Failed, NotArmed
<1>9. CASE DiskInitFails
  BY <1>0, <1>9, <1>t DEF DiskInitFails, Reset, callVars, IdleState, NotArmed
<1> QED
  BY <1>d, <1>1, <1>2, <1>3, <1>4, <1>6, <1>7, <1>8, <1>9
  DEF Next, Call, Transfer

-----------------------------------------------------------------------------
(* SdInv is inductive.                                                     *)
THEOREM Invariance == Spec => []SdInv
<1>1. Init => SdInv
  <2>1. ASSUME Init PROVE CallState
    BY <2>1 DEF Init, CallState, IdleState, NotArmed
  <2> QED
    BY <2>1, SdTypeInit DEF SdInv
<1>2. SdInv /\ [Next]_vars => SdInv'
  <2> SUFFICES ASSUME SdInv, [Next]_vars PROVE SdInv'
    OBVIOUS
  <2>1. CASE Next
    BY <2>1, SdTypeStep, CallStateStep DEF SdInv
  <2>2. CASE UNCHANGED vars
    <3>1. CallState'
      BY <2>2 DEF vars, halVars, callVars, SdInv, CallState, IdleState,
         WaitState, Waiting, Answered, Failed, PollState, AstrayState, NotArmed
    <3> QED
      BY <2>2, <3>1, SdTypeStep DEF SdInv
  <2> QED
    BY <2>1, <2>2
<1> QED
  BY <1>1, <1>2, PTL DEF Spec

(* The queue never overflows, also after late transfers and errors.        *)
THEOREM SdTypeCorrect == Spec => []SdTypeOK
<1>1. SdInv => SdTypeOK
  BY DEF SdInv
<1> QED
  BY <1>1, Invariance, PTL

(* After a call that left the driver clean, no DMA touches its buffer and  *)
(* no stream is armed for a next read to find.                             *)
THEOREM NoDmaAfterCall == Spec => []BufferIsFree
<1>1. SdInv => BufferIsFree
  BY DEF SdInv, CallState, IdleState, BufferIsFree, NotArmed
<1> QED
  BY <1>1, Invariance, PTL

(* In a clean driver a waiting call finds no message but that of its own   *)
(* transfer.                                                               *)
THEOREM OwnMessage == Spec => []MessageIsOwn
<1>1. SdInv => MessageIsOwn
  BY DEF SdInv, SdTypeOK, CallState, IdleState, PollState, AstrayState,
     WaitState, Waiting, Answered, Failed, MessageIsOwn
<1> QED
  BY <1>1, Invariance, PTL

(* In a clean driver a completed transfer is reported as a success ...     *)
THEOREM SuccessReported == Spec => []CompleteIsOk
<1>1. SdInv => CompleteIsOk
  BY DEF SdInv, CallState, IdleState, CompleteIsOk
<1> QED
  BY <1>1, Invariance, PTL

(* ... and nothing else is: neither a failed transfer nor one that went to *)
(* the buffer of another call.                                             *)
THEOREM SuccessIsReal == Spec => []CleanOk
<1>1. SdInv => CleanOk
  BY DEF SdInv, CallState, IdleState, CleanOk, OkIsSuccessful
<1> QED
  BY <1>1, Invariance, PTL
=============================================================================
