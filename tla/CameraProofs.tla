---------------------------- MODULE CameraProofs ----------------------------
(***************************************************************************)
(* The safety invariants of Camera hold for every buffer, chunk and frame  *)
(* size that CameraAssumption allows.                                      *)
(***************************************************************************)
EXTENDS Camera, TLAPS

(* The chunk count and the address of the current chunk agree.             *)
ChunksCounted == mBufCur = mXferCount * XferSize

(* While the stream runs, the target it fills and the one dmaIrqHandler    *)
(* prepared for it are consecutive chunks; the latter is out of date while *)
(* transfer complete is pending.                                           *)
TargetsConsecutive ==
  dmaEn =>
    IF tcif
      THEN /\ ct = (mXferCount + 1) % 2
           /\ (IF ct = 0 THEN m0ar ELSE m1ar) = mBufCur + XferSize
      ELSE /\ ct = mXferCount % 2
           /\ (IF ct = 0 THEN m0ar ELSE m1ar) = mBufCur
           /\ (IF ct = 0 THEN m1ar ELSE m0ar) = mBufCur + XferSize

(* The data since mLastFrameStart is what was stored of the frame; once an *)
(* overflow stopped the stream it is only known not to be negative.        *)
SpanIsSent ==
  /\ dmaEn => NextFrameStart + PendingChunk = mLastFrameStart + sent
  /\ NextFrameStart + PendingChunk >= mLastFrameStart

RoomForFrame == mLastFrameStart + Rgb565FrameLen <= BufSize

FrameFits ==
  /\ mFrameLen <= Rgb565FrameLen
  /\ mFrame # NoFrame => mFrame + Rgb565FrameLen <= BufSize

(* NoJpegInPreview already holds once preview() has cleared mFrame.        *)
NoJpegAfterClear ==
  touchPc # "clearFrame" /\ ~mJpegMode /\ mFrame # NoFrame => ~mJpegFrame

IInv ==
  /\ TypeOK
  /\ ChunksCounted
  /\ TargetsConsecutive
  /\ SpanIsSent
  /\ RoomForFrame
  /\ FrameFits
  /\ LatestFrameIntact
  /\ NoJpegAfterClear

-----------------------------------------------------------------------------
LEMMA Parity ==
  ASSUME NEW n \in Nat
  PROVE  /\ n % 2 \in {0, 1}
         /\ (n + 1) % 2 = 1 - (n % 2)
         /\ (n + 2) % 2 = n % 2
  OBVIOUS

LEMMA NextChunk ==
  ASSUME NEW n \in Nat, NEW c \in Nat
  PROVE  /\ (n + 1) * c = n * c + c
         /\ (n + 2) * c = n * c + c + c
  OBVIOUS

(* start() establishes the invariant.                                      *)
LEMMA InitInductive == Init => IInv
<1> SUFFICES ASSUME Init PROVE IInv
  OBVIOUS
<1> USE CameraAssumption DEF Init
<1>1. TypeOK
  <2>1. ndtr \in 1..XferSize /\ ct \in {0, 1} /\ m0ar \in Nat /\ m1ar \in Nat
    OBVIOUS
  <2>2. sent \in 0..Rgb565FrameLen /\ BufTypeOK
    BY DEF BufTypeOK
  <2>3. /\ mFrame \in Nat \cup {NoFrame} /\ mFrameLen \in Nat
        /\ mFrameId \in 0..(IdMod - 1)
    BY DEF NoFrame
  <2>4. QED
    BY <2>1, <2>2, <2>3
       DEF TypeOK, DmaTypeOK, SensorTypeOK, FrameTypeOK, ModeTypeOK
<1>2. ChunksCounted /\ TargetsConsecutive
  BY DEF ChunksCounted, TargetsConsecutive
<1>3. SpanIsSent /\ RoomForFrame
  BY DEF SpanIsSent, RoomForFrame, NextFrameStart, PendingChunk
<1>4. FrameFits /\ LatestFrameIntact /\ NoJpegAfterClear
  BY DEF FrameFits, LatestFrameIntact, NoJpegAfterClear, NoFrame
<1>5. QED
  BY <1>1, <1>2, <1>3, <1>4 DEF IInv

-----------------------------------------------------------------------------
(* A unit stored keeps everything: at the end of a chunk the stream goes   *)
(* on in the chunk that dmaIrqHandler prepared.                            *)
LEMMA StoreUnitInductive == IInv /\ StoreUnit => IInv'
<1> SUFFICES ASSUME IInv, StoreUnit PROVE IInv'
  OBVIOUS
<1> USE CameraAssumption
<1>1. TypeOK'
  <2>1. (ndtr \in 1..XferSize /\ ct \in {0, 1} /\ m0ar \in Nat /\ m1ar \in Nat)'
    BY DEF IInv, TypeOK, DmaTypeOK, StoreUnit, ReloadedNdtr
  <2>2. (dmaEn \in BOOLEAN /\ tcif \in BOOLEAN)'
    BY DEF IInv, TypeOK, DmaTypeOK, StoreUnit
  <2>3. SensorTypeOK'
    BY DEF IInv, TypeOK, SensorTypeOK, StoreUnit
  <2>4. (BufTypeOK /\ FrameTypeOK /\ ModeTypeOK)'
    BY DEF IInv, TypeOK, BufTypeOK, FrameTypeOK, ModeTypeOK, StoreUnit,
           bufVars, frameVars, modeVars
  <2>5. QED
    BY <2>1, <2>2, <2>3, <2>4 DEF TypeOK, DmaTypeOK
<1>2. ChunksCounted'
  BY DEF IInv, ChunksCounted, StoreUnit, bufVars
<1>3. TargetsConsecutive'
  BY Parity DEF IInv, TypeOK, DmaTypeOK, BufTypeOK, TargetsConsecutive,
                StoreUnit, bufVars
<1>4. SpanIsSent'
  BY DEF IInv, TypeOK, DmaTypeOK, SensorTypeOK, BufTypeOK, SpanIsSent,
         StoreUnit, ReloadedNdtr, bufVars, NextFrameStart, PendingChunk
<1>5. (RoomForFrame /\ FrameFits /\ LatestFrameIntact /\ NoJpegAfterClear)'
  BY DEF IInv, RoomForFrame, FrameFits, LatestFrameIntact, NoJpegAfterClear,
         DataEnd, StoreUnit, bufVars, frameVars, modeVars
<1>6. QED
  BY <1>1, <1>2, <1>3, <1>4, <1>5 DEF IInv

(* The interrupts that the hardware raises change no part of it.           *)
LEMMA PendingInductive == IInv /\ (EndOfFrame \/ Overflow) => IInv'
<1> SUFFICES ASSUME IInv, EndOfFrame \/ Overflow PROVE IInv'
  OBVIOUS
<1>1. /\ UNCHANGED <<dmaVars, sent, bufVars, frameVars, modeVars>>
      /\ vsync' \in BOOLEAN /\ ovr' \in BOOLEAN
  BY DEF IInv, TypeOK, SensorTypeOK, EndOfFrame, Overflow
<1>2. TypeOK'
  BY <1>1 DEF IInv, TypeOK, DmaTypeOK, SensorTypeOK, BufTypeOK, FrameTypeOK,
              ModeTypeOK, dmaVars, bufVars, frameVars, modeVars
<1>3. (ChunksCounted /\ TargetsConsecutive /\ SpanIsSent)'
  BY <1>1 DEF IInv, ChunksCounted, TargetsConsecutive, SpanIsSent,
              NextFrameStart, PendingChunk, dmaVars, bufVars
<1>4. (RoomForFrame /\ FrameFits /\ LatestFrameIntact /\ NoJpegAfterClear)'
  BY <1>1 DEF IInv, RoomForFrame, FrameFits, LatestFrameIntact,
              NoJpegAfterClear, DataEnd, bufVars, frameVars, modeVars
<1>5. QED
  BY <1>2, <1>3, <1>4 DEF IInv

(* The idle target is given the address behind the chunk being filled.     *)
LEMMA DmaIrqInductive == IInv /\ DmaIrqHandler => IInv'
<1> SUFFICES ASSUME IInv, DmaIrqHandler PROVE IInv'
  OBVIOUS
<1> USE CameraAssumption
<1>1. /\ mXferCount \in Nat /\ mBufCur = mXferCount * XferSize
      /\ mXferCount' = mXferCount + 1
      /\ mBufCur' = mBufCur + XferSize
      /\ (mXferCount' + 1) * XferSize = mBufCur + XferSize + XferSize
  <2>1. mXferCount \in Nat /\ mBufCur = mXferCount * XferSize
    BY DEF IInv, TypeOK, BufTypeOK, ChunksCounted
  <2>2. mXferCount' = mXferCount + 1 /\ mBufCur' = mBufCur + XferSize
    BY DEF DmaIrqHandler
  <2>3. mXferCount' + 1 = mXferCount + 2
    BY <2>1, <2>2
  <2>4. QED
    BY <2>1, <2>2, <2>3, NextChunk
<1> DEFINE nextChunk == (mXferCount' + 1) * XferSize
<1> HIDE DEF nextChunk
<1>2. nextChunk = mBufCur + XferSize + XferSize
  BY <1>1 DEF nextChunk
<1>3. IF IdleTarget(mXferCount') = 0
        THEN m0ar' = nextChunk /\ m1ar' = m1ar
        ELSE m1ar' = nextChunk /\ m0ar' = m0ar
  BY DEF DmaIrqHandler, nextChunk
<1>4. TypeOK'
  <2>1. (ndtr \in 1..XferSize /\ ct \in {0, 1} /\ m0ar \in Nat /\ m1ar \in Nat)'
    BY <1>1, <1>2, <1>3
       DEF IInv, TypeOK, DmaTypeOK, BufTypeOK, DmaIrqHandler
  <2>2. (dmaEn \in BOOLEAN /\ tcif \in BOOLEAN)'
    BY DEF IInv, TypeOK, DmaTypeOK, DmaIrqHandler
  <2>3. BufTypeOK'
    BY <1>1 DEF IInv, TypeOK, BufTypeOK, DmaIrqHandler
  <2>4. (SensorTypeOK /\ FrameTypeOK /\ ModeTypeOK)'
    BY DEF IInv, TypeOK, SensorTypeOK, FrameTypeOK, ModeTypeOK,
           DmaIrqHandler, sensorVars, frameVars, modeVars
  <2>5. QED
    BY <2>1, <2>2, <2>3, <2>4 DEF TypeOK, DmaTypeOK
<1>5. ChunksCounted'
  BY <1>1, NextChunk DEF ChunksCounted
<1>6. TargetsConsecutive'
  <2>1. IdleTarget(mXferCount') = mXferCount % 2
    BY <1>1, Parity DEF IdleTarget
  <2>2. dmaEn => ct = (mXferCount + 1) % 2
                 /\ (IF ct = 0 THEN m0ar ELSE m1ar) = mBufCur'
    BY <1>1 DEF IInv, TargetsConsecutive, DmaIrqHandler
  <2>3. tcif' = FALSE /\ ct' = ct /\ dmaEn' = dmaEn
    BY DEF DmaIrqHandler
  <2>4. (mXferCount % 2 = 0 /\ (mXferCount + 1) % 2 = 1)
        \/ (mXferCount % 2 = 1 /\ (mXferCount + 1) % 2 = 0)
    BY <1>1, Parity
  <2>5. nextChunk = mBufCur' + XferSize
    BY <1>1, <1>2
  <2>6. QED
    BY <1>1, <1>3, <2>1, <2>2, <2>3, <2>4, <2>5 DEF TargetsConsecutive
<1>7. SpanIsSent'
  BY <1>1 DEF IInv, TypeOK, DmaTypeOK, SensorTypeOK, BufTypeOK, SpanIsSent,
              DmaIrqHandler, sensorVars, NextFrameStart, PendingChunk
<1>8. (RoomForFrame /\ FrameFits /\ LatestFrameIntact /\ NoJpegAfterClear)'
  BY DEF IInv, RoomForFrame, FrameFits, LatestFrameIntact, NoJpegAfterClear,
         DataEnd, DmaIrqHandler, sensorVars, frameVars, modeVars
<1>9. QED
  BY <1>4, <1>5, <1>6, <1>7, <1>8 DEF IInv

-----------------------------------------------------------------------------
(* What dcmiIrqHandler does with the frame that ended: it is dropped, or   *)
(* published with data that ends where it ended.                           *)
FrameOutcome ==
  \/ mFrame' = NoFrame /\ mFrameLen' = 0
  \/ /\ mFrame' = mLastFrameStart
     /\ FrameLen <= Rgb565FrameLen
     /\ mFrameLen' \in 0..Rgb565FrameLen
     /\ DataEnd' <= NextFrameStart
     /\ mJpegFrame' => mJpegMode

LEMMA ClassifyOutcome ==
  ASSUME IInv, ~tcif, ClassifyFrame
  PROVE  FrameOutcome /\ FrameTypeOK'
<1> USE CameraAssumption
<1>1. /\ NextFrameStart \in Nat /\ mLastFrameStart \in Nat
      /\ FrameLen \in Nat /\ NextFrameStart = mLastFrameStart + FrameLen
  BY DEF IInv, TypeOK, DmaTypeOK, BufTypeOK, SpanIsSent, PendingChunk,
         NextFrameStart, FrameLen
<1>2. (mFrameId + 1) % IdMod \in 0..(IdMod - 1)
  BY DEF IInv, TypeOK, FrameTypeOK
<1> HIDE DEF NextFrameStart, FrameLen
<1>3. CASE FrameLen = Rgb565FrameLen /\ PublishFrame(FrameLen, FALSE)
  <2>1. /\ mFrame' = mLastFrameStart /\ mFrameLen' = FrameLen
        /\ mJpegFrame' = FALSE /\ mFrameSem' = TRUE
        /\ mFrameId' \in 0..(IdMod - 1)
    BY <1>2, <1>3 DEF PublishFrame
  <2>2. DataEnd' = mLastFrameStart + FrameLen
    BY <1>1, <2>1 DEF DataEnd
  <2>3. FrameOutcome
    BY <1>1, <1>3, <2>1, <2>2 DEF FrameOutcome
  <2>4. mFrame' \in Nat /\ mFrameLen' \in Nat
    BY <1>1, <2>1
  <2>5. QED
    BY <2>1, <2>3, <2>4 DEF FrameTypeOK
<1>4. CASE /\ mJpegMode /\ FrameLen \in JpegFrameLen
           /\ \E jpegLen \in 0..FrameLen : PublishFrame(jpegLen + EoiLen, TRUE)
  <2>1. PICK jpegLen \in 0..FrameLen : PublishFrame(jpegLen + EoiLen, TRUE)
    BY <1>4
  <2>2. /\ mFrame' = mLastFrameStart /\ mFrameLen' = jpegLen + EoiLen
        /\ mJpegFrame' = TRUE /\ mFrameSem' = TRUE
        /\ mFrameId' \in 0..(IdMod - 1)
    BY <1>2, <2>1 DEF PublishFrame
  <2>3. DataEnd' = mLastFrameStart + jpegLen
    BY <1>1, <2>1, <2>2 DEF DataEnd
  <2>4. FrameLen < Rgb565FrameLen
    BY <1>1, <1>4 DEF JpegFrameLen
  <2>5. mFrameLen' \in 0..Rgb565FrameLen /\ DataEnd' <= NextFrameStart
    BY <1>1, <2>1, <2>2, <2>3, <2>4
  <2>6. FrameOutcome
    BY <1>1, <1>4, <2>2, <2>4, <2>5 DEF FrameOutcome
  <2>7. mFrame' \in Nat /\ mFrameLen' \in Nat
    BY <1>1, <2>2, <2>5
  <2>8. QED
    BY <2>2, <2>6, <2>7 DEF FrameTypeOK
<1>5. CASE DropFrame
  <2>1. FrameOutcome
    BY <1>5 DEF DropFrame, FrameOutcome
  <2>2. mFrame' = NoFrame /\ mFrameLen' = 0
        /\ UNCHANGED <<mJpegFrame, mFrameId, mFrameSem>>
    BY <1>5 DEF DropFrame
  <2>3. QED
    BY <2>1, <2>2 DEF IInv, TypeOK, FrameTypeOK
<1>6. QED
  BY <1>3, <1>4, <1>5 DEF ClassifyFrame

(* A frame is published, and the next one begins behind it or at the start *)
(* of the buffer: either way the two do not overlap.                       *)
LEMMA VsyncInductive ==
  ASSUME IInv, ~tcif, ClassifyFrame,
         ContinueBehindFrame \/ RestartAtBufStart,
         sent' = 0, DisableOnOverflow(dmaEn \/ Wraps),
         vsync' = FALSE, ovr' = FALSE, UNCHANGED modeVars
  PROVE  IInv'
<1> USE CameraAssumption
<1>1. /\ NextFrameStart \in Nat /\ mLastFrameStart \in Nat
      /\ FrameLen \in Nat /\ NextFrameStart = mLastFrameStart + FrameLen
      /\ mLastFrameStart + Rgb565FrameLen <= BufSize
  BY DEF IInv, TypeOK, DmaTypeOK, BufTypeOK, SpanIsSent, PendingChunk,
         NextFrameStart, FrameLen, RoomForFrame
<1>2. FrameOutcome /\ FrameTypeOK'
  BY ClassifyOutcome
<1>3. /\ dmaEn' \in BOOLEAN /\ tcif' \in BOOLEAN
      /\ dmaEn' => (dmaEn \/ Wraps) /\ ~tcif'
  <2>1. dmaEn \in BOOLEAN /\ ovr \in BOOLEAN
    BY DEF IInv, TypeOK, DmaTypeOK, SensorTypeOK
  <2>2. dmaEn' = ((dmaEn \/ Wraps) /\ ~ovr)
        /\ tcif' \in IF (dmaEn \/ Wraps) /\ ovr THEN BOOLEAN ELSE {FALSE}
    BY DEF DisableOnOverflow
  <2>3. QED
    BY <2>1, <2>2
<1>4. CASE ContinueBehindFrame
  <2>1. /\ mLastFrameStart' = NextFrameStart
        /\ NextFrameStart + Rgb565FrameLen <= BufSize
        /\ ~Wraps
        /\ UNCHANGED <<mBufCur, mXferCount, ndtr, ct, m0ar, m1ar>>
    BY <1>1, <1>4 DEF ContinueBehindFrame, Wraps
  <2>2. NextFrameStart' = NextFrameStart
    BY <2>1 DEF NextFrameStart
  <2>3. TypeOK'
    <3>1. (/\ ndtr \in 1..XferSize /\ ct \in {0, 1}
           /\ m0ar \in Nat /\ m1ar \in Nat)'
      BY <2>1 DEF IInv, TypeOK, DmaTypeOK
    <3>2. BufTypeOK' /\ sent' \in 0..Rgb565FrameLen
      BY <1>1, <2>1 DEF IInv, TypeOK, BufTypeOK
    <3>3. QED
      BY <1>2, <1>3, <3>1, <3>2
         DEF IInv, TypeOK, DmaTypeOK, SensorTypeOK, ModeTypeOK, modeVars
  <2>4. ChunksCounted'
    BY <2>1 DEF IInv, ChunksCounted
  <2>5. TargetsConsecutive'
    BY <1>3, <2>1 DEF IInv, TargetsConsecutive
  <2>6. SpanIsSent'
    BY <1>1, <1>3, <2>1, <2>2 DEF SpanIsSent, PendingChunk
  <2>7. RoomForFrame'
    BY <2>1 DEF RoomForFrame
  <2>8. FrameFits'
    BY <1>1, <1>2 DEF FrameOutcome, FrameFits, NoFrame
  <2>9. LatestFrameIntact'
    BY <1>1, <1>2, <2>1 DEF FrameOutcome, LatestFrameIntact, NoFrame
  <2>10. NoJpegAfterClear'
    BY <1>2 DEF FrameOutcome, NoJpegAfterClear, modeVars
  <2>11. QED
    BY <2>3, <2>4, <2>5, <2>6, <2>7, <2>8, <2>9, <2>10 DEF IInv
<1>5. CASE RestartAtBufStart
  <2>1. /\ NextFrameStart + Rgb565FrameLen > BufSize
        /\ mLastFrameStart' = 0 /\ mBufCur' = 0 /\ mXferCount' = 0
        /\ ndtr' = XferSize /\ ct' = 0 /\ m0ar' = 0 /\ m1ar' = XferSize
    BY <1>5 DEF RestartAtBufStart, Wraps
  <2>2. NextFrameStart' = 0
    BY <2>1 DEF NextFrameStart
  <2>3. (ndtr \in 1..XferSize /\ ct \in {0, 1} /\ m0ar \in Nat /\ m1ar \in Nat)'
    BY <2>1
  <2>4. BufTypeOK' /\ sent' \in 0..Rgb565FrameLen
    BY <2>1 DEF BufTypeOK
  <2>5. TypeOK'
    BY <1>2, <1>3, <2>3, <2>4
       DEF IInv, TypeOK, DmaTypeOK, SensorTypeOK, ModeTypeOK, modeVars
  <2>6. ChunksCounted'
    BY <2>1 DEF ChunksCounted
  <2>7. TargetsConsecutive'
    BY <1>3, <2>1 DEF TargetsConsecutive
  <2>8. SpanIsSent'
    BY <1>3, <2>1, <2>2 DEF SpanIsSent, PendingChunk
  <2>9. RoomForFrame'
    BY <2>1 DEF RoomForFrame
  <2>10. FrameFits'
    BY <1>1, <1>2 DEF FrameOutcome, FrameFits, NoFrame
  <2>11. LatestFrameIntact'
    BY <1>1, <1>2, <2>1 DEF FrameOutcome, LatestFrameIntact, NoFrame
  <2>12. NoJpegAfterClear'
    BY <1>2 DEF FrameOutcome, NoJpegAfterClear, modeVars
  <2>13. QED
    BY <2>5, <2>6, <2>7, <2>8, <2>9, <2>10, <2>11, <2>12 DEF IInv
<1>6. QED
  BY <1>4, <1>5

(* An overflow on its own stops the stream and leaves the rest.            *)
LEMMA OverflowInductive ==
  ASSUME IInv, ~tcif, DisableOnOverflow(dmaEn), vsync' = FALSE, ovr' = FALSE,
         UNCHANGED <<ndtr, ct, m0ar, m1ar, sent, bufVars, frameVars, modeVars>>
  PROVE  IInv'
<1> USE CameraAssumption
<1>1. /\ dmaEn' \in BOOLEAN /\ tcif' \in BOOLEAN
      /\ dmaEn' => dmaEn /\ ~tcif'
  <2>1. dmaEn \in BOOLEAN /\ ovr \in BOOLEAN
    BY DEF IInv, TypeOK, DmaTypeOK, SensorTypeOK
  <2>2. dmaEn' = (dmaEn /\ ~ovr)
        /\ tcif' \in IF dmaEn /\ ovr THEN BOOLEAN ELSE {FALSE}
    BY DEF DisableOnOverflow
  <2>3. QED
    BY <2>1, <2>2
<1>2. TypeOK'
  BY <1>1 DEF IInv, TypeOK, DmaTypeOK, SensorTypeOK, BufTypeOK, FrameTypeOK,
              ModeTypeOK, bufVars, frameVars, modeVars
<1>3. (ChunksCounted /\ TargetsConsecutive)'
  BY <1>1 DEF IInv, ChunksCounted, TargetsConsecutive, bufVars
<1>4. SpanIsSent'
  <2>1. /\ UNCHANGED <<mBufCur, ndtr, mLastFrameStart, sent>>
        /\ mBufCur \in Nat /\ mLastFrameStart \in Nat
        /\ ndtr \in 1..XferSize /\ tcif' \in BOOLEAN
    BY <1>1 DEF IInv, TypeOK, DmaTypeOK, BufTypeOK, bufVars
  <2>2. mBufCur + (XferSize - ndtr) >= mLastFrameStart
    BY DEF IInv, TypeOK, DmaTypeOK, BufTypeOK, SpanIsSent, NextFrameStart,
           PendingChunk
  <2>3. (NextFrameStart + PendingChunk >= mLastFrameStart)'
    BY <2>1, <2>2 DEF NextFrameStart, PendingChunk
  <2>4. (dmaEn => NextFrameStart + PendingChunk = mLastFrameStart + sent)'
    BY <1>1, <2>1 DEF IInv, SpanIsSent, NextFrameStart, PendingChunk
  <2>5. QED
    BY <2>3, <2>4 DEF SpanIsSent
<1>5. (RoomForFrame /\ FrameFits /\ LatestFrameIntact /\ NoJpegAfterClear)'
  BY DEF IInv, RoomForFrame, FrameFits, LatestFrameIntact, NoJpegAfterClear,
         DataEnd, bufVars, frameVars, modeVars
<1>6. QED
  BY <1>2, <1>3, <1>4, <1>5 DEF IInv

LEMMA DcmiIrqInductive == IInv /\ DcmiIrqHandler => IInv'
  BY VsyncInductive, OverflowInductive DEF DcmiIrqHandler, DcmiMayRun

(* preview() and capture() clear the frame after they set mJpegMode.       *)
LEMMA SwitchModeInductive == IInv /\ SwitchMode => IInv'
<1> SUFFICES ASSUME IInv, SwitchMode PROVE IInv'
  OBVIOUS
<1> USE CameraAssumption
<1>1. UNCHANGED <<dmaVars, sensorVars, bufVars>>
  BY DEF SwitchMode, SetJpegMode, ClearFrame, ClearFrameLen
<1>2. TypeOK'
  <2>1. (DmaTypeOK /\ SensorTypeOK /\ BufTypeOK)'
    BY <1>1 DEF IInv, TypeOK, DmaTypeOK, SensorTypeOK, BufTypeOK, dmaVars,
                sensorVars, bufVars
  <2>2. FrameTypeOK'
    BY DEF IInv, TypeOK, FrameTypeOK, SwitchMode, SetJpegMode, ClearFrame,
           ClearFrameLen, frameVars
  <2>3. ModeTypeOK'
    <3>1. mJpegMode' \in BOOLEAN
      BY DEF IInv, TypeOK, ModeTypeOK, SwitchMode, SetJpegMode, ClearFrame,
             ClearFrameLen
    <3>2. touchPc' \in {"idle", "clearFrame", "clearFrameLen"}
      BY DEF SwitchMode, SetJpegMode, ClearFrame, ClearFrameLen
    <3>3. QED
      BY <3>1, <3>2 DEF ModeTypeOK
  <2>4. QED
    BY <2>1, <2>2, <2>3 DEF TypeOK
<1>3. (ChunksCounted /\ TargetsConsecutive /\ SpanIsSent /\ RoomForFrame)'
  BY <1>1 DEF IInv, ChunksCounted, TargetsConsecutive, SpanIsSent,
              RoomForFrame, NextFrameStart, PendingChunk, dmaVars, sensorVars,
              bufVars
<1>4. /\ mFrame' = mFrame \/ mFrame' = NoFrame
      /\ mFrameLen' = mFrameLen \/ mFrameLen' = 0
      /\ mJpegFrame' = mJpegFrame
  BY DEF SwitchMode, SetJpegMode, ClearFrame, ClearFrameLen, frameVars
<1>5. mLastFrameStart' = mLastFrameStart
  BY <1>1 DEF bufVars
<1>6. FrameFits'
  BY <1>4 DEF IInv, FrameFits
<1>7. LatestFrameIntact'
  BY <1>4, <1>5 DEF IInv, TypeOK, BufTypeOK, FrameTypeOK, LatestFrameIntact,
                    DataEnd
<1>8. NoJpegAfterClear'
  BY DEF IInv, NoJpegAfterClear, SwitchMode, SetJpegMode, ClearFrame,
         ClearFrameLen
<1>9. QED
  BY <1>2, <1>3, <1>6, <1>7, <1>8 DEF IInv

-----------------------------------------------------------------------------
LEMMA StepInductive == IInv /\ [Next]_cameraVars => IInv'
<1> SUFFICES ASSUME IInv, [Next]_cameraVars PROVE IInv'
  OBVIOUS
<1>1. CASE Hardware
  BY <1>1, StoreUnitInductive, PendingInductive DEF Hardware
<1>2. CASE DmaIrqHandler
  BY <1>2, DmaIrqInductive
<1>3. CASE DcmiIrqHandler
  BY <1>3, DcmiIrqInductive
<1>4. CASE SwitchMode
  BY <1>4, SwitchModeInductive
<1>5. CASE UNCHANGED cameraVars
  BY <1>5 DEF IInv, TypeOK, DmaTypeOK, SensorTypeOK, BufTypeOK, FrameTypeOK,
              ModeTypeOK, ChunksCounted, TargetsConsecutive, SpanIsSent,
              RoomForFrame, FrameFits, LatestFrameIntact, NoJpegAfterClear,
              NextFrameStart, PendingChunk, DataEnd, cameraVars, dmaVars,
              sensorVars, bufVars, frameVars, modeVars
<1>6. QED
  BY <1>1, <1>2, <1>3, <1>4, <1>5 DEF Next

THEOREM Invariance == Spec => []IInv
  BY InitInductive, StepInductive, PTL DEF Spec

-----------------------------------------------------------------------------
(* Every variable keeps its type.                                          *)
THEOREM TypeCorrect == Spec => []TypeOK
<1>1. IInv => TypeOK
  BY DEF IInv
<1>2. QED
  BY <1>1, Invariance, PTL

(* mBufCur, mXferCount and NDTR always tell where the stream stores.       *)
THEOREM DriverFollows == Spec => []DriverFollowsDma
<1>1. IInv => DriverFollowsDma
  <2> SUFFICES ASSUME IInv, dmaEn PROVE DriverFollowsDma
    BY DEF DriverFollowsDma
  <2>1. (IF ct = 0 THEN m0ar ELSE m1ar) = mBufCur + PendingChunk
    BY DEF IInv, TypeOK, BufTypeOK, TargetsConsecutive, PendingChunk
  <2>2. DmaAddr = NextFrameStart + PendingChunk
    BY <2>1, CameraAssumption
       DEF IInv, TypeOK, DmaTypeOK, BufTypeOK, DmaAddr, NextFrameStart,
           PendingChunk
  <2>3. QED
    BY <2>2 DEF IInv, SpanIsSent, DriverFollowsDma
<1>2. QED
  BY <1>1, Invariance, PTL

(* The stream never stores past the end of the camera buffer.              *)
THEOREM DmaStaysInBuffer == Spec => []DmaInBuffer
<1>1. IInv /\ DriverFollowsDma => DmaInBuffer
  BY CameraAssumption
     DEF IInv, TypeOK, SensorTypeOK, BufTypeOK, RoomForFrame,
         DriverFollowsDma, DmaInBuffer
<1>2. QED
  BY <1>1, Invariance, DriverFollows, PTL

(* The memory handed out as a frame, FF D9 included, is camera buffer.     *)
THEOREM FrameStaysInBuffer == Spec => []FrameInBuffer
<1>1. IInv => FrameInBuffer
  BY CameraAssumption
     DEF IInv, TypeOK, FrameTypeOK, FrameFits, FrameInBuffer, NoFrame
<1>2. QED
  BY <1>1, Invariance, PTL

(* The latest frame is never being overwritten.                            *)
THEOREM LatestIntact == Spec => []LatestFrameIntact
<1>1. IInv => LatestFrameIntact
  BY DEF IInv
<1>2. QED
  BY <1>1, Invariance, PTL

(* After preview() no JPEG is on display.                                  *)
THEOREM PreviewShowsNoJpeg == Spec => []NoJpegInPreview
<1>1. IInv => NoJpegInPreview
  BY DEF IInv, NoJpegAfterClear, NoJpegInPreview
<1>2. QED
  BY <1>1, Invariance, PTL

-----------------------------------------------------------------------------
(* A frame published while the stream ran is the memory that the sensor's  *)
(* frame was stored in.                                                    *)
THEOREM PublishesWhatWasStored == Spec => PublishedWasStored
<1> USE CameraAssumption
<1>1. ASSUME IInv, DriverFollowsDma, Next, mFrameId' # mFrameId, dmaEn
      PROVE  mFrameLen' <= sent + EoiLen /\ mFrame' + sent = DmaAddr
  <2>1. vsync /\ ~tcif /\ ClassifyFrame
    BY <1>1 DEF Next, Hardware, StoreUnit, EndOfFrame, Overflow, DmaIrqHandler,
                DcmiIrqHandler, DcmiMayRun, SwitchMode, SetJpegMode, ClearFrame,
                ClearFrameLen, frameVars
  <2>2. /\ DmaAddr = mLastFrameStart + sent /\ FrameLen = sent
        /\ sent \in Nat /\ mLastFrameStart \in Nat
    BY <1>1, <2>1
       DEF IInv, TypeOK, DmaTypeOK, SensorTypeOK, BufTypeOK, SpanIsSent,
           DriverFollowsDma, NextFrameStart, PendingChunk, FrameLen
  <2>3. \/ PublishFrame(FrameLen, FALSE)
        \/ \E jpegLen \in 0..FrameLen : PublishFrame(jpegLen + EoiLen, TRUE)
    BY <1>1, <2>1 DEF ClassifyFrame, DropFrame
  <2>4. mFrame' = mLastFrameStart /\ mFrameLen' <= sent + EoiLen
    BY <2>2, <2>3 DEF PublishFrame
  <2>5. QED
    BY <2>2, <2>4
<1>2. IInv /\ DriverFollowsDma /\ [Next]_cameraVars
        => [mFrameId' # mFrameId /\ dmaEn =>
              /\ mFrameLen' <= sent + EoiLen
              /\ mFrame' + sent = DmaAddr]_cameraVars
  BY <1>1
<1>3. QED
  BY <1>2, Invariance, DriverFollows, PTL DEF Spec, PublishedWasStored

-----------------------------------------------------------------------------
(* Every step of the capture path is a step of the frame ring, or changes  *)
(* nothing that the ring shows.                                            *)
LEMMA StoreUnitGrows == IInv /\ StoreUnit => Ring!Grow
<1> SUFFICES ASSUME IInv, StoreUnit PROVE Ring!Grow
  OBVIOUS
<1>1. (NextFrameStart + PendingChunk)' = NextFrameStart + PendingChunk + 1
  BY CameraAssumption
     DEF IInv, TypeOK, DmaTypeOK, BufTypeOK, StoreUnit, ReloadedNdtr,
         NextFrameStart, PendingChunk, bufVars
<1>2. (NextFrameStart + PendingChunk) - mLastFrameStart < Rgb565FrameLen
  BY CameraAssumption
     DEF IInv, TypeOK, DmaTypeOK, BufTypeOK, SensorTypeOK, SpanIsSent,
         StoreUnit, NextFrameStart, PendingChunk
<1>3. UNCHANGED <<mLastFrameStart, dmaEn, frameVars>> /\ dmaEn
  BY DEF StoreUnit, bufVars
<1>4. QED
  BY <1>1, <1>2, <1>3 DEF Ring!Grow, frameVars

LEMMA DmaIrqStutters == IInv /\ DmaIrqHandler => UNCHANGED Ring!ringVars
<1> SUFFICES ASSUME IInv, DmaIrqHandler PROVE UNCHANGED Ring!ringVars
  OBVIOUS
<1>1. (NextFrameStart + PendingChunk)' = NextFrameStart + PendingChunk
  BY CameraAssumption
     DEF IInv, TypeOK, DmaTypeOK, BufTypeOK, DmaIrqHandler,
         NextFrameStart, PendingChunk
<1>2. QED
  BY <1>1 DEF Ring!ringVars, DmaIrqHandler, frameVars

LEMMA DcmiIrqRings == IInv /\ DcmiIrqHandler => [Ring!Next]_Ring!ringVars
<1> SUFFICES ASSUME IInv, DcmiIrqHandler PROVE [Ring!Next]_Ring!ringVars
  OBVIOUS
<1> USE CameraAssumption
<1>1. ~tcif /\ tcif' \in BOOLEAN
  <2>1. dmaEn \in BOOLEAN /\ ovr \in BOOLEAN /\ ~tcif
    BY DEF IInv, TypeOK, DmaTypeOK, SensorTypeOK, DcmiIrqHandler, DcmiMayRun
  <2>2. QED
    BY <2>1 DEF DcmiIrqHandler, DisableOnOverflow
<1>2. /\ NextFrameStart \in Nat /\ mLastFrameStart \in Nat
      /\ PendingChunk = 0
      /\ FrameLen = NextFrameStart - mLastFrameStart /\ FrameLen \in Nat
  BY <1>1 DEF IInv, TypeOK, DmaTypeOK, BufTypeOK, SpanIsSent, NextFrameStart,
              PendingChunk, FrameLen
<1>3. CASE ~vsync
  <2>1. UNCHANGED <<ndtr, mBufCur, mLastFrameStart, frameVars>>
    BY <1>3 DEF DcmiIrqHandler, bufVars
  <2>2. NextFrameStart' = NextFrameStart
    BY <2>1 DEF NextFrameStart
  <2>3. CASE dmaEn /\ ovr
    <3>1. dmaEn' = FALSE
      BY <1>3, <2>3 DEF DcmiIrqHandler, DisableOnOverflow
    <3>2. \/ (NextFrameStart + PendingChunk)' = NextFrameStart + PendingChunk
          \/ (NextFrameStart + PendingChunk)'
                = NextFrameStart + PendingChunk + XferSize
      BY <1>1, <1>2, <2>2 DEF PendingChunk
    <3>3. QED
      BY <2>1, <2>3, <3>1, <3>2 DEF Ring!Next, Ring!Stop, frameVars
  <2>4. CASE ~(dmaEn /\ ovr)
    <3>1. dmaEn' = dmaEn /\ ~tcif'
      <4>1. dmaEn \in BOOLEAN /\ ovr \in BOOLEAN
        BY DEF IInv, TypeOK, DmaTypeOK, SensorTypeOK
      <4>2. dmaEn' = (dmaEn /\ ~ovr) /\ tcif' \in {FALSE}
        BY <1>3, <2>4 DEF DcmiIrqHandler, DisableOnOverflow
      <4>3. QED
        BY <2>4, <4>1, <4>2
    <3>2. (NextFrameStart + PendingChunk)' = NextFrameStart + PendingChunk
      BY <1>1, <2>2, <3>1 DEF PendingChunk
    <3>3. QED
      BY <2>1, <3>1, <3>2 DEF Ring!ringVars, frameVars
  <2>5. QED
    BY <2>3, <2>4
<1>4. CASE vsync
  <2>1. ClassifyFrame /\ (ContinueBehindFrame \/ RestartAtBufStart)
    BY <1>4 DEF DcmiIrqHandler
  <2>2. Ring!Publish \/ Ring!Drop
    <3>1. CASE FrameLen = Rgb565FrameLen /\ PublishFrame(FrameLen, FALSE)
      BY <1>2, <3>1 DEF PublishFrame, Ring!Publish
    <3>2. CASE /\ FrameLen \in JpegFrameLen
               /\ \E jpegLen \in 0..FrameLen :
                     PublishFrame(jpegLen + EoiLen, TRUE)
      <4>1. PICK jpegLen \in 0..FrameLen : PublishFrame(jpegLen + EoiLen, TRUE)
        BY <3>2
      <4>2. jpegLen + EoiLen \in EoiLen..(FrameLen + EoiLen)
        BY <1>2, <4>1
      <4>3. FrameLen \in JpegFrameLen /\ FrameLen \in Nat
        BY <1>2, <3>2
      <4>4. FrameLen < Rgb565FrameLen
        BY <4>3 DEF JpegFrameLen
      <4>5. /\ mFrame' = mLastFrameStart /\ mFrameLen' = jpegLen + EoiLen
            /\ mJpegFrame' = TRUE /\ mFrameSem' = TRUE
        BY <4>1 DEF PublishFrame
      <4>6. /\ mFrameLen' \in EoiLen..((NextFrameStart + PendingChunk)
                                       - mLastFrameStart + EoiLen)
            /\ (NextFrameStart + PendingChunk) - mLastFrameStart
                 < Rgb565FrameLen
        BY <1>2, <4>2, <4>4, <4>5
      <4>7. Ring!Publish
        BY <4>5, <4>6 DEF Ring!Publish
      <4>8. QED
        BY <4>7
    <3>3. CASE DropFrame
      BY <3>3 DEF DropFrame, Ring!Drop, Ring!None, NoFrame
    <3>4. QED
      BY <2>1, <3>1, <3>2, <3>3 DEF ClassifyFrame
  <2>3. NextFrameStart' = mLastFrameStart'
        /\ mLastFrameStart' = IF NextFrameStart + Rgb565FrameLen <= BufSize
                                THEN NextFrameStart ELSE 0
    <3>1. CASE ContinueBehindFrame
      BY <1>2, <3>1 DEF ContinueBehindFrame, Wraps, NextFrameStart
    <3>2. CASE RestartAtBufStart
      <4>1. NextFrameStart' = 0 /\ mLastFrameStart' = 0
        BY <3>2 DEF RestartAtBufStart, NextFrameStart
      <4>2. NextFrameStart + Rgb565FrameLen > BufSize
        BY <3>2 DEF RestartAtBufStart, Wraps
      <4>3. QED
        BY <1>2, <4>1, <4>2
    <3>3. QED
      BY <2>1, <3>1, <3>2
  <2>4. mLastFrameStart' \in Nat
    BY <1>2, <2>3
  <2>5. Wraps = (NextFrameStart + Rgb565FrameLen > BufSize)
    BY DEF Wraps
  <2>6. Ring!NextRegion
    <3> DEFINE fits == NextFrameStart + Rgb565FrameLen <= BufSize
    <3>1. fits \in BOOLEAN /\ Wraps = ~fits
      BY <1>2, <2>5
    <3>2. NextFrameStart + PendingChunk = NextFrameStart
      BY <1>2
    <3>3. /\ dmaEn \in BOOLEAN /\ ovr \in BOOLEAN
      BY DEF IInv, TypeOK, DmaTypeOK, SensorTypeOK
    <3>4. DisableOnOverflow(dmaEn \/ Wraps)
      BY <1>4 DEF DcmiIrqHandler
    <3>5. CASE (dmaEn \/ ~fits) /\ ovr
      <4>1. dmaEn' = FALSE
        BY <3>5, <3>4 DEF DisableOnOverflow
      <4>2. (NextFrameStart + PendingChunk)'
              \in {mLastFrameStart', mLastFrameStart' + XferSize}
        BY <1>1, <2>3, <2>4 DEF PendingChunk
      <4>3. QED
        BY <2>3, <3>2, <3>5, <4>1, <4>2 DEF Ring!NextRegion
    <3>6. CASE ~((dmaEn \/ ~fits) /\ ovr)
      <4>1. dmaEn' = (dmaEn \/ ~fits) /\ tcif' = FALSE
        BY <3>1, <3>3, <3>4, <3>6 DEF DisableOnOverflow
      <4>2. (NextFrameStart + PendingChunk)' = mLastFrameStart'
        BY <2>3, <2>4, <4>1 DEF PendingChunk
      <4>3. QED
        BY <2>3, <3>2, <4>1, <4>2 DEF Ring!NextRegion
    <3>7. QED
      BY <3>5, <3>6
  <2>7. QED
    BY <2>2, <2>6 DEF Ring!Next, Ring!EndRegion
<1>5. QED
  BY <1>3, <1>4

LEMMA SwitchModeRings == SwitchMode => [Ring!Next]_Ring!ringVars
<1> SUFFICES ASSUME SwitchMode PROVE [Ring!Next]_Ring!ringVars
  OBVIOUS
<1>1. (NextFrameStart + PendingChunk)' = NextFrameStart + PendingChunk
      /\ mLastFrameStart' = mLastFrameStart /\ dmaEn' = dmaEn
  BY DEF SwitchMode, SetJpegMode, ClearFrame, ClearFrameLen, dmaVars, bufVars,
         NextFrameStart, PendingChunk
<1>2. \/ UNCHANGED frameVars
      \/ /\ mFrame' = NoFrame /\ UNCHANGED <<mFrameLen, mJpegFrame, mFrameSem>>
      \/ /\ mFrameLen' = 0 /\ UNCHANGED <<mFrame, mJpegFrame, mFrameSem>>
  BY DEF SwitchMode, SetJpegMode, ClearFrame, ClearFrameLen, frameVars
<1>3. QED
  BY <1>1, <1>2 DEF Ring!Next, Ring!Clear, Ring!None, Ring!ringVars, NoFrame,
                    frameVars

(* The capture path implements the frame ring.                             *)
THEOREM Refinement == Spec => ImplementsFrameRing
<1>1. Init => Ring!Init
  BY CameraAssumption
     DEF Init, Ring!Init, Ring!None, NoFrame, NextFrameStart, PendingChunk
<1>2. IInv /\ [Next]_cameraVars => [Ring!Next]_Ring!ringVars
  <2> SUFFICES ASSUME IInv, [Next]_cameraVars PROVE [Ring!Next]_Ring!ringVars
    OBVIOUS
  <2>1. CASE StoreUnit
    BY <2>1, StoreUnitGrows DEF Ring!Next
  <2>2. CASE EndOfFrame \/ Overflow
    BY <2>2 DEF EndOfFrame, Overflow, dmaVars, bufVars, frameVars,
                NextFrameStart, PendingChunk, Ring!ringVars
  <2>3. CASE DmaIrqHandler
    BY <2>3, DmaIrqStutters
  <2>4. CASE DcmiIrqHandler
    BY <2>4, DcmiIrqRings
  <2>5. CASE SwitchMode
    BY <2>5, SwitchModeRings
  <2>6. CASE UNCHANGED cameraVars
    BY <2>6 DEF cameraVars, dmaVars, bufVars, frameVars, NextFrameStart,
                PendingChunk, Ring!ringVars
  <2>7. QED
    BY <2>1, <2>2, <2>3, <2>4, <2>5, <2>6 DEF Next, Hardware
<1>3. QED
  BY <1>1, <1>2, Invariance, PTL DEF Spec, Ring!Spec, ImplementsFrameRing
=============================================================================
