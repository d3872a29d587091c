------------------------------- MODULE Camera -------------------------------
(***************************************************************************)
(* The camera capture path of BSP/mt9d111.cpp: the DCMI interface and DMA2 *)
(* stream 1 in double-buffer mode write the sensor's data into one large   *)
(* memory buffer, two interrupt handlers follow the stream and publish the *)
(* frames they find in it, and the touch thread switches the sensor        *)
(* between preview (RGB565) and capture (JPEG).                            *)
(*                                                                         *)
(* Addresses are offsets from mBufStart and lengths are counted in units   *)
(* of one DMA burst, so the two bytes FF D9 that close a JPEG and the      *)
(* status word of the sensor take EoiLen units.  The two handlers have the *)
(* same NVIC priority: each runs to completion as far as the other and     *)
(* the threads are concerned.                                              *)
(***************************************************************************)
EXTENDS Integers

CONSTANTS
  BufSize,          \* mBufEnd - mBufStart
  XferSize,         \* units in a DMA chunk (4 * mXferSize bytes)
  Rgb565FrameLen,   \* mRgb565FrameLen: 800 x 600 x 2 bytes in both modes
  EoiLen,           \* what the FF D9 appended to a JPEG takes
  IdMod             \* mFrameId is an unsigned counter, kept modulo IdMod

ASSUME CameraAssumption ==
  /\ XferSize \in Nat \ {0}
  /\ Rgb565FrameLen \in Nat \ {0}
  /\ BufSize \in Nat
  /\ BufSize >= 3 * Rgb565FrameLen
  /\ EoiLen = 1
  /\ IdMod \in Nat \ {0, 1}

NoFrame == -1       \* nullptr

VARIABLES
  ndtr,             \* DMA2_Stream1->NDTR: units left in the current chunk
  ct,               \* the stream's current target: 0 is M0AR, 1 is M1AR
  m0ar, m1ar,       \* the two chunk addresses
  dmaEn,            \* DMA_SxCR_EN
  tcif,             \* transfer complete is pending
  vsync, ovr,       \* DCMI interrupts that are pending
  sent,             \* units of the sensor's current frame that were stored
  mBufCur, mLastFrameStart, mXferCount,
  mFrame, mFrameLen, mJpegFrame, mFrameId, mFrameSem,
  mJpegMode,
  touchPc           \* where preview() or capture() is

dmaVars    == <<ndtr, ct, m0ar, m1ar, dmaEn, tcif>>
sensorVars == <<vsync, ovr, sent>>
bufVars    == <<mBufCur, mLastFrameStart, mXferCount>>
frameVars  == <<mFrame, mFrameLen, mJpegFrame, mFrameId, mFrameSem>>
modeVars   == <<mJpegMode, touchPc>>
cameraVars == <<dmaVars, sensorVars, bufVars, frameVars, modeVars>>

(* The address the stream stores the next unit at. *)
DmaAddr == (IF ct = 0 THEN m0ar ELSE m1ar) + (XferSize - ndtr)

(* start(), after init() called preview(): vSemaphoreCreateBinary leaves   *)
(* mFrameSem given.                                                        *)
Init ==
  /\ ndtr = XferSize /\ ct = 0
  /\ m0ar = 0 /\ m1ar = XferSize
  /\ dmaEn = TRUE /\ tcif = FALSE
  /\ vsync = FALSE /\ ovr = FALSE /\ sent = 0
  /\ mBufCur = 0 /\ mLastFrameStart = 0 /\ mXferCount = 0
  /\ mFrame = NoFrame /\ mFrameLen = 0 /\ mJpegFrame = FALSE
  /\ mFrameId = 0 /\ mFrameSem = TRUE
  /\ mJpegMode = FALSE /\ touchPc = "idle"

-----------------------------------------------------------------------------
(* The sensor, the DCMI and the DMA stream.                                *)

(* What NDTR holds once a chunk is full: the stream is circular.           *)
ReloadedNdtr == XferSize

(* The sensor sends a unit and the stream stores it; at the end of a chunk *)
(* the stream switches target, reloads NDTR and raises transfer complete.  *)
(* A frame is never longer than an RGB565 frame, no data is sent in the    *)
(* vertical blanking, and a chunk takes far longer than dmaIrqHandler.     *)
StoreUnit ==
  /\ dmaEn /\ ~vsync
  /\ sent < Rgb565FrameLen
  /\ ~(tcif /\ ndtr = 1)
  /\ sent' = sent + 1
  /\ IF ndtr = 1
       THEN ndtr' = ReloadedNdtr /\ ct' = 1 - ct /\ tcif' = TRUE
       ELSE ndtr' = ndtr - 1 /\ UNCHANGED <<ct, tcif>>
  /\ UNCHANGED <<m0ar, m1ar, dmaEn, vsync, ovr, bufVars, frameVars, modeVars>>

(* The sensor ends a frame of any length: whole, cut short, or nothing.    *)
EndOfFrame ==
  /\ ~vsync
  /\ vsync' = TRUE
  /\ UNCHANGED <<dmaVars, ovr, sent, bufVars, frameVars, modeVars>>

(* The DCMI could not hand a unit to the stream in time.                   *)
Overflow ==
  /\ dmaEn /\ ~ovr
  /\ ovr' = TRUE
  /\ UNCHANGED <<dmaVars, vsync, sent, bufVars, frameVars, modeVars>>

-----------------------------------------------------------------------------
(* The target that dmaIrqHandler reprograms after count chunks.            *)
(* Mutant: the one that is being filled.                                   *)
IdleTarget_Active(count) == count % 2
IdleTarget(count) == (count + 1) % 2

(* dmaIrqHandler: a chunk is complete, give the idle target its next       *)
(* address.  Its other flags are only logged.                              *)
DmaIrqHandler ==
  /\ tcif
  /\ tcif' = FALSE
  /\ mXferCount' = mXferCount + 1
  /\ mBufCur' = mBufCur + XferSize
  /\ IF IdleTarget(mXferCount') = 0
       THEN m0ar' = (mXferCount' + 1) * XferSize /\ UNCHANGED m1ar
       ELSE m1ar' = (mXferCount' + 1) * XferSize /\ UNCHANGED m0ar
  /\ UNCHANGED <<ndtr, ct, dmaEn, sensorVars, mLastFrameStart, frameVars,
                 modeVars>>

(* What dcmiIrqHandler computes on entry.                                  *)
NextFrameStart == mBufCur + (XferSize - ndtr)
FrameLen == NextFrameStart - mLastFrameStart

(* "enough room for largest frame".  Mutants: wrap only when the buffer is *)
(* full; wrap after every frame.                                           *)
Wraps_NoRoomCheck == NextFrameStart >= BufSize
Wraps_EveryFrame == TRUE
Wraps == NextFrameStart + Rgb565FrameLen > BufSize

PublishFrame(len, jpeg) ==
  /\ mFrame' = mLastFrameStart
  /\ mFrameLen' = len
  /\ mJpegFrame' = jpeg
  /\ mFrameId' = (mFrameId + 1) % IdMod
  /\ mFrameSem' = TRUE

DropFrame ==
  /\ mFrame' = NoFrame
  /\ mFrameLen' = 0
  /\ UNCHANGED <<mJpegFrame, mFrameId, mFrameSem>>

(* The lengths taken for a JPEG.  Mutant: that of an RGB565 frame too.     *)
JpegFrameLen_UpToRgb565 == 1..Rgb565FrameLen
JpegFrameLen == 1..(Rgb565FrameLen - 1)

(* The frame that VSYNC ended: a whole RGB565 frame, a JPEG whose status   *)
(* is good and whose length (read from the status word, so any value) fits *)
(* the data, or no frame.                                                  *)
ClassifyFrame ==
  \/ FrameLen = Rgb565FrameLen /\ PublishFrame(FrameLen, FALSE)
  \/ /\ mJpegMode /\ FrameLen \in JpegFrameLen
     /\ \E jpegLen \in 0..FrameLen : PublishFrame(jpegLen + EoiLen, TRUE)
  \/ FrameLen # Rgb565FrameLen /\ DropFrame

(* Go on behind the frame while the largest frame fits, else restart the   *)
(* stream at the start of the buffer; enabling it reloads NDTR and CT.     *)
ContinueBehindFrame ==
  /\ ~Wraps
  /\ mLastFrameStart' = NextFrameStart
  /\ UNCHANGED <<mBufCur, mXferCount, ndtr, ct, m0ar, m1ar>>

(* Mutant: the restart forgets mBufCur.                                    *)
RestartAtBufStart_KeepsBufCur ==
  /\ Wraps
  /\ mLastFrameStart' = 0 /\ mXferCount' = 0
  /\ ndtr' = XferSize /\ ct' = 0
  /\ m0ar' = 0 /\ m1ar' = XferSize
  /\ UNCHANGED mBufCur

RestartAtBufStart ==
  /\ Wraps
  /\ mLastFrameStart' = 0 /\ mBufCur' = 0 /\ mXferCount' = 0
  /\ ndtr' = XferSize /\ ct' = 0
  /\ m0ar' = 0 /\ m1ar' = XferSize

(* The overflow branch disables the stream and nothing enables it again    *)
(* but a restart.  Disabling a running stream may raise transfer complete. *)
DisableOnOverflow(enabled) ==
  /\ dmaEn' = (enabled /\ ~ovr)
  /\ tcif' \in IF enabled /\ ovr THEN BOOLEAN ELSE {FALSE}

(* DMA2_Stream1_IRQn is the lower exception number of the two, so a        *)
(* pending transfer complete is served first.  Mutant: it is not.          *)
DcmiMayRun_AnyOrder == TRUE
DcmiMayRun == ~tcif

(* dcmiIrqHandler                                                          *)
DcmiIrqHandler ==
  /\ vsync \/ ovr
  /\ DcmiMayRun
  /\ vsync' = FALSE /\ ovr' = FALSE
  /\ \/ /\ vsync
        /\ ClassifyFrame
        /\ ContinueBehindFrame \/ RestartAtBufStart
        /\ sent' = 0
        /\ DisableOnOverflow(dmaEn \/ Wraps)
     \/ /\ ~vsync
        /\ DisableOnOverflow(dmaEn)
        /\ UNCHANGED <<ndtr, ct, m0ar, m1ar, sent, bufVars, frameVars>>
  /\ UNCHANGED modeVars

-----------------------------------------------------------------------------
(* preview() and capture() in the touch thread: mJpegMode first, then      *)
(* mFrame, then mFrameLen, with the interrupts in between.  The width, the *)
(* height and mRgb565FrameLen are given the values they have.              *)
SetJpegMode ==
  /\ touchPc = "idle"
  /\ mJpegMode' \in BOOLEAN
  /\ touchPc' = "clearFrame"
  /\ UNCHANGED <<dmaVars, sensorVars, bufVars, frameVars>>

ClearFrame ==
  /\ touchPc = "clearFrame"
  /\ mFrame' = NoFrame
  /\ touchPc' = "clearFrameLen"
  /\ UNCHANGED <<dmaVars, sensorVars, bufVars, mFrameLen, mJpegFrame,
                 mFrameId, mFrameSem, mJpegMode>>

ClearFrameLen ==
  /\ touchPc = "clearFrameLen"
  /\ mFrameLen' = 0
  /\ touchPc' = "idle"
  /\ UNCHANGED <<dmaVars, sensorVars, bufVars, mFrame, mJpegFrame,
                 mFrameId, mFrameSem, mJpegMode>>

(* Mutant: the frame is cleared before mJpegMode is set.                   *)
SwitchMode_ModeLast ==
  /\ \/ /\ touchPc = "idle" /\ touchPc' = "clearFrame"
        /\ mFrame' = NoFrame /\ UNCHANGED <<mFrameLen, mJpegMode>>
     \/ /\ touchPc = "clearFrame" /\ touchPc' = "clearFrameLen"
        /\ mFrameLen' = 0 /\ UNCHANGED <<mFrame, mJpegMode>>
     \/ /\ touchPc = "clearFrameLen" /\ touchPc' = "idle"
        /\ mJpegMode' \in BOOLEAN /\ UNCHANGED <<mFrame, mFrameLen>>
  /\ UNCHANGED <<dmaVars, sensorVars, bufVars, mJpegFrame, mFrameId, mFrameSem>>

SwitchMode == SetJpegMode \/ ClearFrame \/ ClearFrameLen

Hardware == StoreUnit \/ EndOfFrame \/ Overflow
Next == Hardware \/ DmaIrqHandler \/ DcmiIrqHandler \/ SwitchMode

Spec == Init /\ [][Next]_cameraVars

-----------------------------------------------------------------------------
DmaTypeOK ==
  /\ ndtr \in 1..XferSize /\ ct \in {0, 1}
  /\ m0ar \in Nat /\ m1ar \in Nat
  /\ dmaEn \in BOOLEAN /\ tcif \in BOOLEAN
SensorTypeOK ==
  vsync \in BOOLEAN /\ ovr \in BOOLEAN /\ sent \in 0..Rgb565FrameLen
BufTypeOK ==
  mBufCur \in Nat /\ mLastFrameStart \in Nat /\ mXferCount \in Nat
FrameTypeOK ==
  /\ mFrame \in Nat \cup {NoFrame} /\ mFrameLen \in Nat
  /\ mJpegFrame \in BOOLEAN /\ mFrameId \in 0..(IdMod - 1)
  /\ mFrameSem \in BOOLEAN
ModeTypeOK ==
  mJpegMode \in BOOLEAN /\ touchPc \in {"idle", "clearFrame", "clearFrameLen"}

TypeOK ==
  DmaTypeOK /\ SensorTypeOK /\ BufTypeOK /\ FrameTypeOK /\ ModeTypeOK

(* The driver's arithmetic names the byte the hardware is at: while the    *)
(* stream runs, mBufCur plus what NDTR says was transferred is the address *)
(* the stream stores at, one chunk further when transfer complete is still *)
(* pending, and the frame since mLastFrameStart is what the sensor sent.   *)
PendingChunk == IF tcif THEN XferSize ELSE 0
DriverFollowsDma ==
  dmaEn => /\ DmaAddr = NextFrameStart + PendingChunk
           /\ DmaAddr = mLastFrameStart + sent

(* The stream never stores outside the camera buffer: "enough room for     *)
(* largest frame" is checked at every VSYNC.                               *)
DmaInBuffer == dmaEn /\ sent < Rgb565FrameLen => DmaAddr < BufSize

(* A published frame lies inside the buffer, the appended FF D9 included,  *)
(* whatever length the sensor's status word claims.                        *)
FrameInBuffer ==
  mFrame # NoFrame => mFrame + mFrameLen <= BufSize

(* The frame on display is not the memory being overwritten: wherever the  *)
(* current frame may still grow, it does not reach the published data.     *)
(* (The FF D9 itself can be overwritten, when the status word claims that  *)
(* the JPEG fills the frame.)                                              *)
DataEnd == mFrame + mFrameLen - (IF mJpegFrame THEN EoiLen ELSE 0)
LatestFrameIntact ==
  mFrame # NoFrame =>
    \/ DataEnd <= mLastFrameStart
    \/ mLastFrameStart + Rgb565FrameLen <= mFrame

(* Once preview() is done, no JPEG is published: the frame it discards     *)
(* does not come back from an interrupt that ran in the middle of it.      *)
NoJpegInPreview ==
  touchPc = "idle" /\ ~mJpegMode /\ mFrame # NoFrame => ~mJpegFrame

(* A frame published while the stream ran holds no more than the sensor    *)
(* stored for it, and starts where the sensor's frame starts.              *)
PublishedWasStored ==
  [][mFrameId' # mFrameId /\ dmaEn =>
       /\ mFrameLen' <= sent + EoiLen
       /\ mFrame' + sent = DmaAddr]_cameraVars

(* The capture path implements a ring of frames with one write pointer: the *)
(* chunks, the two targets, the registers and the pending interrupts are    *)
(* hidden.                                                                  *)
Ring == INSTANCE FrameRing WITH
  MaxFrame <- Rgb565FrameLen,
  start    <- mLastFrameStart,
  wr       <- NextFrameStart + PendingChunk,
  live     <- dmaEn,
  frame    <- mFrame,
  len      <- mFrameLen,
  jpeg     <- mJpegFrame,
  fresh    <- mFrameSem
ImplementsFrameRing == Ring!Spec
=============================================================================
