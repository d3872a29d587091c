---------------------------- MODULE CameraReaders ---------------------------
(***************************************************************************)
(* A thread that reads frames, composed with the frame ring that the       *)
(* capture path implements.  The app thread (cCameraBox::onDraw) and the   *)
(* HTTP server call getLastFrame, the save thread calls getNextFrame.      *)
(* Neither call masks the interrupts: the length, the format, the id and   *)
(* the pointer are read one after another, and the frame is then drawn,    *)
(* sent or written while the capture goes on.                              *)
(*                                                                         *)
(* Readers write nothing a reader reads but fresh (mFrameSem), which one   *)
(* thread takes, so one reader is modelled at a time.                      *)
(***************************************************************************)
EXTENDS FrameRing

CONSTANT
  MaxAge        \* bound: age counts up to here, when the ring has come round

(* The sizes are those that Camera's assumption admits.                    *)
ASSUME ReadersAssumption ==
  /\ MaxFrame \in Nat \ {0} /\ XferSize \in Nat \ {0} /\ EoiLen = 1
  /\ BufSize \in Nat /\ BufSize >= MaxFrame
  /\ MaxAge \in Nat /\ (MaxAge + 3) * MaxFrame + XferSize > BufSize

VARIABLES
  pc,           \* where the thread is
  waits,        \* it called getNextFrame
  rLen, rJpeg, rFrame,  \* the frameLen, jpeg and frame it was given
  rEnd,         \* history: where that frame's data ends
  age,          \* history: regions that ended since then
  overwritten,  \* history: the stream stored into that data
  rIdLatest,    \* the frameId it was given is that of the latest frame
  lastIdLatest, \* onDraw: mLastFrameId is that of the latest frame
  rLatest,      \* history: the frame it was given is the latest frame
  picLatest     \* history: what onDraw decoded is the latest frame

heldVars == <<rLen, rJpeg, rFrame, rEnd, age, overwritten>>
idVars == <<rIdLatest, lastIdLatest, rLatest, picLatest>>
vars == <<ringVars, pc, waits, heldVars, idVars>>

(* mFrameId and mLastFrameId both start at 0.                              *)
InitReaders ==
  /\ Init
  /\ pc = "idle" /\ waits = FALSE
  /\ rLen = 0 /\ rJpeg = FALSE /\ rFrame = None
  /\ rEnd = 0 /\ age = 0 /\ overwritten = FALSE
  /\ rIdLatest = FALSE /\ lastIdLatest = TRUE
  /\ rLatest = FALSE /\ picLatest = TRUE

-----------------------------------------------------------------------------
(* What a step of the capture path means to the thread: whether it stored  *)
(* into the frame, and whether it published another one.                   *)
Stored ==
  overwritten' = (overwritten \/ (pc = "using" /\ rFrame <= wr /\ wr < rEnd))

Aged == age' = IF pc = "using" /\ age < MaxAge THEN age + 1 ELSE age

Outdated ==
  /\ rIdLatest' = FALSE /\ lastIdLatest' = FALSE
  /\ rLatest' = FALSE /\ picLatest' = FALSE

Capture ==
  /\ \/ Grow /\ Stored /\ UNCHANGED <<age, idVars>>
     \/ (Stop \/ Clear) /\ UNCHANGED <<overwritten, age, idVars>>
     \/ Publish /\ NextRegion /\ Aged /\ Outdated /\ UNCHANGED overwritten
     \/ Drop /\ NextRegion /\ Aged /\ UNCHANGED <<overwritten, idVars>>
  /\ UNCHANGED <<pc, waits, rLen, rJpeg, rFrame, rEnd>>

(* getNextFrame first takes mFrameSem, or gives up after 500 ms, and goes  *)
(* on either way.                                                          *)
WaitFrame ==
  /\ pc = "idle"
  /\ pc' = "len" /\ waits' = TRUE
  /\ fresh' = FALSE
  /\ UNCHANGED <<start, wr, live, frame, len, jpeg, heldVars, idVars>>

ReadLen ==
  /\ pc \in {"idle", "len"} /\ waits' = (pc = "len")
  /\ rLen' = len
  /\ pc' = "jpeg"
  /\ UNCHANGED <<ringVars, rJpeg, rFrame, rEnd, age, overwritten, idVars>>

ReadJpeg ==
  /\ pc = "jpeg"
  /\ rJpeg' = jpeg
  /\ pc' = IF waits THEN "frame" ELSE "id"
  /\ UNCHANGED <<ringVars, waits, rLen, rFrame, rEnd, age, overwritten,
                 idVars>>

ReadId ==
  /\ pc = "id"
  /\ rIdLatest' = TRUE
  /\ pc' = "frame"
  /\ UNCHANGED <<ringVars, waits, heldVars, lastIdLatest, rLatest, picLatest>>

(* What the thread was given goes out of scope.                            *)
ForgetFrame ==
  /\ pc' = "idle" /\ waits' = FALSE
  /\ rLen' = 0 /\ rJpeg' = FALSE /\ rFrame' = None
  /\ rEnd' = 0 /\ age' = 0 /\ overwritten' = FALSE
  /\ rIdLatest' = FALSE /\ rLatest' = FALSE

(* The pointer last; without a frame there is nothing to use.              *)
ReadFrame ==
  /\ pc = "frame"
  /\ \/ /\ frame # None
        /\ rFrame' = frame
        /\ rEnd' = frame + len - (IF jpeg THEN EoiLen ELSE 0)
        /\ rLatest' = TRUE
        /\ pc' = "using"
        /\ UNCHANGED <<waits, rLen, rJpeg, age, overwritten, rIdLatest>>
     \/ frame = None /\ ForgetFrame
  /\ UNCHANGED <<ringVars, lastIdLatest, picLatest>>

(* frameId == mLastFrameId, where two old ids may be the same or not.      *)
MayBeDecoded == rIdLatest = lastIdLatest
MayBeNew == ~(rIdLatest /\ lastIdLatest)

(* The id onDraw remembers with the picture it decoded.                    *)
(* Mutant: it asks the camera for the id after decoding.                   *)
DecodedId_AskedAgain == TRUE
DecodedId == rIdLatest

(* The thread is done with the frame.  onDraw decodes a JPEG into          *)
(* kRgb565Buf when its id is not the one it decoded last.                  *)
UseFrame ==
  /\ pc = "using"
  /\ \/ /\ ~waits /\ rJpeg /\ MayBeNew
        /\ lastIdLatest' = DecodedId
        /\ picLatest' = rLatest
     \/ /\ waits \/ ~rJpeg \/ MayBeDecoded
        /\ UNCHANGED <<lastIdLatest, picLatest>>
  /\ ForgetFrame
  /\ UNCHANGED ringVars

Reader == WaitFrame \/ ReadLen \/ ReadJpeg \/ ReadId \/ ReadFrame \/ UseFrame
NextReaders == Capture \/ Reader
SpecReaders == InitReaders /\ [][NextReaders]_vars

-----------------------------------------------------------------------------
ReadersTypeOK ==
  /\ start \in Nat /\ wr \in Nat /\ len \in Nat /\ rLen \in Nat
  /\ frame \in Int /\ rFrame \in Int /\ rEnd \in Int /\ age \in 0..MaxAge
  /\ pc \in {"idle", "len", "jpeg", "id", "frame", "using"}

(* What a thread reads, sends or writes lies inside the camera buffer,     *)
(* even when an interrupt between its reads gave it the length of one      *)
(* frame and the address of another.                                       *)
ReadsInBuffer == pc = "using" => rFrame + rLen <= BufSize

(* A frame a thread holds is not overwritten before the ring comes round:  *)
(* the buffer has room for it, for the regions that end meanwhile, for the *)
(* one that is growing, for the largest frame that must still fit, and for *)
(* the chunk that an overflow skips.  Nothing else protects a frame that   *)
(* is drawn, sent or saved.  (With the buffer of usbMsc/main.cpp: for      *)
(* three frame times.)                                                     *)
HeldFrameSurvives ==
  pc = "using" /\ (age + 3) * MaxFrame + XferSize <= BufSize => ~overwritten

(* The display does not stick on an old picture: when onDraw remembers the *)
(* id of the latest frame, so that it will not decode it again, what it    *)
(* decoded was the latest frame.                                           *)
DisplayNotStuck == lastIdLatest => picLatest
=============================================================================
