------------------------------ MODULE Recorder ------------------------------
(***************************************************************************)
(* cApp::saveThread of usbMsc/main.cpp: snapshots and movies of the camera *)
(* written to the SD card, and formatting it, at the request of the touch  *)
(* thread and of the button.  All files share the file object gFile.       *)
(*                                                                         *)
(* The save thread has a higher priority than the touch and app threads,   *)
(* and each of its steps runs from one blocking call to the next: the wait *)
(* for a frame, and the FatFs calls, which wait for the SD card.  The      *)
(* other threads run in between, and the camera's interrupts also within.  *)
(***************************************************************************)
EXTENDS FatFile, FiniteSets

CONSTANTS
  MovieFrames,  \* 500
  MaxInputs     \* how often the user touches a box or presses the button

ASSUME RecorderAssumption ==
  /\ MovieFrames \in Nat \ {0} /\ MaxInputs \in Nat \ {0}
  /\ Names = ({"jpg", "bmp"} \X (0..(MaxInputs - 1)))
              \cup ({"mjpeg"} \X (1..MaxInputs))
  /\ Data = {"full", "small", "bmp", "jpeg", "rgb"}

VARIABLES
  mTakeChanged, mTakeMovieChanged, mFormatChanged, mJpegChanged,
  mjpgFrameNum, mjpgFileNum, jpgFrameNum, bmpFrameNum,
  mHeader,      \* the camera's header buffer: "full", "small" or "bmp"
  mJpegFrame,   \* the camera's latest frame is a JPEG
  due,          \* format changes of the sensor that are still to come
  savePc,       \* the call the save thread waits in, or "fault": what the
                \* program does from here on is not defined
  saveOp,       \* which branch of saveThread it is in
  saveName, saveFrame,   \* the branch's file name and frame
  touchPc,      \* "mode": the touch thread is in capture() or preview()
  inputs,       \* what the user may still do
  switches,     \* history: the calls of capture() and preview()
  mixed         \* history: the snapshots given a format and a frame of two

flagVars == <<mTakeChanged, mTakeMovieChanged, mFormatChanged, mJpegChanged>>
numVars  == <<mjpgFrameNum, mjpgFileNum, jpgFrameNum, bmpFrameNum>>
saveVars == <<savePc, saveOp, saveName, saveFrame>>
camVars  == <<mJpegFrame, due, switches, mixed>>
vars == <<fatVars, flagVars, numVars, saveVars, mHeader, camVars, touchPc,
          inputs>>

Init ==
  /\ FatInit /\ gFile.name = <<"jpg", 0>>
  /\ mTakeChanged = FALSE /\ mTakeMovieChanged = FALSE
  /\ mFormatChanged = FALSE /\ mJpegChanged = FALSE
  /\ mjpgFrameNum = 0 /\ mjpgFileNum = 1 /\ jpgFrameNum = 0 /\ bmpFrameNum = 0
  /\ mHeader = "full" /\ mJpegFrame = FALSE
  /\ due = 0 /\ switches = 0 /\ mixed = {}
  /\ savePc = "loop" /\ saveOp = "none"
  /\ saveName = <<"jpg", 0>> /\ saveFrame = "jpeg"
  /\ touchPc = "poll" /\ inputs = MaxInputs

-----------------------------------------------------------------------------
(* BSP_PB_GetState(BUTTON_KEY): what the pin is at that moment.            *)
ReadButton(pressed) ==
  IF pressed THEN inputs > 0 /\ inputs' = inputs - 1 ELSE UNCHANGED inputs

(* Something is to be saved.  The button is only read if nothing else is.  *)
(* Mutant: a snapshot alone is not enough.                                 *)
Requested_MovieOnly == mTakeMovieChanged
Requested == mTakeChanged \/ mTakeMovieChanged

(* The card is to be formatted.  Mutant: not while a file is open.         *)
MayFormat_NoOpenFile == mFormatChanged /\ ~gFile.fs
MayFormat == mFormatChanged

(* The top of the loop.                                                    *)
SaveLoop ==
  /\ savePc = "loop"
  /\ \/ /\ Requested /\ savePc' = "getFrame"
        /\ UNCHANGED <<mFormatChanged, inputs>>
     \/ /\ ~Requested /\ ReadButton(TRUE)
        /\ savePc' = "getFrame" /\ UNCHANGED mFormatChanged
     \/ /\ ~Requested /\ ReadButton(FALSE) /\ MayFormat
        /\ mFormatChanged' = FALSE /\ savePc' = "mkfs"
  /\ UNCHANGED <<fatVars, mTakeChanged, mTakeMovieChanged, mJpegChanged,
                 numVars, saveOp, saveName, saveFrame, mHeader, camVars,
                 touchPc>>

(* osDelay(20): nothing to do.                                             *)
SaveDelay ==
  /\ savePc = "loop" /\ ~Requested /\ ~MayFormat
  /\ UNCHANGED vars

(* getNextFrame gave no frame.                                             *)
SaveNoFrame ==
  /\ savePc = "getFrame"
  /\ savePc' = "loop"
  /\ UNCHANGED <<fatVars, flagVars, numVars, saveOp, saveName, saveFrame,
                 mHeader, camVars, touchPc, inputs>>

(* The sensor's first frame of the other format, in an interrupt.  It      *)
(* changes over at most once for each capture() or preview().              *)
FrameOfOtherFormat ==
  /\ due > 0 /\ due' = due - 1
  /\ mJpegFrame' = ~mJpegFrame

(* The number of the next file.  Mutant: files are not numbered.           *)
NextNum_Same(n) == n
NextNum(n) == n + 1

(* "save JFIF .jpg", "save rgb565 .bmp"                                    *)
BeginSnapshot(jpeg) ==
  /\ mTakeChanged' = FALSE
  /\ saveOp' = "snap" /\ savePc' = "open"
  /\ \/ /\ jpeg /\ mHeader' = "full"
        /\ saveName' = <<"jpg", jpgFrameNum>>
        /\ jpgFrameNum' = NextNum(jpgFrameNum) /\ UNCHANGED bmpFrameNum
     \/ /\ ~jpeg /\ mHeader' = "bmp"
        /\ saveName' = <<"bmp", bmpFrameNum>>
        /\ bmpFrameNum' = NextNum(bmpFrameNum) /\ UNCHANGED jpgFrameNum
  /\ UNCHANGED <<mTakeMovieChanged, mjpgFrameNum, mjpgFileNum>>

(* "create .mjpeg"                                                         *)
BeginMovie ==
  /\ mjpgFrameNum = 0
  /\ mjpgFrameNum' = 1
  /\ saveName' = <<"mjpeg", mjpgFileNum>>
  /\ mjpgFileNum' = NextNum(mjpgFileNum)
  /\ mHeader' = "full"
  /\ saveOp' = "create" /\ savePc' = "open"
  /\ UNCHANGED <<mTakeChanged, mTakeMovieChanged, jpgFrameNum, bmpFrameNum>>

(* "append .mjpeg frame"                                                   *)
BeginAppend ==
  /\ 0 < mjpgFrameNum /\ mjpgFrameNum < MovieFrames
  /\ mjpgFrameNum' = mjpgFrameNum + 1
  /\ mHeader' = "small"
  /\ saveOp' = "append" /\ savePc' = "writeHeader"
  /\ UNCHANGED <<mTakeChanged, mTakeMovieChanged, mjpgFileNum, jpgFrameNum,
                 bmpFrameNum, saveName>>

(* "close .mjpeg"                                                          *)
BeginClose ==
  /\ mjpgFrameNum >= MovieFrames
  /\ mTakeMovieChanged' = FALSE
  /\ mjpgFrameNum' = mjpgFrameNum + 1
  /\ saveOp' = "close" /\ savePc' = "close"
  /\ UNCHANGED <<mTakeChanged, mjpgFileNum, jpgFrameNum, bmpFrameNum, mHeader,
                 saveName>>

(* The rest of the movie branches.  Mutant: the frames are not counted.    *)
ContinueMovie_NotCounted ==
  \/ BeginMovie
  \/ /\ 0 < mjpgFrameNum /\ mHeader' = "small"
     /\ saveOp' = "append" /\ savePc' = "writeHeader"
     /\ UNCHANGED <<mTakeChanged, mTakeMovieChanged, numVars, saveName>>
ContinueMovie == BeginMovie \/ BeginAppend \/ BeginClose

(* getNextFrame gave a frame: it reads the format and then the pointer,   *)
(* and a frame may be published in between.  The button is read again.     *)
SaveGotFrame ==
  /\ savePc = "getFrame"
  /\ FrameOfOtherFormat \/ UNCHANGED <<mJpegFrame, due>>
  /\ saveFrame' = IF mJpegFrame' THEN "jpeg" ELSE "rgb"
  /\ \E pressed \in BOOLEAN :
       /\ ReadButton(pressed)
       /\ \/ (pressed \/ mTakeChanged) /\ BeginSnapshot(mJpegFrame)
          \/ ~(pressed \/ mTakeChanged) /\ ContinueMovie
  /\ mixed' = IF saveOp' = "snap" /\ mJpegFrame' # mJpegFrame
              THEN mixed \cup {saveName'} ELSE mixed
  /\ UNCHANGED <<fatVars, mFormatChanged, mJpegChanged, switches, touchPc>>

branchVars == <<saveOp, saveName, saveFrame>>
othersVars == <<flagVars, numVars, mHeader, camVars, touchPc, inputs>>

(* The branch ends, and its locals go out of scope.                        *)
EndBranch ==
  /\ savePc' = "loop" /\ saveOp' = "none"
  /\ saveName' = <<"jpg", 0>> /\ saveFrame' = "jpeg"

(* saveNumFile, createNumFile: f_open                                      *)
SaveOpen ==
  /\ savePc = "open"
  /\ \/ FOpenSucceeds(saveName) /\ savePc' = "writeHeader"
        /\ UNCHANGED branchVars
     \/ FOpenFails(saveName) /\ EndBranch
  /\ UNCHANGED othersVars

(* f_write of the header: what the buffer holds by then.                   *)
SaveWriteHeader ==
  /\ savePc = "writeHeader"
  /\ FWrite(mHeader)
  /\ savePc' = "writeFrame"
  /\ UNCHANGED <<branchVars, othersVars>>

SaveWriteFrame ==
  /\ savePc = "writeFrame"
  /\ FWrite(saveFrame)
  /\ \/ saveOp = "snap" /\ savePc' = "close" /\ UNCHANGED branchVars
     \/ saveOp # "snap" /\ EndBranch
  /\ UNCHANGED othersVars

SaveClose ==
  /\ savePc = "close"
  /\ FClose
  /\ EndBranch
  /\ UNCHANGED othersVars

SaveMkfs ==
  /\ savePc = "mkfs"
  /\ FMkfs
  /\ savePc' = "mount"
  /\ UNCHANGED <<branchVars, othersVars>>

(* f_setlabel and f_mount                                                  *)
SaveMount ==
  /\ savePc = "mount"
  /\ FMount
  /\ EndBranch
  /\ UNCHANGED othersVars

SaveFile == SaveOpen \/ SaveWriteHeader \/ SaveWriteFrame \/ SaveClose
            \/ SaveMkfs \/ SaveMount

-----------------------------------------------------------------------------
(* pollTouch: the user presses one of the boxes that are there.            *)
TouchPress(boxes) ==
  /\ touchPc = "poll"
  /\ inputs > 0 /\ inputs' = inputs - 1
  /\ \E box \in boxes :
       /\ mTakeChanged' = (mTakeChanged \/ box = "snap")
       /\ mTakeMovieChanged' = (mTakeMovieChanged \/ box = "movie")
       /\ mFormatChanged' = (mFormatChanged \/ box = "format")
       /\ mJpegChanged' = (mJpegChanged \/ box = "jpeg")
  /\ UNCHANGED <<fatVars, numVars, saveVars, mHeader, camVars, touchPc>>

(* mJpegChanged: capture() or preview(), and then a new movie.             *)
TouchJpeg ==
  /\ touchPc = "poll" /\ mJpegChanged
  /\ mJpegChanged' = FALSE
  /\ touchPc' = "mode"
  /\ due' = due + 1 /\ switches' = switches + 1
  /\ UNCHANGED <<fatVars, mTakeChanged, mTakeMovieChanged, mFormatChanged,
                 numVars, saveVars, mHeader, mJpegFrame, mixed, inputs>>

TouchJpegDone ==
  /\ touchPc = "mode"
  /\ mjpgFrameNum' = 0
  /\ touchPc' = "poll"
  /\ UNCHANGED <<fatVars, flagVars, mjpgFileNum, jpgFrameNum, bmpFrameNum,
                 saveVars, mHeader, camVars, inputs>>

(* The camera's interrupt, other than between the reads of getNextFrame.   *)
OtherFormat ==
  /\ FrameOfOtherFormat
  /\ UNCHANGED <<fatVars, flagVars, numVars, saveVars, mHeader, switches,
                 mixed, touchPc, inputs>>

(* onDraw decoding a JPEG, or the server sending a JPEG or an RGB565       *)
(* frame, makes its header in the same buffer.                             *)
OtherHeader ==
  /\ mHeader' \in {"full", "bmp"}
  /\ UNCHANGED <<fatVars, flagVars, numVars, saveVars, camVars, touchPc,
                 inputs>>

-----------------------------------------------------------------------------
RecorderTypeOK ==
  /\ mTakeChanged \in BOOLEAN /\ mTakeMovieChanged \in BOOLEAN
  /\ mFormatChanged \in BOOLEAN /\ mJpegChanged \in BOOLEAN
  /\ mjpgFrameNum \in Nat /\ mjpgFileNum \in 1..(MaxInputs + 1)
  /\ jpgFrameNum \in 0..MaxInputs /\ bmpFrameNum \in 0..MaxInputs
  /\ mHeader \in {"full", "small", "bmp"}
  /\ savePc \in {"loop", "getFrame", "open", "writeHeader", "writeFrame",
                 "close", "mkfs", "mount", "fault"}
  /\ saveOp \in {"none", "snap", "create", "append", "close"}
  /\ saveName \in Names /\ saveFrame \in {"jpeg", "rgb"}
  /\ touchPc \in {"poll", "mode"} /\ inputs \in 0..MaxInputs
  /\ mJpegFrame \in BOOLEAN /\ due \in Nat /\ switches \in Nat
  /\ mixed \subseteq Names

(* What is saved stays: after its file object let go of it, a file is not  *)
(* changed, truncated or written again by a later snapshot or movie, until *)
(* the card is formatted.                                                  *)
SavedFilesStay ==
  [][\A n \in Names :
       card[n] # Absent /\ ~(Valid /\ gFile.name = n) /\ savePc # "mkfs"
         => card'[n] = card[n]]_vars

(* A snapshot on a card that had no error is one header and one frame: no  *)
(* movie frame finds its way into it, though they share the file object.   *)
(* The frame is of the format the file's name says, unless the camera's    *)
(* first frame of the other format came between two of getNextFrame's      *)
(* reads; each capture() or preview() mixes up one snapshot at most.       *)
(* (The length, which is read first, may in the same way be that of the    *)
(* frame before: CameraReaders shows how far that goes.)                   *)
Format(n) == IF n[1] = "jpg" THEN "jpeg" ELSE "rgb"
SavedWhole ==
  faults = MaxFaults =>
    \A n \in Names :
      n[1] # "mjpeg" /\ card[n] # Absent /\ ~(Valid /\ gFile.name = n)
        => Len(card[n]) = 2 /\ (card[n][2] = Format(n) \/ n \in mixed)
SnapshotIsWhole == SavedWhole /\ Cardinality(mixed) <= switches

(* A press of the snap box is served, movie or not, as long as the start   *)
(* of the program has not been overtaken.                                  *)
SnapshotServed == mTakeChanged ~> ~mTakeChanged \/ savePc = "fault"

(* A movie ends, and the card can be formatted, once the user stops        *)
(* pressing: also when a jpeg toggle started the movie anew.               *)
MovieEnds == mTakeMovieChanged ~> ~mTakeMovieChanged \/ savePc = "fault"
FormatServed == mFormatChanged ~> ~mFormatChanged \/ savePc = "fault"

(* "append .mjpeg frame": the frame is written to an open movie.           *)
AppendsToMovie ==
  [][saveOp = "append" /\ (SaveWriteHeader \/ SaveWriteFrame)
       => Valid /\ gFile.name[1] = "mjpeg"]_vars

(* "save JFIF .jpg": the file starts with the JFIF header.                 *)
SavedJpgIsJfif ==
  \A n \in Names :
    n[1] = "jpg" /\ card[n] # Absent /\ card[n] # << >> => card[n][1] = "full"
=============================================================================
