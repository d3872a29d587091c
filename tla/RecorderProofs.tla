--------------------------- MODULE RecorderProofs ---------------------------
(***************************************************************************)
(* Proofs about StartUp and its Recorder: what is saved on the card is     *)
(* whole and stays, and no box asks for what is not there, for any number  *)
(* of inputs and disk errors and movies of any length.                     *)
(***************************************************************************)
EXTENDS StartUp, FatFileProofs, FiniteSetTheorems

(* The steps of the save and touch threads and of what they work with, the *)
(* start of the program left aside.                                        *)
Fault ==
  /\ savePc' = "fault"
  /\ UNCHANGED <<fatVars, flagVars, numVars, saveOp, saveName, saveFrame,
                 mHeader, camVars, touchPc, inputs>>
Asks == SaveLoop \/ SaveNoFrame \/ SaveGotFrame
Touches == (\E boxes : TouchPress(boxes)) \/ TouchJpeg \/ TouchJpegDone
RecNext == Asks \/ SaveFile \/ Touches \/ OtherFormat \/ OtherHeader \/ Fault

-----------------------------------------------------------------------------
(* An input pays for each request and each file: a snapshot for its press  *)
(* of the box or the button, a movie for the jpeg toggle that allowed it,  *)
(* the first one for what made the save thread ask for a frame.            *)
One(b) == IF b THEN 1 ELSE 0
Asked == mTakeChanged \/ mTakeMovieChanged \/ savePc = "getFrame"
Toggles == mJpegChanged \/ touchPc = "mode"

Paid ==
  /\ jpgFrameNum + bmpFrameNum + One(mTakeChanged) <= MaxInputs - inputs
  /\ mjpgFileNum - 1 - One(mjpgFrameNum # 0) + One(Toggles) + One(Asked)
       <= MaxInputs - inputs
  /\ mJpegChanged => touchPc = "poll"

(* What the branch of saveThread is about.                                 *)
Branch ==
  /\ savePc \in {"loop", "getFrame", "mkfs", "mount"} => saveOp = "none"
  /\ savePc = "open" => saveOp \in {"snap", "create"}
  /\ savePc \in {"writeHeader", "writeFrame"} =>
       saveOp \in {"snap", "create", "append"}
  /\ savePc = "close" => saveOp \in {"snap", "close"}
  /\ saveOp = "snap" =>
       /\ saveName[1] # "mjpeg"
       /\ saveFrame = Format(saveName) \/ saveName \in mixed
  /\ saveOp = "create" => saveName[1] = "mjpeg"

(* A file on the card has a number that is not given again, and that of    *)
(* the file about to be made is new.                                       *)
Given(n) ==
  \/ n[1] = "jpg" /\ n[2] < jpgFrameNum
  \/ n[1] = "bmp" /\ n[2] < bmpFrameNum
  \/ n[1] = "mjpeg" /\ n[2] < mjpgFileNum
Numbered ==
  /\ \A n \in Names : card[n] # Absent => Given(n)
  /\ savePc = "open" => Given(saveName) /\ card[saveName] = Absent

(* On a card that had no error, an open file that is not a movie is the    *)
(* snapshot being saved, and has the pieces written so far.                *)
Writing == savePc \in {"writeHeader", "writeFrame", "close"}
SnapIsOpen ==
  faults = MaxFaults =>
    /\ Valid /\ gFile.name[1] # "mjpeg" =>
         savePc = "fault" \/ (saveOp = "snap" /\ Writing)
    /\ saveOp = "snap" /\ Writing =>
         /\ Valid /\ ~gFile.err /\ gFile.name = saveName
         /\ savePc = "writeHeader" => Len(gFile.data) = 0
         /\ savePc = "writeFrame" => Len(gFile.data) = 1
         /\ savePc = "close" =>
              Len(gFile.data) = 2 /\ gFile.data[2] = saveFrame

(* A switch pays for the change of format that it makes, and that for the  *)
(* snapshot it came across.                                                *)
Mixes == IsFiniteSet(mixed) /\ Cardinality(mixed) + due <= switches

RecInv ==
  /\ FatInv /\ RecorderTypeOK /\ Paid /\ Branch /\ Numbered
  /\ SnapIsOpen /\ SavedWhole /\ Mixes

-----------------------------------------------------------------------------
(* Where run() is and what it has made; a box needs the camera, and those  *)
(* after the first one the card.                                           *)
UpTypeOK ==
  /\ boot \in {"mount", "new", "init", "boxes", "splash", "loop"}
  /\ mMounted \in BOOLEAN /\ mCam \in {"null", "made", "ready"}
  /\ mBoxes \in 0..Len(Menu)

Started ==
  /\ boot \in {"mount", "new", "init"} => mBoxes = 0 /\ mCam # "ready"
  /\ boot \in {"boxes", "splash", "loop"} => mCam = "ready"
  /\ boot = "boxes" => mBoxes < (IF mMounted THEN Len(Menu) ELSE 1)
  /\ ~mMounted => mBoxes <= 1

UpInv == UpTypeOK /\ Started /\ RequestsAreSafe
-----------------------------------------------------------------------------
(* The names are those of RecorderAssumption.                              *)
LEMMA NamesType ==
  /\ \A k \in 0..(MaxInputs - 1) :
       <<"jpg", k>> \in Names /\ <<"bmp", k>> \in Names
  /\ \A k \in 1..MaxInputs : <<"mjpeg", k>> \in Names
  /\ \A n \in Names : n[1] \in {"jpg", "bmp", "mjpeg"} /\ n[2] \in Nat
BY RecorderAssumption

(* What is written is data.                                                *)
LEMMA DataType == {"full", "small", "bmp", "jpeg", "rgb"} \subseteq Data
BY RecorderAssumption

(* The steps of StartUp are steps of the threads, or leave them alone.     *)
LEMMA UpStep == [UpNext]_upVars => [RecNext]_vars
<1> SUFFICES ASSUME UpNext \/ UNCHANGED upVars PROVE RecNext \/ UNCHANGED vars
  OBVIOUS
<1> USE DEF RecNext, Asks, Touches
<1>1. CASE Boot
  BY <1>1 DEF Boot, Mount, MakeCamera, AddBox, EndSplash
<1>2. CASE UpSaveThread
  BY <1>2 DEF UpSaveThread, UpSaveLoop, UpSaveDelay, UpSaveNoFrame,
     UpSaveGotFrame, UpSaveFile, UsesTooEarly, SaveDelay, Fault
<1>3. CASE UpTouchPress \/ UpTouchJpeg \/ UpTouchJpegDone
  BY <1>3 DEF UpTouchPress, UpTouchJpeg, UpTouchJpegDone
<1>4. CASE UpOtherFormat \/ UpOtherHeader \/ ServesTooEarly
  BY <1>4 DEF UpOtherFormat, UpOtherHeader, ServesTooEarly, Fault
<1>5. CASE Ended \/ UNCHANGED upVars
  BY <1>5 DEF Ended, upVars
<1> QED
  BY <1>1, <1>2, <1>3, <1>4, <1>5 DEF UpNext, Running

(* What the steps that are not about files leave alone.                    *)
LEMMA NoFileStep ==
  ASSUME Asks \/ Touches \/ OtherFormat \/ OtherHeader \/ Fault
         \/ UNCHANGED vars
  PROVE  UNCHANGED fatVars
BY DEF Asks, SaveLoop, SaveNoFrame, SaveGotFrame, Touches, TouchPress,
   TouchJpeg, TouchJpegDone, OtherFormat, OtherHeader, Fault, vars

(* The steps that are: they are those of FatFile.                          *)
LEMMA FileStep ==
  ASSUME RecorderTypeOK, SaveFile
  PROVE  FatNext
<1>1. saveName \in Names /\ mHeader \in Data /\ saveFrame \in Data
  BY DataType DEF RecorderTypeOK
<1>2. CASE SaveOpen
  BY <1>1, <1>2 DEF SaveOpen, FatNext, FOpen
<1>3. CASE SaveWriteHeader
  BY <1>1, <1>3 DEF SaveWriteHeader, FatNext
<1>4. CASE SaveWriteFrame
  BY <1>1, <1>4 DEF SaveWriteFrame, FatNext
<1>5. CASE SaveClose \/ SaveMkfs \/ SaveMount
  BY <1>5 DEF SaveClose, SaveMkfs, SaveMount, FatNext
<1> QED
  BY <1>2, <1>3, <1>4, <1>5 DEF SaveFile

LEMMA FatStep ==
  ASSUME RecorderTypeOK, [RecNext]_vars
  PROVE  [FatNext]_fatVars
BY NoFileStep, FileStep DEF RecNext

LEMMA FatInvKept ==
  ASSUME RecorderTypeOK, FatInv, [RecNext]_vars
  PROVE  FatInv'
BY FatStep, FatInvStep

-----------------------------------------------------------------------------
(* The types, of the flags and of the rest.                                *)
FlagsTyped ==
  /\ mTakeChanged \in BOOLEAN /\ mTakeMovieChanged \in BOOLEAN
  /\ mFormatChanged \in BOOLEAN /\ mJpegChanged \in BOOLEAN
ValuesTyped ==
  /\ mjpgFrameNum \in Nat /\ mjpgFileNum \in 1..(MaxInputs + 1)
  /\ jpgFrameNum \in 0..MaxInputs /\ bmpFrameNum \in 0..MaxInputs
  /\ mHeader \in {"full", "small", "bmp"}
  /\ savePc \in {"loop", "getFrame", "open", "writeHeader", "writeFrame",
                 "close", "mkfs", "mount", "fault"}
  /\ saveOp \in {"none", "snap", "create", "append", "close"}
  /\ saveName \in Names /\ saveFrame \in {"jpeg", "rgb"}
  /\ touchPc \in {"poll", "mode"} /\ inputs \in 0..MaxInputs
CamTyped ==
  /\ mJpegFrame \in BOOLEAN /\ due \in Nat /\ switches \in Nat
  /\ mixed \subseteq Names

LEMMA Typed == RecorderTypeOK <=> FlagsTyped /\ ValuesTyped /\ CamTyped
BY DEF RecorderTypeOK, FlagsTyped, ValuesTyped, CamTyped

LEMMA FlagsKept ==
  ASSUME FlagsTyped, [RecNext]_vars
  PROVE  FlagsTyped'
<1> USE DEF FlagsTyped
<1>1. CASE Asks
  BY <1>1 DEF Asks, SaveLoop, SaveNoFrame, SaveGotFrame, BeginSnapshot,
     ContinueMovie, BeginMovie, BeginAppend, BeginClose, flagVars
<1>2. CASE SaveFile
  BY <1>2 DEF SaveFile, SaveOpen, SaveWriteHeader, SaveWriteFrame, SaveClose,
     SaveMkfs, SaveMount, othersVars, flagVars
<1>3. CASE Touches
  BY <1>3 DEF Touches, TouchPress, TouchJpeg, TouchJpegDone, flagVars
<1>4. CASE OtherFormat \/ OtherHeader \/ Fault \/ UNCHANGED vars
  BY <1>4 DEF OtherFormat, OtherHeader, Fault, vars, flagVars
<1> QED
  BY <1>1, <1>2, <1>3, <1>4 DEF RecNext

(* The number of a new file is one that the names have.                    *)
LEMMA NewNumber ==
  ASSUME FlagsTyped, ValuesTyped, Paid, SaveGotFrame
  PROVE  /\ jpgFrameNum' \in 0..MaxInputs /\ bmpFrameNum' \in 0..MaxInputs
         /\ mjpgFileNum' \in 1..(MaxInputs + 1)
         /\ saveName' \in Names
<1> USE RecorderAssumption DEF FlagsTyped, ValuesTyped, Paid, One
<1>1. PICK pressed \in BOOLEAN :
        /\ ReadButton(pressed)
        /\ \/ (pressed \/ mTakeChanged) /\ BeginSnapshot(mJpegFrame)
           \/ ~(pressed \/ mTakeChanged) /\ ContinueMovie
  BY DEF SaveGotFrame
<1>2. savePc = "getFrame"
  BY DEF SaveGotFrame
<1>3. pressed => inputs > 0
  BY <1>1 DEF ReadButton
<1>4. CASE (pressed \/ mTakeChanged) /\ BeginSnapshot(mJpegFrame)
  <2>1. jpgFrameNum \in 0..(MaxInputs - 1) /\ bmpFrameNum \in 0..(MaxInputs - 1)
    BY <1>3, <1>4
  <2> QED
    BY <1>4, <2>1, NamesType DEF BeginSnapshot, NextNum
<1>5. CASE ~(pressed \/ mTakeChanged) /\ BeginMovie
  <2>1. mjpgFileNum \in 1..MaxInputs
    BY <1>2, <1>5 DEF BeginMovie, Toggles, Asked
  <2> QED
    BY <1>5, <2>1, NamesType DEF BeginMovie, NextNum
<1>6. CASE BeginAppend \/ BeginClose
  BY <1>6 DEF BeginAppend, BeginClose
<1> QED
  BY <1>1, <1>4, <1>5, <1>6 DEF ContinueMovie

LEMMA ValuesKept ==
  ASSUME FlagsTyped, ValuesTyped, Paid, [RecNext]_vars
  PROVE  ValuesTyped'
<1> USE RecorderAssumption DEF ValuesTyped
<1>1. CASE SaveLoop \/ SaveNoFrame
  BY <1>1 DEF SaveLoop, SaveNoFrame, ReadButton, numVars
<1>2. CASE SaveGotFrame
  <2>1. inputs' \in 0..MaxInputs /\ touchPc' = touchPc
    BY <1>2 DEF SaveGotFrame, ReadButton
  <2>2. /\ mjpgFrameNum' \in Nat /\ mHeader' \in {"full", "small", "bmp"}
        /\ savePc' \in {"open", "writeHeader", "close"}
        /\ saveOp' \in {"snap", "create", "append", "close"}
        /\ saveFrame' \in {"jpeg", "rgb"}
    BY <1>2 DEF SaveGotFrame, BeginSnapshot, ContinueMovie, BeginMovie,
       BeginAppend, BeginClose
  <2> QED
    BY <1>2, <2>1, <2>2, NewNumber
<1>3. CASE SaveFile
  <2>1. UNCHANGED <<mjpgFrameNum, mjpgFileNum, jpgFrameNum, bmpFrameNum,
                    mHeader, touchPc, inputs>>
    BY <1>3 DEF SaveFile, SaveOpen, SaveWriteHeader, SaveWriteFrame, SaveClose,
       SaveMkfs, SaveMount, othersVars, numVars
  <2>2. UNCHANGED branchVars \/ EndBranch
    BY <1>3 DEF SaveFile, SaveOpen, SaveWriteHeader, SaveWriteFrame, SaveClose,
       SaveMkfs, SaveMount
  <2>3. savePc' \in {"loop", "writeHeader", "writeFrame", "close", "mount"}
    BY <1>3 DEF SaveFile, SaveOpen, SaveWriteHeader, SaveWriteFrame, SaveClose,
       SaveMkfs, SaveMount, EndBranch
  <2>4. <<"jpg", 0>> \in Names
    BY NamesType
  <2> QED
    BY <2>1, <2>2, <2>3, <2>4 DEF branchVars, EndBranch
<1>4. CASE Touches
  BY <1>4 DEF Touches, TouchPress, TouchJpeg, TouchJpegDone, numVars, saveVars
<1>5. CASE OtherFormat \/ OtherHeader \/ Fault \/ UNCHANGED vars
  BY <1>5 DEF OtherFormat, OtherHeader, Fault, vars, numVars, saveVars
<1> QED
  BY <1>1, <1>2, <1>3, <1>4, <1>5 DEF RecNext, Asks

LEMMA PaidKept ==
  ASSUME FlagsTyped, ValuesTyped, Paid, [RecNext]_vars
  PROVE  Paid'
<1> USE RecorderAssumption
    DEF FlagsTyped, ValuesTyped, Paid, One, Asked, Toggles
<1>1. CASE SaveLoop
  BY <1>1 DEF SaveLoop, ReadButton, Requested, numVars
<1>2. CASE SaveNoFrame
  BY <1>2 DEF SaveNoFrame, flagVars, numVars
<1>3. CASE SaveGotFrame
  BY <1>3 DEF SaveGotFrame, ReadButton, BeginSnapshot, NextNum, ContinueMovie,
     BeginMovie, BeginAppend, BeginClose
<1>4. CASE SaveFile
  BY <1>4 DEF SaveFile, SaveOpen, SaveWriteHeader, SaveWriteFrame, SaveClose,
     SaveMkfs, SaveMount, EndBranch, othersVars, flagVars, numVars
<1>5. ASSUME NEW boxes, TouchPress(boxes) PROVE Paid'
  BY <1>5 DEF TouchPress, numVars, saveVars
<1>6. CASE TouchJpeg \/ TouchJpegDone
  BY <1>6 DEF TouchJpeg, TouchJpegDone, flagVars, numVars, saveVars
<1>7. CASE OtherFormat \/ OtherHeader \/ Fault \/ UNCHANGED vars
  BY <1>7 DEF OtherFormat, OtherHeader, Fault, vars, flagVars, numVars, saveVars
<1> QED
  BY <1>1, <1>2, <1>3, <1>4, <1>5, <1>6, <1>7 DEF RecNext, Asks, Touches

-----------------------------------------------------------------------------
(* A snapshot that was mixed up stays known as one.                        *)
LEMMA MixedGrows ==
  ASSUME [RecNext]_vars
  PROVE  mixed \subseteq mixed'
<1>1. CASE Asks
  BY <1>1 DEF Asks, SaveLoop, SaveNoFrame, SaveGotFrame, camVars
<1>2. CASE SaveFile
  BY <1>2 DEF SaveFile, SaveOpen, SaveWriteHeader, SaveWriteFrame, SaveClose,
     SaveMkfs, SaveMount, othersVars, camVars
<1>3. CASE Touches \/ OtherFormat \/ OtherHeader \/ Fault \/ UNCHANGED vars
  BY <1>3 DEF Touches, TouchPress, TouchJpeg, TouchJpegDone, OtherFormat,
     OtherHeader, Fault, vars, camVars
<1> QED
  BY <1>1, <1>2, <1>3 DEF RecNext

(* What is known of the camera keeps its types.                            *)
LEMMA CamKept ==
  ASSUME CamTyped, ValuesTyped', [RecNext]_vars
  PROVE  CamTyped'
<1> USE DEF CamTyped
<1>n. due \in Nat /\ due > 0 => due - 1 \in Nat
  BY DEF CamTyped
<1>1. CASE SaveGotFrame
  <2>1. mJpegFrame' \in BOOLEAN /\ due' \in Nat
    BY <1>n, <1>1 DEF SaveGotFrame, FrameOfOtherFormat
  <2>2. switches' = switches /\ mixed' \in {mixed, mixed \cup {saveName'}}
    BY <1>1 DEF SaveGotFrame
  <2> QED
    BY <2>1, <2>2 DEF ValuesTyped
<1>2. CASE SaveLoop \/ SaveNoFrame
  BY <1>2 DEF SaveLoop, SaveNoFrame, camVars
<1>3. CASE SaveFile
  BY <1>3 DEF SaveFile, SaveOpen, SaveWriteHeader, SaveWriteFrame, SaveClose,
     SaveMkfs, SaveMount, othersVars, camVars
<1>4. CASE Touches
  BY <1>4 DEF Touches, TouchPress, TouchJpeg, TouchJpegDone, camVars
<1>5. CASE OtherFormat
  BY <1>n, <1>5 DEF OtherFormat, FrameOfOtherFormat
<1>6. CASE OtherHeader \/ Fault \/ UNCHANGED vars
  BY <1>6 DEF OtherHeader, Fault, vars, camVars
<1> QED
  BY <1>1, <1>2, <1>3, <1>4, <1>5, <1>6 DEF RecNext, Asks

(* Each switch mixes up one snapshot at most.                              *)
LEMMA MixesKept ==
  ASSUME CamTyped, Mixes, [RecNext]_vars
  PROVE  Mixes'
<1> USE DEF CamTyped, Mixes
<1>c. Cardinality(mixed) \in Nat
  BY FS_CardinalityType
<1>1. CASE SaveGotFrame
  <2>1. switches' = switches
    BY <1>1 DEF SaveGotFrame
  <2>2. CASE UNCHANGED <<mJpegFrame, due>>
    <3>1. mixed' = mixed
      BY <1>1, <2>2 DEF SaveGotFrame
    <3> QED
      BY <2>1, <2>2, <3>1
  <2>3. CASE FrameOfOtherFormat
    <3>1. due > 0 /\ due' = due - 1
      BY <2>3 DEF FrameOfOtherFormat
    <3>2. mixed' = mixed \/ mixed' = mixed \cup {saveName'}
      BY <1>1 DEF SaveGotFrame
    <3>3. IsFiniteSet(mixed') /\ Cardinality(mixed') \in Nat
          /\ Cardinality(mixed') <= Cardinality(mixed) + 1
      <4> HIDE DEF CamTyped, Mixes
      <4>1. IsFiniteSet(mixed) /\ IsFiniteSet(mixed \cup {saveName'})
        BY FS_AddElement DEF Mixes
      <4>2. \/ Cardinality(mixed \cup {saveName'}) = Cardinality(mixed)
            \/ Cardinality(mixed \cup {saveName'}) = Cardinality(mixed) + 1
        BY <4>1, FS_AddElement
      <4> QED
        BY <1>c, <3>2, <4>1, <4>2
    <3> QED
      BY <1>c, <2>1, <3>1, <3>3
  <2> QED
    BY <1>1, <2>2, <2>3 DEF SaveGotFrame
<1>2. CASE SaveLoop \/ SaveNoFrame
  BY <1>2 DEF SaveLoop, SaveNoFrame, camVars
<1>3. CASE SaveFile
  BY <1>3 DEF SaveFile, SaveOpen, SaveWriteHeader, SaveWriteFrame, SaveClose,
     SaveMkfs, SaveMount, othersVars, camVars
<1>4. ASSUME NEW boxes, TouchPress(boxes) PROVE Mixes'
  BY <1>4 DEF TouchPress, camVars
<1>5. CASE TouchJpeg
  BY <1>c, <1>5 DEF TouchJpeg
<1>6. CASE TouchJpegDone
  BY <1>6 DEF TouchJpegDone, camVars
<1>7. CASE OtherFormat
  BY <1>c, <1>7 DEF OtherFormat, FrameOfOtherFormat
<1>8. CASE OtherHeader \/ Fault \/ UNCHANGED vars
  BY <1>8 DEF OtherHeader, Fault, vars, camVars
<1> QED
  BY <1>1, <1>2, <1>3, <1>4, <1>5, <1>6, <1>7, <1>8 DEF RecNext, Asks, Touches

-----------------------------------------------------------------------------
LEMMA BranchKept ==
  ASSUME Branch, [RecNext]_vars
  PROVE  Branch'
<1> USE MixedGrows DEF Branch, Format
<1>1. CASE SaveLoop \/ SaveNoFrame
  BY <1>1 DEF SaveLoop, SaveNoFrame
<1>2. CASE SaveGotFrame
  <2>1. CASE BeginSnapshot(mJpegFrame)
    BY <1>2, <2>1 DEF SaveGotFrame, BeginSnapshot
  <2>2. CASE ContinueMovie
    BY <1>2, <2>2 DEF SaveGotFrame, ContinueMovie, BeginMovie, BeginAppend,
       BeginClose
  <2> QED
    BY <1>2, <2>1, <2>2 DEF SaveGotFrame
<1>3. CASE SaveOpen
  BY <1>3 DEF SaveOpen, EndBranch, branchVars
<1>4. CASE SaveWriteHeader \/ SaveWriteFrame
  BY <1>4 DEF SaveWriteHeader, SaveWriteFrame, EndBranch, branchVars
<1>5. CASE SaveClose \/ SaveMkfs \/ SaveMount
  BY <1>5 DEF SaveClose, SaveMkfs, SaveMount, EndBranch, branchVars
<1>6. CASE Touches \/ OtherFormat \/ OtherHeader \/ Fault \/ UNCHANGED vars
  BY <1>6 DEF Touches, TouchPress, TouchJpeg, TouchJpegDone, OtherFormat,
     OtherHeader, Fault, vars, saveVars
<1> QED
  BY <1>1, <1>2, <1>3, <1>4, <1>5, <1>6 DEF RecNext, Asks, SaveFile

-----------------------------------------------------------------------------
(* Numbers are only given, never taken back.                               *)
LEMMA GivenStays ==
  ASSUME ValuesTyped, ValuesTyped', [RecNext]_vars, NEW n \in Names, Given(n)
  PROVE  Given(n)'
<1>1. /\ jpgFrameNum' >= jpgFrameNum /\ bmpFrameNum' >= bmpFrameNum
      /\ mjpgFileNum' >= mjpgFileNum
  <2> USE DEF ValuesTyped
  <2>1. CASE SaveLoop \/ SaveNoFrame
    <3>1. UNCHANGED <<mjpgFileNum, jpgFrameNum, bmpFrameNum>>
      BY <2>1 DEF SaveLoop, SaveNoFrame, numVars
    <3> QED
      BY <3>1
  <2>4. CASE SaveGotFrame
    <3>1. CASE BeginSnapshot(mJpegFrame)
      BY <3>1 DEF BeginSnapshot, NextNum
    <3>2. CASE ContinueMovie
      BY <3>2 DEF ContinueMovie, BeginMovie, BeginAppend, BeginClose, NextNum
    <3> QED
      BY <2>4, <3>1, <3>2 DEF SaveGotFrame
  <2>2. CASE SaveFile
    BY <2>2 DEF SaveFile, SaveOpen, SaveWriteHeader, SaveWriteFrame, SaveClose,
       SaveMkfs, SaveMount, othersVars, numVars
  <2>3. CASE Touches \/ OtherFormat \/ OtherHeader \/ Fault \/ UNCHANGED vars
    BY <2>3 DEF Touches, TouchPress, TouchJpeg, TouchJpegDone, OtherFormat,
       OtherHeader, Fault, vars, numVars
  <2> QED
    BY <2>1, <2>2, <2>3, <2>4 DEF RecNext, Asks
<1> QED
  BY <1>1, NamesType DEF Given, ValuesTyped

(* The file about to be made has a number that was not given before.       *)
LEMMA NewFileIsNew ==
  ASSUME ValuesTyped, ValuesTyped', Numbered, SaveGotFrame, savePc' = "open"
  PROVE  saveName' \in Names /\ Given(saveName)' /\ card[saveName'] = Absent
<1>1. \/ /\ saveName' = <<"jpg", jpgFrameNum>>
         /\ jpgFrameNum' = jpgFrameNum + 1
      \/ /\ saveName' = <<"bmp", bmpFrameNum>>
         /\ bmpFrameNum' = bmpFrameNum + 1
      \/ /\ saveName' = <<"mjpeg", mjpgFileNum>>
         /\ mjpgFileNum' = mjpgFileNum + 1
  BY DEF SaveGotFrame, BeginSnapshot, NextNum, ContinueMovie, BeginMovie,
     BeginAppend, BeginClose
<1>2. saveName' \in Names
  BY DEF ValuesTyped
<1>3. ~Given(saveName')
  BY <1>1 DEF Given, ValuesTyped
<1>4. Given(saveName)'
  BY <1>1 DEF Given, ValuesTyped
<1> QED
  BY <1>2, <1>3, <1>4 DEF Numbered

(* A step of FatFile changes the directory entry of the open file, makes   *)
(* that of the file it opens, or formats the card.                         *)
LEMMA CardStep ==
  ASSUME FatTypeOK, [RecNext]_vars, NEW n \in Names, card'[n] # card[n]
  PROVE  \/ savePc = "open" /\ n = saveName
         \/ savePc = "close" /\ Valid /\ gFile.name = n
         \/ savePc = "mkfs" /\ card'[n] = Absent
<1> USE DEF FatTypeOK
<1>1. CASE SaveOpen
  BY <1>1 DEF SaveOpen, FOpenSucceeds, FOpenFails
<1>2. CASE SaveWriteHeader \/ SaveWriteFrame
  BY <1>2 DEF SaveWriteHeader, SaveWriteFrame, FWrite
<1>3. CASE SaveClose
  BY <1>3 DEF SaveClose, FClose
<1>4. CASE SaveMkfs
  BY <1>4 DEF SaveMkfs, FMkfs
<1>5. CASE SaveMount
  BY <1>5 DEF SaveMount, FMount
<1>6. CASE ~SaveFile
  BY <1>6, NoFileStep DEF RecNext, fatVars
<1> QED
  BY <1>1, <1>2, <1>3, <1>4, <1>5, <1>6 DEF SaveFile

LEMMA NumberedKept ==
  ASSUME FatInv, ValuesTyped, ValuesTyped', Numbered, [RecNext]_vars
  PROVE  Numbered'
<1>1. FatTypeOK /\ ValidFileIsOpen
  BY DEF FatInv
<1>2. ASSUME NEW n \in Names, card'[n] # Absent PROVE Given(n)'
  <2>1. CASE card'[n] = card[n]
    BY <1>2, <2>1, GivenStays DEF Numbered
  <2>2. CASE card'[n] # card[n]
    <3>1. \/ savePc = "open" /\ n = saveName
          \/ Valid /\ gFile.name = n
      BY <1>1, <1>2, <2>2, CardStep
    <3>2. Given(n)
      BY <1>1, <3>1 DEF Numbered, ValidFileIsOpen
    <3> QED
      BY <3>2, GivenStays
  <2> QED
    BY <2>1, <2>2
<1>3. ASSUME savePc' = "open"
      PROVE  Given(saveName)' /\ card'[saveName'] = Absent
  <2>1. CASE SaveGotFrame
    <3>1. UNCHANGED card
      BY <2>1, NoFileStep DEF Asks, fatVars
    <3> QED
      BY <1>3, <2>1, <3>1, NewFileIsNew
  <2>2. CASE ~SaveGotFrame
    <3>1. savePc = "open" /\ saveName' = saveName /\ UNCHANGED fatVars
      BY <1>3, <2>2, NoFileStep
         DEF RecNext, Asks, SaveLoop, SaveNoFrame, Touches, TouchPress,
         TouchJpeg, TouchJpegDone, OtherFormat, OtherHeader, Fault, vars,
         saveVars, SaveFile, SaveOpen,
         SaveWriteHeader, SaveWriteFrame, SaveClose, SaveMkfs, SaveMount,
         EndBranch
    <3>2. saveName \in Names
      BY DEF ValuesTyped
    <3> QED
      BY <3>1, <3>2, GivenStays DEF Numbered, fatVars
  <2> QED
    BY <2>1, <2>2
<1> QED
  BY <1>2, <1>3 DEF Numbered

-----------------------------------------------------------------------------
(* A card that has no error had none before.                               *)
LEMMA NoError ==
  ASSUME FatTypeOK, [RecNext]_vars, faults' = MaxFaults
  PROVE  faults = MaxFaults /\ ~DiskError
<1>1. ~DiskError
  BY FatFileAssumption DEF FatTypeOK, DiskError
<1>2. DiskOk \/ DiskError
  <2>1. CASE SaveFile
    BY <2>1 DEF SaveFile, SaveOpen, FOpenSucceeds, NeedsMount, FOpenFails,
       SaveWriteHeader, SaveWriteFrame, FWrite, SaveClose, FClose, SaveMkfs,
       FMkfs, SaveMount, FMount
  <2>2. CASE ~SaveFile
    BY <2>2, NoFileStep DEF RecNext, fatVars, DiskOk
  <2> QED
    BY <2>1, <2>2
<1> QED
  BY <1>1, <1>2 DEF DiskOk

(* What f_open, f_close, f_mkfs and f_mount do to the file object on a     *)
(* card without errors; all other steps leave it as valid as it was.       *)
LEMMA OpenStep ==
  ASSUME FatTypeOK, ValuesTyped, SaveOpen, ~DiskError
  PROVE  \/ /\ Valid' /\ gFile'.name = saveName /\ ~gFile'.err
            /\ Len(gFile'.data) = 0 /\ savePc' = "writeHeader"
            /\ UNCHANGED branchVars
         \/ ~Valid' /\ UNCHANGED card /\ EndBranch
<1>1. CASE FOpenSucceeds(saveName) /\ savePc' = "writeHeader"
           /\ UNCHANGED branchVars
  <2>1. PICK i : gFile' = [fs |-> TRUE, id |-> fsId', lockid |-> i,
                           name |-> saveName, data |-> << >>, err |-> FALSE]
    BY <1>1 DEF FOpenSucceeds
  <2>2. mounted' = TRUE
    BY <1>1 DEF FOpenSucceeds
  <2> QED
    BY <1>1, <2>1, <2>2 DEF Valid
<1>2. CASE FOpenFails(saveName) /\ EndBranch
  <2>1. gFile'.fs = FALSE
    BY <1>2 DEF FOpenFails, InvalidateFile, FatTypeOK
  <2>2. UNCHANGED card
    BY <1>2 DEF FOpenFails
  <2> QED
    BY <1>2, <2>1, <2>2 DEF Valid
<1> QED
  BY <1>1, <1>2 DEF SaveOpen

LEMMA WriteStep ==
  ASSUME FatTypeOK, NEW d \in Data, FWrite(d), ~DiskError
  PROVE  /\ Valid' = Valid /\ gFile'.name = gFile.name /\ UNCHANGED card
         /\ gFile'.err = gFile.err
         /\ Valid /\ ~gFile.err => gFile'.data = Append(gFile.data, d)
<1>1. UNCHANGED <<card, mounted, fsId>>
  BY DEF FWrite
<1>2. \/ Valid /\ ~gFile.err /\ gFile' = [gFile EXCEPT !.data = Append(@, d)]
      \/ ~(Valid /\ ~gFile.err) /\ UNCHANGED gFile
  BY DEF FWrite
<1> QED
  BY <1>1, <1>2 DEF Valid, FatTypeOK

(* One piece more.                                                         *)
LEMMA WrittenType ==
  ASSUME FatTypeOK, NEW d \in Data
  PROVE  /\ Len(Append(gFile.data, d)) = Len(gFile.data) + 1
         /\ Append(gFile.data, d)[Len(gFile.data) + 1] = d
<1>1. gFile.data \in Seq(Data \cup {Torn}) /\ d \in Data \cup {Torn}
  BY DEF FatTypeOK, Content
<1> QED
  BY <1>1, AppendProperties

LEMMA CloseStep ==
  ASSUME FatTypeOK, FClose, ~DiskError
  PROVE  /\ ~Valid'
         /\ Valid => card' = [card EXCEPT ![gFile.name] = gFile.data]
         /\ ~Valid => UNCHANGED card
BY DEF FClose, CloseFile, InvalidateFile, Valid, FatTypeOK

LEMMA UnmountStep ==
  ASSUME FatInv, SaveMkfs \/ SaveMount
  PROVE  ~Valid'
<1>1. CASE SaveMkfs
  BY <1>1 DEF SaveMkfs, FMkfs, Valid
<1>2. CASE SaveMount
  BY <1>2 DEF SaveMount, FMount, Valid, FatInv, FatTypeOK, NotFromLaterMount
<1> QED
  BY <1>1, <1>2

LEMMA OtherStep ==
  ASSUME [RecNext]_vars, ~SaveFile
  PROVE  UNCHANGED <<fatVars, gFile, card, Valid>>
BY NoFileStep DEF RecNext, fatVars, Valid

-----------------------------------------------------------------------------
LEMMA SnapIsOpenKept ==
  ASSUME FatInv, ValuesTyped, Branch, SnapIsOpen, [RecNext]_vars
  PROVE  SnapIsOpen'
<1> SUFFICES ASSUME faults' = MaxFaults PROVE SnapIsOpen'
  BY DEF SnapIsOpen
<1>1. FatTypeOK
  BY DEF FatInv
<1>2. faults = MaxFaults /\ ~DiskError
  BY <1>1, NoError
<1> USE <1>2 DEF SnapIsOpen, Writing
<1>3. mHeader \in Data /\ saveFrame \in Data
  BY DataType DEF ValuesTyped
<1>4. CASE SaveOpen
  <2>1. savePc = "open" /\ saveOp \in {"snap", "create"}
        /\ (saveOp = "create" => saveName[1] = "mjpeg")
    BY <1>4 DEF SaveOpen, Branch
  <2> QED
    BY <1>1, <1>4, <2>1, OpenStep DEF EndBranch, branchVars
<1>5. CASE SaveWriteHeader
  <2>1. savePc = "writeHeader" /\ savePc' = "writeFrame"
        /\ UNCHANGED <<saveOp, saveName, saveFrame>> /\ FWrite(mHeader)
    BY <1>5 DEF SaveWriteHeader, branchVars
  <2>2. CASE saveOp = "snap"
    <3>1. Len(gFile'.data) = 1
      <4>1. Valid /\ ~gFile.err /\ Len(gFile.data) = 0
        BY <2>1, <2>2
      <4>2. gFile'.data = Append(gFile.data, mHeader)
        BY <1>1, <1>3, <2>1, <4>1, WriteStep
      <4> QED
        BY <1>1, <1>3, <4>1, <4>2, WrittenType
    <3> QED
      BY <1>1, <1>3, <2>1, <2>2, <3>1, WriteStep
  <2>3. CASE saveOp # "snap"
    BY <1>1, <1>3, <2>1, <2>3, WriteStep
  <2> QED
    BY <2>2, <2>3
<1>6. CASE SaveWriteFrame
  <2>1. savePc = "writeFrame" /\ FWrite(saveFrame)
    BY <1>6 DEF SaveWriteFrame
  <2>2. CASE saveOp = "snap"
    <3>1. savePc' = "close" /\ UNCHANGED <<saveOp, saveName, saveFrame>>
      BY <1>6, <2>2 DEF SaveWriteFrame, branchVars
    <3>2. Len(gFile'.data) = 2 /\ gFile'.data[2] = saveFrame
      <4>1. Valid /\ ~gFile.err /\ Len(gFile.data) = 1
        BY <2>1, <2>2
      <4>2. gFile'.data = Append(gFile.data, saveFrame)
        BY <1>1, <1>3, <2>1, <4>1, WriteStep
      <4> QED
        BY <1>1, <1>3, <4>1, <4>2, WrittenType
    <3> QED
      BY <1>1, <1>3, <2>1, <2>2, <3>1, <3>2, WriteStep
  <2>3. CASE saveOp # "snap"
    <3>1. saveOp' = "none" /\ savePc' = "loop"
      BY <1>6, <2>3 DEF SaveWriteFrame, EndBranch
    <3> QED
      BY <1>1, <1>3, <2>1, <2>3, <3>1, WriteStep
  <2> QED
    BY <2>2, <2>3
<1>7. CASE SaveClose
  BY <1>1, <1>7, CloseStep DEF SaveClose, EndBranch
<1>8. CASE SaveMkfs \/ SaveMount
  BY <1>8, UnmountStep DEF SaveMkfs, SaveMount, EndBranch, branchVars, Branch
<1>9. CASE SaveLoop \/ SaveNoFrame
  BY <1>9, OtherStep DEF SaveFile, SaveLoop, SaveNoFrame, SaveOpen,
     SaveWriteHeader, SaveWriteFrame, SaveClose, SaveMkfs, SaveMount, Branch
<1>10. CASE SaveGotFrame
  <2>1. /\ savePc = "getFrame"
        /\ savePc' \in {"open", "writeHeader", "close"}
        /\ saveOp' = "snap" => savePc' = "open"
    BY <1>10 DEF SaveGotFrame, BeginSnapshot, ContinueMovie, BeginMovie,
       BeginAppend, BeginClose
  <2> QED
    BY <1>10, <2>1, OtherStep DEF SaveFile, SaveOpen, SaveWriteHeader,
       SaveWriteFrame, SaveClose, SaveMkfs, SaveMount
<1>11. CASE /\ ~SaveFile
            /\ Touches \/ OtherFormat \/ OtherHeader \/ UNCHANGED vars
  BY <1>11, OtherStep DEF Touches, TouchPress, TouchJpeg, TouchJpegDone,
     OtherFormat, OtherHeader, vars, saveVars
<1>12. CASE ~SaveFile /\ Fault
  BY <1>12, OtherStep DEF Fault
<1> QED
  BY <1>4, <1>5, <1>6, <1>7, <1>8, <1>9, <1>10, <1>11, <1>12
     DEF RecNext, Asks, SaveFile

(* Only f_close ends the writing of a snapshot, with both pieces written.  *)
LEMMA SnapshotSaved ==
  ASSUME FatInv, ValuesTyped, Branch, SnapIsOpen, [RecNext]_vars,
         faults' = MaxFaults, Valid, gFile.name[1] # "mjpeg",
         ~(Valid' /\ gFile'.name = gFile.name)
  PROVE  /\ Len(card'[gFile.name]) = 2
         /\ \/ card'[gFile.name][2] = Format(gFile.name)
            \/ gFile.name \in mixed'
<1>1. FatTypeOK
  BY DEF FatInv
<1>2. faults = MaxFaults /\ ~DiskError
  BY <1>1, NoError
<1>3. SaveFile
  <2>1. CASE ~SaveFile
    BY <2>1, OtherStep
  <2> QED
    BY <2>1
<1>4. saveOp = "snap" /\ Writing
  BY <1>2, <1>3 DEF SnapIsOpen, SaveFile, SaveOpen, SaveWriteHeader,
     SaveWriteFrame, SaveClose, SaveMkfs, SaveMount
<1>5. mHeader \in Data /\ saveFrame \in Data
  BY DataType DEF ValuesTyped
<1>6. SaveClose
  <2>1. CASE SaveWriteHeader \/ SaveWriteFrame
    BY <1>1, <1>2, <1>5, <2>1, WriteStep DEF SaveWriteHeader, SaveWriteFrame
  <2>2. ~SaveOpen /\ ~SaveMkfs /\ ~SaveMount
    BY <1>4 DEF Writing, SaveOpen, SaveMkfs, SaveMount
  <2> QED
    BY <1>3, <2>1, <2>2 DEF SaveFile
<1>7. card' = [card EXCEPT ![gFile.name] = gFile.data]
  BY <1>1, <1>2, <1>6, CloseStep DEF SaveClose
<1>8. card'[gFile.name] = gFile.data
  BY <1>1, <1>7 DEF FatTypeOK
<1> QED
  BY <1>2, <1>4, <1>6, <1>8, MixedGrows DEF SnapIsOpen, Branch, SaveClose

LEMMA SavedWholeKept ==
  ASSUME FatInv, ValuesTyped, Branch, SnapIsOpen, SavedWhole, [RecNext]_vars
  PROVE  SavedWhole'
<1> SUFFICES ASSUME faults' = MaxFaults, NEW n \in Names,
                    n[1] # "mjpeg", card'[n] # Absent,
                    ~(Valid' /\ gFile'.name = n)
             PROVE  /\ Len(card'[n]) = 2
                    /\ card'[n][2] = Format(n) \/ n \in mixed'
  BY DEF SavedWhole, Format
<1>1. FatTypeOK
  BY DEF FatInv
<1>2. faults = MaxFaults /\ ~DiskError
  BY <1>1, NoError
<1>3. CASE Valid /\ gFile.name = n
  BY <1>3, SnapshotSaved
<1>4. CASE ~(Valid /\ gFile.name = n) /\ card'[n] = card[n]
  BY <1>2, <1>4, MixedGrows DEF SavedWhole
<1>5. CASE ~(Valid /\ gFile.name = n) /\ card'[n] # card[n]
  <2>1. savePc = "open" /\ n = saveName
    BY <1>1, <1>5, CardStep
  <2>2. SaveFile
    BY <1>5, OtherStep
  <2>3. SaveOpen
    BY <2>1, <2>2 DEF SaveFile, SaveWriteHeader, SaveWriteFrame, SaveClose,
       SaveMkfs, SaveMount
  <2> QED
    BY <1>1, <1>2, <1>5, <2>1, <2>3, OpenStep
<1> QED
  BY <1>3, <1>4, <1>5

-----------------------------------------------------------------------------
LEMMA RecInit == Init => RecInv
<1> SUFFICES ASSUME Init PROVE RecInv
  OBVIOUS
<1>1. FatInv
  BY FatInitInv DEF Init
<1>2. faults = MaxFaults /\ ~gFile.fs /\ card = [n \in Names |-> Absent]
  BY DEF Init, FatInit
<1>3. RecorderTypeOK
  <2>1. ValuesTyped
    BY RecorderAssumption, NamesType DEF Init, ValuesTyped
  <2>2. FlagsTyped
    BY DEF Init, FlagsTyped
  <2>3. CamTyped
    BY DEF Init, CamTyped
  <2> QED
    BY <2>1, <2>2, <2>3, Typed
<1>4. Paid
  BY RecorderAssumption DEF Init, Paid, One, Toggles, Asked
<1>5. Branch
  BY DEF Init, Branch
<1>6. Numbered /\ SavedWhole /\ SnapIsOpen
  BY <1>2 DEF Init, Numbered, SavedWhole, SnapIsOpen, Valid, Writing
<1>7. Mixes
  BY FS_EmptySet DEF Init, Mixes
<1> QED
  BY <1>1, <1>3, <1>4, <1>5, <1>6, <1>7 DEF RecInv

LEMMA RecInvStep == RecInv /\ [RecNext]_vars => RecInv'
<1> SUFFICES ASSUME RecInv, [RecNext]_vars PROVE RecInv'
  OBVIOUS
<1> USE DEF RecInv
<1>1. FlagsTyped /\ ValuesTyped /\ CamTyped
  BY Typed
<1>2. FatInv'
  BY FatInvKept
<1>3. FlagsTyped'
  BY <1>1, FlagsKept
<1>4. ValuesTyped'
  BY <1>1, ValuesKept
<1>5. RecorderTypeOK'
  <2>1. CamTyped'
    BY <1>1, <1>4, CamKept
  <2> QED
    BY <1>3, <1>4, <2>1 DEF RecorderTypeOK, FlagsTyped, ValuesTyped, CamTyped
<1>6. Paid'
  BY <1>1, PaidKept
<1>7. Branch' /\ SnapIsOpen' /\ SavedWhole' /\ Mixes'
  BY <1>1, BranchKept, SnapIsOpenKept, SavedWholeKept, MixesKept
<1>8. Numbered'
  BY <1>1, <1>4, NumberedKept
<1> QED
  BY <1>2, <1>5, <1>6, <1>7, <1>8

-----------------------------------------------------------------------------
LEMMA BootKept ==
  ASSUME UpTypeOK, Started, [UpNext]_upVars
  PROVE  UpTypeOK' /\ Started'
<1> USE DEF UpTypeOK, Started, Menu, CameraReady, After
<1>1. CASE Mount
  BY <1>1 DEF Mount
<1>2. CASE MakeCamera
  BY <1>2 DEF MakeCamera
<1>3. CASE AddBox
  BY <1>3 DEF AddBox
<1>4. CASE EndSplash
  BY <1>4 DEF EndSplash
<1>5. CASE UNCHANGED bootVars
  BY <1>5 DEF bootVars
<1>6. Boot \/ UNCHANGED bootVars
  BY DEF UpNext, Running, UpSaveThread, UpSaveLoop, UpSaveDelay,
     UpSaveNoFrame, UpSaveGotFrame, UpSaveFile, UsesTooEarly, UpTouchPress,
     UpTouchJpeg, UpTouchJpegDone, UpOtherFormat, UpOtherHeader,
     ServesTooEarly, Ended, upVars,
     bootVars
<1> QED
  BY <1>1, <1>2, <1>3, <1>4, <1>5, <1>6 DEF Boot

(* The boxes that are there have what they ask for.                        *)
LEMMA BoxesHave ==
  ASSUME UpTypeOK, Started, NEW box \in Boxes
  PROVE  /\ CameraReady
         /\ box \in {"snap", "movie", "format"} => mMounted
<1>1. PICK b \in 1..mBoxes : box = Menu[b]
  BY DEF Boxes
<1>2. mBoxes \in 0..4
  BY DEF UpTypeOK, Menu
<1>3. CameraReady
  BY <1>1, <1>2 DEF UpTypeOK, Started, CameraReady
<1>4. CASE ~mMounted
  <2>1. b = 1
    BY <1>1, <1>2, <1>4 DEF Started
  <2>2. box = "jpeg"
    BY <1>1, <2>1 DEF Menu
  <2> QED
    BY <1>3, <2>2
<1> QED
  BY <1>3, <1>4

LEMMA RequestsKept ==
  ASSUME UpInv, [UpNext]_upVars
  PROVE  RequestsAreSafe'
<1> USE DEF UpInv, RequestsAreSafe
<1>1. CASE UpTouchPress
  <2>1. PICK box \in Boxes :
          /\ mTakeChanged' = (mTakeChanged \/ box = "snap")
          /\ mTakeMovieChanged' = (mTakeMovieChanged \/ box = "movie")
          /\ mFormatChanged' = (mFormatChanged \/ box = "format")
          /\ mJpegChanged' = (mJpegChanged \/ box = "jpeg")
    BY <1>1 DEF UpTouchPress, TouchPress
  <2>2. touchPc' = touchPc /\ mCam' = mCam /\ mMounted' = mMounted
    BY <1>1 DEF UpTouchPress, TouchPress, bootVars
  <2> QED
    BY <2>1, <2>2, BoxesHave DEF CameraReady
<1>2. CASE Boot
  <2>1. UNCHANGED <<mJpegChanged, touchPc, mTakeChanged, mTakeMovieChanged,
                    mFormatChanged>>
    BY <1>2 DEF Boot, Mount, MakeCamera, AddBox, EndSplash, vars, flagVars
  <2>2. mCam = "ready" => mCam' = "ready" /\ mMounted' = mMounted
    BY <1>2 DEF Boot, Mount, MakeCamera, AddBox, EndSplash, Started, UpTypeOK
  <2> QED
    BY <2>1, <2>2 DEF CameraReady
<1>3. CASE UpTouchJpeg \/ UpTouchJpegDone
  BY <1>3 DEF UpTouchJpeg, UpTouchJpegDone, TouchJpeg, TouchJpegDone, bootVars,
     flagVars, CameraReady
<1>4. CASE UpSaveThread
  <2>1. /\ mJpegChanged' = mJpegChanged /\ touchPc' = touchPc
        /\ mTakeChanged' => mTakeChanged
        /\ mTakeMovieChanged' => mTakeMovieChanged
        /\ mFormatChanged' => mFormatChanged
    <3>1. CASE UpSaveLoop
      <4>1. UNCHANGED mFormatChanged \/ mFormatChanged' = FALSE
        BY <3>1 DEF UpSaveLoop, SaveLoop
      <4>2. UNCHANGED <<mJpegChanged, touchPc, mTakeChanged,
                        mTakeMovieChanged>>
        BY <3>1 DEF UpSaveLoop, SaveLoop
      <4> QED
        BY <4>1, <4>2
    <3>2. CASE UpSaveDelay \/ UpSaveNoFrame \/ UsesTooEarly
      BY <3>2 DEF UpSaveDelay, SaveDelay, vars, UpSaveNoFrame, SaveNoFrame,
         UsesTooEarly, flagVars
    <3>3. CASE UpSaveGotFrame
      BY <3>3 DEF UpSaveGotFrame, SaveGotFrame, BeginSnapshot, ContinueMovie,
         BeginMovie, BeginAppend, BeginClose
    <3>4. CASE UpSaveFile
      BY <3>4 DEF UpSaveFile, SaveFile, SaveOpen, SaveWriteHeader,
         SaveWriteFrame, SaveClose, SaveMkfs, SaveMount, othersVars, flagVars
    <3> QED
      BY <1>4, <3>1, <3>2, <3>3, <3>4 DEF UpSaveThread
  <2>2. UNCHANGED bootVars
    BY <1>4 DEF UpSaveThread, UpSaveLoop, UpSaveDelay, UpSaveNoFrame,
       UpSaveGotFrame, UpSaveFile, UsesTooEarly, bootVars
  <2> QED
    BY <2>1, <2>2 DEF bootVars, CameraReady
<1>5. CASE UpOtherFormat \/ UpOtherHeader \/ ServesTooEarly \/ Ended
           \/ UNCHANGED upVars
  BY <1>5 DEF UpOtherFormat, OtherFormat, UpOtherHeader, OtherHeader,
     ServesTooEarly, Ended, upVars, vars, bootVars, flagVars, CameraReady
<1> QED
  BY <1>1, <1>2, <1>3, <1>4, <1>5 DEF UpNext, Running

-----------------------------------------------------------------------------
LEMMA Recorded == UpSpec => []RecInv
<1>1. UpInit => RecInv
  BY RecInit DEF UpInit
<1>2. RecInv /\ [UpNext]_upVars => RecInv'
  BY UpStep, RecInvStep
<1> QED
  BY <1>1, <1>2, PTL DEF UpSpec

LEMMA UpInvariance == UpSpec => []UpInv
<1>1. UpInit => UpInv
  <2> SUFFICES ASSUME UpInit PROVE UpInv
    OBVIOUS
  <2>1. UpTypeOK
    <3>1. mBoxes \in 0..Len(Menu)
      BY DEF UpInit, Menu
    <3> QED
      BY <3>1 DEF UpInit, UpTypeOK
  <2>2. Started
    BY DEF UpInit, Started
  <2>3. RequestsAreSafe
    BY DEF UpInit, Init, RequestsAreSafe
  <2> QED
    BY <2>1, <2>2, <2>3 DEF UpInv
<1>2. UpInv /\ [UpNext]_upVars => UpInv'
  BY BootKept, RequestsKept DEF UpInv
<1> QED
  BY <1>1, <1>2, PTL DEF UpSpec

(* The variables of the save and touch threads stay in their types: the    *)
(* file numbers are those the inputs pay for, so every name that saveThread *)
(* makes is one the card is modelled to hold.                              *)
THEOREM RecorderTypeCorrect == UpSpec => []RecorderTypeOK
BY Recorded, PTL DEF RecInv

(* run() starts things in its order: the boxes it has added are those that *)
(* the camera, and the card if it is mounted, are there for.               *)
THEOREM UpTypeCorrect == UpSpec => [](UpTypeOK /\ Started)
BY UpInvariance, PTL DEF UpInv

(* A request that is pending or being served is for what is there.         *)
THEOREM RequestsAlwaysSafe == UpSpec => []RequestsAreSafe
BY UpInvariance, PTL DEF UpInv

(* A snapshot saved on a card without errors is one header and one frame,  *)
(* however movies and snapshots follow each other, and the frame is of the *)
(* format its name says but for one snapshot for each capture() or         *)
(* preview(), which its change of format came across.                      *)
THEOREM SnapshotAlwaysWhole == UpSpec => []SnapshotIsWhole
<1>1. RecInv => SnapshotIsWhole
  <2> SUFFICES ASSUME RecInv PROVE Cardinality(mixed) <= switches
    BY DEF RecInv, SnapshotIsWhole
  <2>1. Mixes /\ CamTyped
    BY Typed DEF RecInv
  <2> QED
    BY <2>1, FS_CardinalityType DEF Mixes, CamTyped
<1> QED
  BY <1>1, Recorded, PTL

(* saveThread uses FatFs the way FatFile says a user of one file object    *)
(* may, so what is true of FatFile is true in the program.                 *)
THEOREM RecorderImplementsFatFile == UpSpec => FatSpec
<1>1. UpInit => FatInit
  BY DEF UpInit, Init
<1>2. RecorderTypeOK /\ [UpNext]_upVars => [FatNext]_fatVars
  BY UpStep, FatStep
<1> QED
  BY <1>1, <1>2, RecorderTypeCorrect, PTL DEF UpSpec, FatSpec

(* However requests, errors, formats and reopened files follow each other, *)
(* the file object that saveThread writes through is open when FatFs       *)
(* accepts it, and no file is open twice.                                  *)
THEOREM RecorderFilesAreOpen == UpSpec => [](ValidFileIsOpen /\ LockedOnce)
BY RecorderImplementsFatFile, ValidIsOpen, NeverOpenTwice, PTL

(* A file on the card is not changed by later snapshots and movies once    *)
(* its file object let go of it.                                           *)
THEOREM SavedFilesAlwaysStay == UpSpec => SavedFilesStay
<1>1. RecInv /\ [UpNext]_upVars =>
        [\A n \in Names :
           card[n] # Absent /\ ~(Valid /\ gFile.name = n) /\ savePc # "mkfs"
             => card'[n] = card[n]]_vars
  <2> SUFFICES ASSUME RecInv, [RecNext]_vars, NEW n \in Names,
                      card[n] # Absent, ~(Valid /\ gFile.name = n),
                      savePc # "mkfs", card'[n] # card[n]
               PROVE  FALSE
    BY UpStep
  <2>1. savePc = "open" /\ n = saveName
    BY CardStep DEF RecInv, FatInv
  <2> QED
    BY <2>1 DEF RecInv, Numbered
<1> QED
  BY <1>1, Recorded, PTL DEF UpSpec, SavedFilesStay
=============================================================================
