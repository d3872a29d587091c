------------------------------ MODULE StartUp ------------------------------
(***************************************************************************)
(* The start of the program: cApp::run of usbMsc/main.cpp mounts the card, *)
(* makes the camera and the boxes and loads a picture, before its loop     *)
(* draws; composed with the save and touch threads of Recorder, which run  *)
(* from the beginning, and with the HTTP server.                           *)
(*                                                                         *)
(* Nothing makes them wait for the app thread.  A thread that uses the     *)
(* camera before it is there, or FatFs, which is not reentrant, while the  *)
(* app thread is in it, ends the model: what it then does is not defined.  *)
(***************************************************************************)
EXTENDS Recorder

VARIABLES
  boot,      \* what run() is at
  mMounted,
  mCam,      \* the camera: "null", "made", or "ready" after its init()
  mBoxes     \* how many boxes of Menu have been added

bootVars == <<boot, mMounted, mCam, mBoxes>>
upVars == <<vars, bootVars>>

(* The boxes that make a request, in the order they are added: the first   *)
(* always, the others if the card is mounted.                              *)
Menu == <<"jpeg", "snap", "movie", "format">>
Boxes == {Menu[b] : b \in 1..mBoxes}

UpInit ==
  Init /\ boot = "mount" /\ mMounted = FALSE /\ mCam = "null" /\ mBoxes = 0

-----------------------------------------------------------------------------
(* run().  Mutant: the boxes are there before the camera is.               *)
After_BoxesFirst == [mount |-> "boxes", boxes |-> "new", new |-> "init",
                     init |-> "splash"]
After == [mount |-> "new", new |-> "init", init |-> "boxes",
          boxes |-> "splash"]
CameraReady == mCam = "ready"

Mount ==
  /\ boot = "mount" /\ boot' = After[boot]
  /\ mMounted' \in BOOLEAN
  /\ UNCHANGED <<vars, mCam, mBoxes>>

(* "new cCamera" and init(), which makes its semaphore.  The save thread   *)
(* does not wait between a request and getNextFrame.                       *)
MakeCamera ==
  /\ \/ boot = "new" /\ mCam' = "made"
     \/ boot = "init" /\ mCam' = "ready"
  /\ boot' = After[boot] /\ savePc = "loop"
  /\ UNCHANGED <<vars, mMounted, mBoxes>>

(* The app thread blocks nowhere between the last box and its first call   *)
(* of FatFs.                                                               *)
AddBox ==
  /\ boot = "boxes" /\ mBoxes' = mBoxes + 1
  /\ boot' = IF mBoxes' = (IF mMounted THEN Len(Menu) ELSE 1)
             THEN After[boot] ELSE boot
  /\ UNCHANGED <<vars, mMounted, mCam>>

(* readDirectory and loadFile, if the card is mounted, and into the loop.  *)
EndSplash ==
  /\ boot = "splash" /\ boot' = "loop"
  /\ UNCHANGED <<vars, mMounted, mCam, mBoxes>>

Boot == Mount \/ MakeCamera \/ AddBox \/ EndSplash

-----------------------------------------------------------------------------
(* The app thread is in FatFs.                                             *)
InFatFs == boot = "splash" /\ mMounted

UpSaveLoop == mMounted /\ SaveLoop /\ UNCHANGED bootVars
UpSaveDelay == SaveDelay /\ UNCHANGED bootVars
UpSaveNoFrame == CameraReady /\ SaveNoFrame /\ UNCHANGED bootVars
UpSaveGotFrame == CameraReady /\ SaveGotFrame /\ UNCHANGED bootVars
UpSaveFile == ~InFatFs /\ SaveFile /\ UNCHANGED bootVars

UsesTooEarly ==
  /\ \/ ~CameraReady /\ savePc = "getFrame"
     \/ InFatFs /\ savePc \notin {"loop", "getFrame", "fault"}
  /\ savePc' = "fault"
  /\ UNCHANGED <<fatVars, flagVars, numVars, saveOp, saveName, saveFrame,
                 mHeader, camVars, touchPc, inputs, bootVars>>

UpSaveThread == UpSaveLoop \/ UpSaveDelay \/ UpSaveNoFrame \/ UpSaveGotFrame
                \/ UpSaveFile \/ UsesTooEarly

UpTouchPress == TouchPress(Boxes) /\ UNCHANGED bootVars
UpTouchJpeg == TouchJpeg /\ UNCHANGED bootVars
UpTouchJpegDone == TouchJpegDone /\ UNCHANGED bootVars
UpOtherFormat == OtherFormat /\ UNCHANGED bootVars

(* onDraw, in the loop, and the server: its first request may come at any  *)
(* time, for it waits for the network only.                                *)
UpOtherHeader == CameraReady /\ OtherHeader /\ UNCHANGED bootVars
ServesTooEarly ==
  /\ ~CameraReady /\ savePc' = "fault"
  /\ UNCHANGED <<fatVars, flagVars, numVars, saveOp, saveName, saveFrame,
                 mHeader, camVars, touchPc, inputs, bootVars>>

Running ==
  \/ Boot \/ UpSaveThread
  \/ UpTouchPress \/ UpTouchJpeg \/ UpTouchJpegDone
  \/ UpOtherFormat \/ UpOtherHeader \/ ServesTooEarly
Ended == savePc = "fault" /\ UNCHANGED upVars

UpNext == (savePc # "fault" /\ Running) \/ Ended
UpSpec == UpInit /\ [][UpNext]_upVars

(* The save thread has the highest priority of those modelled, a FatFs call *)
(* ends (a sector transfer is given 2 s), and the app and touch threads run *)
(* while the save thread waits.  A camera that goes on working gives a      *)
(* frame to one of the waits.  The user has no duty to press anything.      *)
UpFairness ==
  /\ WF_upVars(UpSaveLoop) /\ WF_upVars(UpSaveFile)
  /\ WF_upVars(UpSaveNoFrame) /\ SF_upVars(UpSaveGotFrame)
  /\ WF_upVars(UpTouchJpeg) /\ WF_upVars(UpTouchJpegDone)
  /\ WF_upVars(Boot)

-----------------------------------------------------------------------------
(* A box never asks for what is not there, though the touch thread polls   *)
(* from the beginning and boxes are added one at a time: when a request is *)
(* pending or being served the camera is ready, and for those of the save  *)
(* thread the card is mounted.                                             *)
RequestsAreSafe ==
  /\ mJpegChanged \/ touchPc = "mode" => CameraReady
  /\ mTakeChanged \/ mTakeMovieChanged \/ mFormatChanged =>
       CameraReady /\ mMounted
=============================================================================
