----------------------------- MODULE MCRecorder -----------------------------
(* The save thread, model-checked: MCRecorder.cfg for what it keeps, and   *)
(* the cfgs of the comments that the code does not keep.                   *)
EXTENDS StartUp

CONSTANT MaxEvents  \* inputs and disk errors together

MCNames == ({"jpg", "bmp"} \X (0..(MaxInputs - 1)))
             \cup ({"mjpeg"} \X (1..MaxInputs))
MCData == {"full", "small", "bmp", "jpeg", "rgb"}
MCAbsent == <<"absent">>
MCNoName == <<"none", 0>>
MCTorn == "torn"

(* No step that is fair needs an input or an error to be taken.            *)
MCNext ==
  /\ UpNext
  /\ (MaxInputs - inputs') + (MaxFaults - faults') <= MaxEvents
MCSpec == UpInit /\ [][MCNext]_upVars /\ UpFairness
=============================================================================
