---------------------------- MODULE MCCameraReaders -------------------------
(* A thread that reads frames, model-checked with the capture path.        *)
EXTENDS CameraReaders
=============================================================================
