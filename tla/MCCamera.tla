------------------------------ MODULE MCCamera ------------------------------
(* The capture path on a buffer of a few chunks, for TLC.                  *)
EXTENDS Camera
=============================================================================
