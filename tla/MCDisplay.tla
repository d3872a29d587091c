----------------------------- MODULE MCDisplay -----------------------------
(* The display, model-checked.                                             *)
EXTENDS Display
=============================================================================
