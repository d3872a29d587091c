------------------------------- MODULE MCSntp -------------------------------
(* The SNTP client by itself, model-checked with a name whose address      *)
(* changes (MCSntpStuck.cfg).                                              *)
EXTENDS Sntp
=============================================================================
