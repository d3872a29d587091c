----------------------------- MODULE MCNetwork -----------------------------
(* The network's start with the SNTP client, model-checked.                *)
EXTENDS Network
=============================================================================
