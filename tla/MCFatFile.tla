----------------------------- MODULE MCFatFile ------------------------------
(* The file object and the lock table on their own, used in any order.     *)
EXTENDS FatFile

CONSTANTS
  MaxMounts,    \* how often the volume is mounted
  MaxLen        \* how many pieces are written to a file

MCAbsent == <<"absent">>

MCNext ==
  /\ FatNext
  /\ fsId' <= MaxMounts /\ Len(gFile'.data) <= MaxLen
MCSpec == FatInit /\ [][MCNext]_fatVars
=============================================================================
