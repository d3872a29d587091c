---------------------------- MODULE MCEthernetIf ----------------------------
(* The Ethernet interface, model-checked with two frames that differ, two  *)
(* receive and two transmit descriptors, a mailbox and a pool that run     *)
(* full and dry, and one frame the dhcp thread sends.  No definition tells *)
(* one frame from another, and every property is a safety property.        *)
EXTENDS EthernetIf, TLC

AnyFrame == Permutations(Frames)
=============================================================================
