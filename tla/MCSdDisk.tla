------------------------------ MODULE MCSdDisk ------------------------------
(* The disk driver, model-checked: MCSdDisk.cfg for what it keeps, and     *)
(* MCSdLate.cfg for what RES_OK means after a late transfer.               *)
EXTENDS SdDisk
=============================================================================
