----------------------------- MODULE FrameRing ------------------------------
(***************************************************************************)
(* What the capture path promises to the threads that read frames: one     *)
(* buffer in which a single region grows at its end; when it ends it       *)
(* becomes the latest frame or is dropped, and the next region starts      *)
(* right behind it, or at the start of the buffer when the largest frame   *)
(* no longer fits.  There are no chunks, registers or interrupts here.     *)
(***************************************************************************)
EXTENDS Integers

CONSTANTS BufSize, MaxFrame, EoiLen, XferSize

VARIABLES
  start, wr,          \* the region being captured is start..wr-1
  live,               \* it can grow
  frame, len, jpeg,   \* the latest frame; frame is None when there is none
  fresh               \* a frame was published that nobody waited for yet

ringVars == <<start, wr, live, frame, len, jpeg, fresh>>

None == -1

Init ==
  /\ start = 0 /\ wr = 0 /\ live = TRUE
  /\ frame = None /\ len = 0 /\ jpeg = FALSE
  /\ fresh = TRUE

Grow ==
  /\ live /\ wr - start < MaxFrame
  /\ wr' = wr + 1
  /\ UNCHANGED <<start, live, frame, len, jpeg, fresh>>

(* The capture overflowed: the region cannot grow any more, and the write  *)
(* pointer may be one chunk off.                                           *)
Stop ==
  /\ live /\ live' = FALSE
  /\ wr' \in {wr, wr + XferSize}
  /\ UNCHANGED <<start, frame, len, jpeg, fresh>>

(* The region becomes the latest frame: a whole RGB565 frame, or a JPEG of *)
(* any length up to that of the region.                                    *)
Publish ==
  /\ frame' = start
  /\ fresh' = TRUE
  /\ \/ jpeg' = FALSE /\ len' = wr - start /\ len' = MaxFrame
     \/ /\ jpeg' = TRUE /\ wr - start < MaxFrame
        /\ len' \in EoiLen..(wr - start + EoiLen)

Drop ==
  /\ frame' = None /\ len' = 0
  /\ UNCHANGED <<jpeg, fresh>>

(* Mutant: the region after a full buffer starts over, whether or not the  *)
(* largest frame fits.                                                     *)
NextRegion_NoRoomCheck ==
  /\ start' = IF wr < BufSize THEN wr ELSE 0
  /\ wr' = start' /\ live' = (live \/ wr >= BufSize)

(* Mutant: every region starts at the start of the buffer.                 *)
NextRegion_AlwaysRestarts == start' = 0 /\ wr' = 0 /\ live' = TRUE

(* The largest frame must fit behind the region, else the next one is at   *)
(* the start of the buffer, and can grow again; unless the capture         *)
(* overflowed by then.                                                     *)
NextRegion ==
  LET fits == wr + MaxFrame <= BufSize IN
  /\ start' = IF fits THEN wr ELSE 0
  /\ \/ live' = (live \/ ~fits) /\ wr' = start'
     \/ /\ live \/ ~fits
        /\ live' = FALSE
        /\ wr' \in {start', start' + XferSize}

EndRegion == (Publish \/ Drop) /\ NextRegion

(* A mode change clears the frame, then its length.                        *)
Clear ==
  /\ \/ frame' = None /\ UNCHANGED len
     \/ len' = 0 /\ UNCHANGED frame
  /\ UNCHANGED <<start, wr, live, jpeg, fresh>>

Next == Grow \/ Stop \/ EndRegion \/ Clear

Spec == Init /\ [][Next]_ringVars
=============================================================================
