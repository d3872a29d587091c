-------------------------------- MODULE Lcd --------------------------------
(***************************************************************************)
(* The display, BSP/cLcd: the app thread draws into one of two frame       *)
(* buffers, by itself or with the DMA2D, and presents it to the LTDC.      *)
(*                                                                         *)
(* It waits for the DMA2D and for the LTDC at a binary semaphore each,     *)
(* which their interrupt handlers give.  vSemaphoreCreateBinary creates    *)
(* them given, so that the first wait, and perhaps every wait after it, is *)
(* over one event too early.                                               *)
(*                                                                         *)
(* The LTDC takes a new frame buffer address in the vertical blanking,     *)
(* and interrupts at line 0, some lines later.  A display frame and a      *)
(* DMA2D transfer are much shorter than the 100 ticks a wait is given, so  *)
(* a wait ends by its timeout only if nothing would ever end it.           *)
(*                                                                         *)
(* A box is filled by the DMA2D or drawn by the thread itself.  Text is    *)
(* drawn by the DMA2D, in a transfer for each glyph, and nobody waits for  *)
(* the last one before the picture is presented.                           *)
(***************************************************************************)
EXTENDS Naturals

VARIABLES
  appPc,        \* where the app thread is in its loop
  mFrameBuf,    \* the frame buffer it draws into, 0 or 1
  mFrameWait, mFrameSem,
  mDma2dWait,   \* it is eWaitIrq
  mDma2dSem,
  running,      \* the DMA2D transfers
  CFBAR,        \* the address the LTDC will take
  reload,       \* ... in the next vertical blanking (VBR)
  shown,        \* the frame buffer it displays
  porch,        \* between the blanking's start and line 0
  presented     \* history: present() has returned

dma2dVars == <<mDma2dWait, mDma2dSem, running>>
frameVars == <<mFrameWait, mFrameSem>>
ltdcVars == <<CFBAR, reload, shown, porch>>
lcdVars == <<appPc, mFrameBuf, frameVars, dma2dVars, ltdcVars, presented>>

(* The constructor and init.                                               *)
LcdInit ==
  /\ appPc = "loop" /\ mFrameBuf = 0
  /\ mFrameWait = FALSE /\ mFrameSem = TRUE
  /\ mDma2dWait = FALSE /\ mDma2dSem = TRUE /\ running = FALSE
  /\ CFBAR = 0 /\ shown = 0 /\ reload = FALSE /\ porch = FALSE
  /\ presented = FALSE

-----------------------------------------------------------------------------
(* ready(), which every drawing function calls before it draws: a box out  *)
(* of "loop", or a glyph, the first of the text out of "loop", the next    *)
(* ones out of "text".  Mutant: the wait is remembered.                    *)
WaitAfterReady_Kept == mDma2dWait
WaitAfterReady == FALSE

Ready(from, to) ==
  /\ appPc = from /\ appPc' = to
  /\ mDma2dWait => mDma2dSem
  /\ mDma2dSem' = (mDma2dSem /\ ~mDma2dWait) /\ mDma2dWait' = WaitAfterReady
  /\ UNCHANGED <<mFrameBuf, frameVars, running, ltdcVars, presented>>

ReadyBox == Ready("loop", "box")
ReadyText == Ready("loop", "glyph")
ReadyGlyph == Ready("text", "glyph")

(* fillRect, displayChar8.  Programming a DMA2D that runs has no effect.   *)
StartDma2d(from, to) ==
  /\ appPc = from /\ appPc' = to
  /\ running' = TRUE /\ mDma2dWait' = TRUE
  /\ UNCHANGED <<mFrameBuf, frameVars, mDma2dSem, ltdcVars, presented>>

FillBox == StartDma2d("box", "loop")
StartGlyph == StartDma2d("glyph", "text")

(* The lines of a picture in zoom565.                                      *)
DrawBox ==
  /\ appPc = "box" /\ appPc' = "loop"
  /\ UNCHANGED <<mFrameBuf, frameVars, dma2dVars, ltdcVars, presented>>

DMA2D_IRQHandler ==
  /\ running /\ running' = FALSE /\ mDma2dSem' = TRUE
  /\ UNCHANGED <<appPc, mFrameBuf, frameVars, mDma2dWait, ltdcVars, presented>>

-----------------------------------------------------------------------------
(* present(), straight after the text.                                     *)
Then == [text |-> "reload", reload |-> "wait", wait |-> "take",
         take |-> "flip", flip |-> "loop"]
Step(pc) == appPc = pc /\ appPc' = Then[pc]

SetCFBAR ==
  /\ Step("text") /\ CFBAR' = mFrameBuf
  /\ UNCHANGED <<mFrameBuf, frameVars, dma2dVars, reload, shown, porch,
                 presented>>

SetVBR ==
  /\ Step("reload") /\ reload' = TRUE
  /\ UNCHANGED <<mFrameBuf, frameVars, dma2dVars, CFBAR, shown, porch,
                 presented>>

SetFrameWait ==
  /\ Step("wait") /\ mFrameWait' = TRUE
  /\ UNCHANGED <<mFrameBuf, mFrameSem, dma2dVars, ltdcVars, presented>>

TakeFrameSem ==
  /\ Step("take") /\ mFrameSem /\ mFrameSem' = FALSE
  /\ UNCHANGED <<mFrameBuf, mFrameWait, dma2dVars, ltdcVars, presented>>

(* Mutant: it draws on in the buffer it presents.                          *)
Flipped_Not == mFrameBuf
Flipped == 1 - mFrameBuf

Flip ==
  /\ Step("flip") /\ mFrameBuf' = Flipped /\ presented' = TRUE
  /\ UNCHANGED <<frameVars, dma2dVars, ltdcVars>>

-----------------------------------------------------------------------------
(* The LTDC.                                                               *)
VerticalBlanking ==
  /\ ~porch /\ porch' = TRUE
  /\ reload' = FALSE /\ shown' = IF reload THEN CFBAR ELSE shown
  /\ UNCHANGED <<appPc, mFrameBuf, frameVars, dma2dVars, CFBAR, presented>>

(* Mutants: the handler does not look whether anybody waits; it clears     *)
(* mFrameWait before it looks.                                             *)
Gives_Always == TRUE
Gives_ClearsFirst == mFrameSem
Gives == mFrameSem \/ mFrameWait

LTDC_IRQHandler ==
  /\ porch /\ porch' = FALSE
  /\ mFrameSem' = Gives /\ mFrameWait' = FALSE
  /\ UNCHANGED <<appPc, mFrameBuf, dma2dVars, CFBAR, reload, shown, presented>>

Draw == ReadyBox \/ FillBox \/ DrawBox \/ ReadyText \/ ReadyGlyph \/ StartGlyph
Present == SetCFBAR \/ SetVBR \/ SetFrameWait \/ TakeFrameSem \/ Flip
LcdIrq == DMA2D_IRQHandler \/ VerticalBlanking \/ LTDC_IRQHandler

LcdNext == Draw \/ Present \/ LcdIrq
LcdSpec == LcdInit /\ [][LcdNext]_lcdVars
-----------------------------------------------------------------------------
LcdTypeOK ==
  /\ appPc \in {"loop", "box", "glyph", "text", "reload", "wait", "take",
               "flip"}
  /\ {mFrameBuf, CFBAR, shown} \subseteq {0, 1}
  /\ {mFrameWait, mFrameSem, mDma2dWait, mDma2dSem} \subseteq BOOLEAN
  /\ {running, reload, porch, presented} \subseteq BOOLEAN

(* Nobody waits in vain: while the app thread waits for a semaphore, the   *)
(* interrupt that gives it is to come, so that no wait lasts the 100 ticks *)
(* that would make the display stutter.                                    *)
NeverWaitsInVain ==
  /\ appPc \in {"loop", "text"} /\ mDma2dWait /\ ~mDma2dSem => running
  /\ appPc = "take" /\ ~mFrameSem => mFrameWait

(* A semaphore is in step when it is given only for what is waited for.    *)
(* Both start out of step.                                                 *)
Dma2dInStep ==
  /\ running => mDma2dWait /\ ~mDma2dSem
  /\ ~running => (mDma2dWait <=> mDma2dSem)
FrameInStep ==
  /\ appPc = "take" => (mFrameWait <=> ~mFrameSem)
  /\ appPc # "take" => ~mFrameWait /\ ~mFrameSem

(* Being too early does not come back: once a semaphore is in step, which  *)
(* happens when a give finds it given, a transfer is lost or two pictures  *)
(* are presented within a display frame, no interleaving of the app thread *)
(* with the interrupts gets it out of step again.                          *)
StaysInStep ==
  [][(Dma2dInStep => Dma2dInStep') /\ (FrameInStep => FrameInStep')]_lcdVars

(* The picture: the app thread draws into the buffer on display at most    *)
(* until the next vertical blanking, in which the other one is taken; and  *)
(* when the DMA2D's semaphore is in step, the thread neither draws nor     *)
(* programs the DMA2D while it runs.  It does present a picture while the  *)
(* DMA2D draws its last glyph, but begins no other before that is done.    *)
PictureIsSafe ==
  /\ presented /\ appPc \in {"loop", "box", "glyph", "text"}
     /\ shown = mFrameBuf => reload /\ CFBAR # mFrameBuf
  /\ Dma2dInStep /\ appPc \in {"box", "glyph"} => ~running
=============================================================================
