--------------------------- MODULE DisplayProofs ---------------------------
(***************************************************************************)
(* Proofs about Display: the semaphores and frame buffers of Lcd, and the  *)
(* ring of DebugLines for every number of writers and lines.               *)
(***************************************************************************)
EXTENDS Display, TLAPS

USE DebugAssumption

-----------------------------------------------------------------------------
(* What Lcd's invariants rest on: where the app thread is in present(),    *)
(* the LTDC has been given the buffer it is about to leave; once ready()   *)
(* has returned nothing is waited for, and what is waited for is to come.  *)
Handed ==
  /\ mFrameBuf \in {0, 1}
  /\ appPc \in {"reload", "wait", "take", "flip"} => CFBAR = mFrameBuf
  /\ appPc \in {"wait", "take", "flip"} => reload \/ shown = CFBAR
  /\ presented /\ appPc \in {"loop", "box", "glyph", "text"} =>
       CFBAR = 1 - mFrameBuf /\ (reload \/ shown = CFBAR)
Waited ==
  /\ appPc \in {"box", "glyph"} => ~mDma2dWait
  /\ mDma2dWait /\ ~mDma2dSem => running

(* A step of the app thread or of an interrupt in Lcd, or none.            *)
LEMMA LcdStep == Next => [LcdNext]_lcdVars
BY DEF Next, App, Irq, Others, DrawBoxes, DrawInfo, DrawGlyphs, BeginDebug,
       DrawDebugLines, BeginPresent, PresentOn, LcdNext, Draw, Present

(* The actions of Lcd, in terms of what they change.                       *)
LEMMA LcdActions ==
  ASSUME [LcdNext]_lcdVars
  PROVE  \/ ReadyBox \/ ReadyText \/ ReadyGlyph
         \/ FillBox \/ StartGlyph \/ DrawBox
         \/ SetCFBAR \/ SetVBR \/ SetFrameWait \/ TakeFrameSem \/ Flip
         \/ DMA2D_IRQHandler \/ VerticalBlanking \/ LTDC_IRQHandler
         \/ UNCHANGED lcdVars
BY DEF LcdNext, Draw, Present, LcdIrq

(* The buffers change hands in present() and in the vertical blanking.     *)
LEMMA HandedKept == Handed /\ [LcdNext]_lcdVars => Handed'
<1> SUFFICES ASSUME Handed, [LcdNext]_lcdVars PROVE Handed'
  OBVIOUS
<1> USE DEF Handed
<1>1. CASE ReadyBox \/ ReadyText \/ ReadyGlyph
  BY <1>1 DEF ReadyBox, ReadyText, ReadyGlyph, Ready, frameVars, ltdcVars
<1>2. CASE FillBox \/ StartGlyph
  BY <1>2 DEF FillBox, StartGlyph, StartDma2d, frameVars, ltdcVars
<1>3. CASE DrawBox
  BY <1>3 DEF DrawBox, frameVars, ltdcVars
<1>4. CASE SetCFBAR
  BY <1>4 DEF SetCFBAR, Step, Then
<1>5. CASE SetVBR
  BY <1>5 DEF SetVBR, Step, Then
<1>6. CASE SetFrameWait
  BY <1>6 DEF SetFrameWait, Step, Then, ltdcVars
<1>7. CASE TakeFrameSem
  BY <1>7 DEF TakeFrameSem, Step, Then, ltdcVars
<1>8. CASE Flip
  BY <1>8 DEF Flip, Step, Then, Flipped, ltdcVars
<1>9. CASE DMA2D_IRQHandler
  BY <1>9 DEF DMA2D_IRQHandler, ltdcVars
<1>10. CASE VerticalBlanking
  BY <1>10 DEF VerticalBlanking
<1>11. CASE LTDC_IRQHandler
  BY <1>11 DEF LTDC_IRQHandler
<1>12. CASE UNCHANGED lcdVars
  BY <1>12 DEF lcdVars, ltdcVars
<1> QED
  BY LcdActions, <1>1, <1>2, <1>3, <1>4, <1>5, <1>6, <1>7, <1>8, <1>9, <1>10,
     <1>11, <1>12

(* ready() leaves nothing to be waited for.                                *)
LEMMA WaitedKept == Waited /\ [LcdNext]_lcdVars => Waited'
<1> SUFFICES ASSUME Waited, [LcdNext]_lcdVars PROVE Waited'
  OBVIOUS
<1> USE DEF Waited
<1>1. CASE ReadyBox \/ ReadyText \/ ReadyGlyph
  BY <1>1 DEF ReadyBox, ReadyText, ReadyGlyph, Ready, WaitAfterReady
<1>2. CASE FillBox \/ StartGlyph
  BY <1>2 DEF FillBox, StartGlyph, StartDma2d
<1>3. CASE DrawBox \/ UNCHANGED lcdVars
  BY <1>3 DEF DrawBox, lcdVars, dma2dVars
<1>4. CASE SetCFBAR \/ SetVBR \/ SetFrameWait \/ TakeFrameSem \/ Flip
  BY <1>4 DEF SetCFBAR, SetVBR, SetFrameWait, TakeFrameSem, Flip, Step, Then,
              dma2dVars
<1>5. CASE DMA2D_IRQHandler \/ VerticalBlanking \/ LTDC_IRQHandler
  BY <1>5 DEF DMA2D_IRQHandler, VerticalBlanking, LTDC_IRQHandler, dma2dVars
<1> QED
  BY LcdActions, <1>1, <1>2, <1>3, <1>4, <1>5

(* An interrupt that is waited for is to come.                             *)
LEMMA WaitsKept ==
  ASSUME NeverWaitsInVain, Waited, [LcdNext]_lcdVars
  PROVE  NeverWaitsInVain'
<1> USE DEF NeverWaitsInVain
<1>1. CASE ReadyBox \/ ReadyText \/ ReadyGlyph
  BY <1>1 DEF ReadyBox, ReadyText, ReadyGlyph, Ready, frameVars
<1>2. CASE FillBox \/ StartGlyph
  BY <1>2 DEF FillBox, StartGlyph, StartDma2d, frameVars
<1>3. CASE DrawBox
  BY <1>3 DEF DrawBox, Waited, dma2dVars
<1>4. CASE SetCFBAR \/ SetVBR \/ TakeFrameSem \/ Flip
  BY <1>4 DEF SetCFBAR, SetVBR, TakeFrameSem, Flip, Step, Then, Waited,
              dma2dVars, frameVars
<1>5. CASE SetFrameWait
  BY <1>5 DEF SetFrameWait, Step, Then, dma2dVars
<1>6. CASE DMA2D_IRQHandler
  BY <1>6 DEF DMA2D_IRQHandler, frameVars
<1>7. CASE VerticalBlanking
  BY <1>7 DEF VerticalBlanking, frameVars, dma2dVars
<1>8. CASE LTDC_IRQHandler
  BY <1>8 DEF LTDC_IRQHandler, Gives, dma2dVars
<1>9. CASE UNCHANGED lcdVars
  BY <1>9 DEF lcdVars, frameVars, dma2dVars
<1> QED
  BY LcdActions, <1>1, <1>2, <1>3, <1>4, <1>5, <1>6, <1>7, <1>8, <1>9

(* The DMA2D's semaphore stays in step.                                    *)
LEMMA Dma2dStaysInStep ==
  ASSUME Waited, [LcdNext]_lcdVars, Dma2dInStep
  PROVE  Dma2dInStep'
<1> USE DEF Dma2dInStep
<1>1. CASE ReadyBox \/ ReadyText \/ ReadyGlyph
  <2>1. ~running /\ ~mDma2dWait' /\ UNCHANGED running
    BY <1>1 DEF ReadyBox, ReadyText, ReadyGlyph, Ready, WaitAfterReady
  <2>2. ~mDma2dSem'
    BY <1>1, <2>1 DEF ReadyBox, ReadyText, ReadyGlyph, Ready
  <2> QED
    BY <2>1, <2>2
<1>2. CASE FillBox \/ StartGlyph
  BY <1>2 DEF FillBox, StartGlyph, StartDma2d, Waited
<1>3. CASE DrawBox \/ UNCHANGED lcdVars
  BY <1>3 DEF DrawBox, lcdVars, dma2dVars
<1>4. CASE SetCFBAR \/ SetVBR \/ SetFrameWait \/ TakeFrameSem \/ Flip
  BY <1>4 DEF SetCFBAR, SetVBR, SetFrameWait, TakeFrameSem, Flip, dma2dVars
<1>5. CASE DMA2D_IRQHandler
  BY <1>5 DEF DMA2D_IRQHandler
<1>6. CASE VerticalBlanking \/ LTDC_IRQHandler
  BY <1>6 DEF VerticalBlanking, LTDC_IRQHandler, dma2dVars
<1> QED
  BY LcdActions, <1>1, <1>2, <1>3, <1>4, <1>5, <1>6

(* The LTDC's semaphore stays in step.                                     *)
LEMMA FrameStaysInStep ==
  ASSUME [LcdNext]_lcdVars, FrameInStep
  PROVE  FrameInStep'
<1> USE DEF FrameInStep
<1>1. CASE ReadyBox \/ ReadyText \/ ReadyGlyph \/ FillBox \/ StartGlyph
  BY <1>1 DEF ReadyBox, ReadyText, ReadyGlyph, Ready, FillBox, StartGlyph,
              StartDma2d, frameVars
<1>2. CASE DrawBox \/ UNCHANGED lcdVars
  BY <1>2 DEF DrawBox, lcdVars, frameVars
<1>3. CASE SetCFBAR \/ SetVBR \/ Flip
  BY <1>3 DEF SetCFBAR, SetVBR, Flip, Step, Then, frameVars
<1>4. CASE SetFrameWait
  BY <1>4 DEF SetFrameWait, Step, Then
<1>5. CASE TakeFrameSem
  BY <1>5 DEF TakeFrameSem, Step, Then
<1>6. CASE DMA2D_IRQHandler \/ VerticalBlanking
  BY <1>6 DEF DMA2D_IRQHandler, VerticalBlanking, frameVars
<1>7. CASE LTDC_IRQHandler
  BY <1>7 DEF LTDC_IRQHandler, Gives
<1> QED
  BY LcdActions, <1>1, <1>2, <1>3, <1>4, <1>5, <1>6, <1>7

-----------------------------------------------------------------------------
LcdInv == Handed /\ Waited /\ NeverWaitsInVain

(* The display's invariant holds at the start, ...                         *)
LEMMA LcdStarts == Init => LcdInv
BY DEF Init, LcdInit, LcdInv, Handed, Waited, NeverWaitsInVain

(* ... and every step of any thread or interrupt keeps it.                 *)
LEMMA LcdKept == LcdInv /\ [Next]_vars => LcdInv'
<1> SUFFICES ASSUME LcdInv, [Next]_vars PROVE LcdInv'
  OBVIOUS
<1>1. [LcdNext]_lcdVars
  BY LcdStep DEF vars
<1> QED
  BY <1>1, HandedKept, WaitedKept, WaitsKept DEF LcdInv

(* In every behaviour of the app thread's loop with the interrupts and the *)
(* other threads, ready() and present() never wait for an interrupt that   *)
(* does not come.                                                          *)
THEOREM NoVainWait == Spec => []NeverWaitsInVain
<1>1. LcdInv => NeverWaitsInVain
  BY DEF LcdInv
<1> QED
  BY <1>1, LcdStarts, LcdKept, PTL DEF Spec

(* What is drawn into is not on display beyond the next vertical blanking, *)
(* and when the DMA2D's semaphore is in step the thread neither draws nor  *)
(* starts a transfer while one runs, though it may present the picture     *)
(* whose last glyph is still to be transferred.                            *)
THEOREM SafePicture == Spec => []PictureIsSafe
<1>1. LcdInv => PictureIsSafe
  BY DEF LcdInv, Handed, Waited, PictureIsSafe, Dma2dInStep
<1> QED
  BY <1>1, LcdStarts, LcdKept, PTL DEF Spec

(* A semaphore that is in step with its interrupt stays so.                *)
THEOREM InStepForGood == Spec => StaysInStep
<1>1. LcdInv /\ [Next]_vars =>
        [(Dma2dInStep => Dma2dInStep') /\ (FrameInStep => FrameInStep')]_lcdVars
  <2> SUFFICES ASSUME LcdInv, [Next]_vars
               PROVE  (Dma2dInStep => Dma2dInStep')
                      /\ (FrameInStep => FrameInStep')
    OBVIOUS
  <2>1. [LcdNext]_lcdVars
    BY LcdStep DEF vars
  <2> QED
    BY <2>1, Dma2dStaysInStep, FrameStaysInStep DEF LcdInv
<1> QED
  BY <1>1, LcdStarts, LcdKept, PTL DEF Spec, StaysInStep

-----------------------------------------------------------------------------
(* The ring's slot of a line, as far as the proofs need it.                *)
Slot(x) == x % kDebugMaxLines
LEMMA Remainder ==
  ASSUME NEW x \in Nat
  PROVE  Slot(x) \in Lines /\ (x < kDebugMaxLines => Slot(x) = x)
BY DEF Lines, Slot

(* What the lines' invariant rests on.                                     *)
LinesTyped ==
  /\ mDebugLine \in Nat
  /\ line \in [Writers -> Lines] /\ next \in [Writers -> Nat]
  /\ writer \in [Writers -> {"idle", "begun", "written", "loaded"}]
  /\ displayLine \in Nat /\ debugLine \in Lines
  /\ drawPc \in {"look", "long"} => displayLine < mDisplayLines

OneWriter ==
  \A v, w \in Writers : writer[v] # "idle" /\ writer[w] # "idle" => v = w

Filled(n) == \A l \in Lines : l < n => l \in mLines

(* The thread in debug() takes the count to one more than what is filled,  *)
(* also when the lines are cleared meanwhile.                              *)
Writing(w) ==
  /\ writer[w] = "begun" =>
       line[w] = Slot(mDebugLine) \/ (mDebugLine = 0 /\ 0 \in mLines)
  /\ writer[w] = "written" => Filled(mDebugLine + 1)
  /\ writer[w] = "loaded" =>
       Filled(next[w]) /\ (mDebugLine = 0 \/ next[w] = mDebugLine + 1)

Drawing ==
  /\ drawPc = "look" => displayLine \in mLines
  /\ drawPc = "long" => mDebugLine >= mDisplayLines
  /\ drawPc = "line" => debugLine \in mLines

InOrder ==
  OneWriter /\ Filled(mDebugLine) /\ (\A w \in Writers : Writing(w)) /\ Drawing
LinesInv == LinesTyped /\ (~raced => InOrder)

DebugNext ==
  \/ \E w \in Writers : Debug(w)
  \/ ClearDebug \/ DrawBegin \/ DrawDebug \/ DrawEnd

(* A step of debug(), clearDebug() or drawDebug(), or none of them.        *)
LEMMA DebugStep == Next => [DebugNext]_debugVars
BY DEF Next, App, Irq, Others, DrawBoxes, DrawInfo, DrawGlyphs, BeginDebug,
       DrawDebugLines, BeginPresent, PresentOn, DebugNext

(* The steps of debug() keep the types.                                    *)
LEMMA WritersTyped ==
  ASSUME LinesTyped, NEW w \in Writers, Debug(w)
  PROVE  LinesTyped'
<1> USE DEF LinesTyped, Goes, drawVars
<1>1. CASE DebugBegin(w)
  BY <1>1, Remainder DEF DebugBegin, Slot
<1>2. CASE DebugWrite(w)
  BY <1>2 DEF DebugWrite
<1>3. CASE DebugLoad(w)
  BY <1>3 DEF DebugLoad
<1>4. CASE DebugStore(w)
  <2>1. 0 \in Lines
    BY DEF Lines
  <2> QED
    BY <1>4, <2>1 DEF DebugStore
<1> QED
  BY <1>1, <1>2, <1>3, <1>4 DEF Debug

(* The steps of drawDebug() and clearDebug() keep the types.               *)
LEMMA DrawTyped ==
  ASSUME LinesTyped,
         ClearDebug \/ DrawBegin \/ DrawDebug \/ DrawEnd \/ UNCHANGED debugVars
  PROVE  LinesTyped'
<1> USE DEF LinesTyped, writerVars, drawVars
<1>1. CASE ClearDebug \/ DrawBegin \/ DrawEnd \/ UNCHANGED debugVars
  BY <1>1 DEF ClearDebug, DrawBegin, DrawEnd, debugVars
<1>2. CASE DrawNext
  BY <1>2 DEF DrawNext
<1>3. CASE DrawLook
  <2>1. CASE drawPc = "look" /\ FewLines
    <3>1. displayLine \in Lines
      BY <2>1 DEF Lines
    <3> QED
      BY <1>3, <2>1, <3>1 DEF DrawLook
  <2>2. CASE drawPc = "look" /\ ~FewLines
    BY <1>3, <2>2 DEF DrawLook
  <2>3. CASE drawPc = "long" /\ FewLines
    BY <1>3, <2>3 DEF DrawLook
  <2>4. CASE drawPc = "long" /\ ~FewLines
    <3>1. mDebugLine - mDisplayLines + displayLine \in Nat
      BY <2>4 DEF FewLines
    <3>2. Index(mDebugLine, displayLine) \in Lines
      BY <3>1, Remainder DEF Index, Slot
    <3> QED
      BY <1>3, <2>4, <3>2 DEF DrawLook
  <2> QED
    BY <1>3, <2>1, <2>2, <2>3, <2>4 DEF DrawLook
<1>4. CASE DrawLine
  <2>1. 0 \in Lines
    BY DEF Lines
  <2> QED
    BY <1>4, <2>1 DEF DrawLine
<1> QED
  BY <1>1, <1>2, <1>3, <1>4 DEF DrawDebug

(* debug() keeps the order of things as long as it is alone.               *)
LEMMA WritersInOrder ==
  ASSUME LinesTyped, InOrder, NEW w \in Writers, Debug(w), ~raced'
  PROVE  InOrder'
<1> USE DEF LinesTyped, Goes
<1>1. CASE DebugBegin(w)
  <2>1. \A v \in Writers : writer[v] = "idle"
    BY <1>1 DEF DebugBegin
  <2>2. /\ writer' = [writer EXCEPT ![w] = "begun"]
        /\ line' = [line EXCEPT ![w] = Slot(mDebugLine)]
        /\ UNCHANGED <<mDebugLine, mLines, next, drawPc, displayLine,
                       debugLine>>
    BY <1>1 DEF DebugBegin, drawVars, Slot
  <2>3. OneWriter'
    BY <2>1, <2>2 DEF OneWriter
  <2>4. /\ line'[w] = Slot(mDebugLine) /\ writer'[w] = "begun"
        /\ \A v \in Writers : v # w => writer'[v] = "idle"
    BY <2>1, <2>2, Remainder
  <2>5. line'[w] = Slot(mDebugLine')
    BY <2>2, <2>4
  <2>6. \A v \in Writers : Writing(v)'
    BY <2>4, <2>5 DEF Writing
  <2> QED
    BY <2>2, <2>3, <2>6 DEF InOrder, Drawing, Filled
<1>2. CASE DebugWrite(w)
  <2>1. /\ writer[w] = "begun" /\ writer' = [writer EXCEPT ![w] = "written"]
        /\ mLines' = mLines \cup {line[w]}
        /\ UNCHANGED <<mDebugLine, line, next, drawPc, displayLine, debugLine>>
    BY <1>2 DEF DebugWrite, drawVars
  <2>2. \A v \in Writers : v # w => writer[v] = "idle"
    BY <2>1 DEF InOrder, OneWriter
  <2>3. Filled(mDebugLine)'
    BY <2>1 DEF InOrder, Filled
  <2>4. (mDebugLine \in Lines => mDebugLine \in mLines)'
    BY <2>1, Remainder DEF InOrder, Writing, Lines
  <2>5. Filled(mDebugLine + 1)'
    BY <2>1, <2>3, <2>4 DEF Filled, Lines
  <2>6. OneWriter' /\ \A v \in Writers : Writing(v)'
    BY <2>1, <2>2, <2>5 DEF OneWriter, Writing
  <2> QED
    BY <2>1, <2>3, <2>6 DEF InOrder, Drawing
<1>3. CASE DebugLoad(w)
  <2>1. /\ writer[w] = "written" /\ writer' = [writer EXCEPT ![w] = "loaded"]
        /\ next' = [next EXCEPT ![w] = mDebugLine + 1]
        /\ UNCHANGED <<mDebugLine, mLines, line, drawPc, displayLine,
                       debugLine>>
    BY <1>3 DEF DebugLoad, drawVars
  <2>2. \A v \in Writers : v # w => writer[v] = "idle"
    BY <2>1 DEF InOrder, OneWriter
  <2>3. Filled(mDebugLine + 1)
    BY <2>1 DEF InOrder, Writing
  <2>4. OneWriter' /\ \A v \in Writers : Writing(v)'
    BY <2>1, <2>2, <2>3 DEF OneWriter, Writing, Filled
  <2> QED
    BY <2>1, <2>4 DEF InOrder, Drawing, Filled
<1>4. CASE DebugStore(w)
  <2>1. /\ writer[w] = "loaded" /\ writer' = [writer EXCEPT ![w] = "idle"]
        /\ mDebugLine' = next[w]
        /\ UNCHANGED <<mLines, drawPc, displayLine, debugLine>>
    BY <1>4 DEF DebugStore, drawVars
  <2>2. \A v \in Writers : writer'[v] = "idle"
    BY <2>1 DEF InOrder, OneWriter
  <2>3. OneWriter' /\ \A v \in Writers : Writing(v)'
    BY <2>2 DEF OneWriter, Writing
  <2>4. Filled(next[w]) /\ (mDebugLine = 0 \/ next[w] = mDebugLine + 1)
    BY <2>1 DEF InOrder, Writing
  <2>5. Filled(mDebugLine)'
    BY <2>1, <2>4 DEF Filled
  <2>6. Drawing'
    BY <2>1, <2>4 DEF InOrder, Drawing
  <2> QED
    BY <2>3, <2>5, <2>6 DEF InOrder
<1> QED
  BY <1>1, <1>2, <1>3, <1>4 DEF Debug

(* clearDebug() keeps it, if it does not come within drawDebug's look for  *)
(* a line.                                                                 *)
LEMMA ClearInOrder ==
  ASSUME LinesTyped, InOrder, ClearDebug, ~raced'
  PROVE  InOrder'
<1> USE DEF LinesTyped
<1>1. /\ mDebugLine' = 0 /\ drawPc # "long"
      /\ UNCHANGED <<mLines, writer, line, next, drawPc, displayLine,
                     debugLine>>
  BY DEF ClearDebug, drawVars
<1>2. 0 \in Lines
  BY DEF Lines
<1>3. Filled(0)
  BY DEF Filled, Lines
<1>4. Filled(mDebugLine)' /\ Drawing' /\ OneWriter'
  BY <1>1, <1>3 DEF InOrder, Drawing, OneWriter, Filled
<1>5. ASSUME NEW v \in Writers PROVE Writing(v)'
  <2>1. CASE writer[v] = "begun"
    <3>1. line[v] = Slot(mDebugLine) \/ 0 \in mLines
      BY <2>1 DEF InOrder, Writing
    <3>2. mDebugLine > 0 => 0 \in mLines
      BY <1>2 DEF InOrder, Filled
    <3>3. Slot(0) = 0
      BY Remainder
    <3>4. line[v] = 0 \/ 0 \in mLines
      BY <3>1, <3>2, <3>3
    <3>5. Slot(mDebugLine') = 0
      BY <1>1, <3>3
    <3>6. line'[v] = Slot(mDebugLine') \/ 0 \in mLines'
      BY <1>1, <3>4, <3>5
    <3>7. writer'[v] = "begun"
      BY <1>1, <2>1
    <3> QED
      BY <1>1, <3>6, <3>7 DEF Writing
  <2>2. CASE writer[v] = "written"
    <3>1. 0 \in mLines
      BY <1>2, <2>2 DEF InOrder, Writing, Filled
    <3> QED
      BY <1>1, <2>2, <3>1 DEF Writing, Filled, Lines
  <2>3. CASE writer[v] = "loaded"
    BY <1>1, <2>3 DEF InOrder, Writing, Filled
  <2> QED
    BY <1>1, <2>1, <2>2, <2>3 DEF Writing
<1> QED
  BY <1>4, <1>5 DEF InOrder

(* drawDebug() takes up only lines that are filled.                        *)
LEMMA DrawInOrder ==
  ASSUME LinesTyped, InOrder, DrawBegin \/ DrawDebug \/ DrawEnd
  PROVE  InOrder'
<1> USE DEF LinesTyped
<1>1. UNCHANGED <<mDebugLine, mLines, writer, line, next>>
  BY DEF DrawBegin, DrawDebug, DrawNext, DrawLook, DrawLine, DrawEnd, writerVars
<1>2. Filled(mDebugLine)' /\ OneWriter' /\ \A v \in Writers : Writing(v)'
  BY <1>1 DEF InOrder, Filled, OneWriter, Writing
<1>3. CASE DrawBegin \/ DrawLine \/ DrawEnd
  BY <1>2, <1>3 DEF DrawBegin, DrawLine, DrawEnd, InOrder, Drawing
<1>4. CASE DrawNext
  <2>1. CASE drawPc' = "look"
    <3>1. displayLine \in Lines /\ displayLine < mDebugLine
      BY <1>4, <2>1 DEF DrawNext, Lines
    <3>2. displayLine \in mLines
      BY <3>1 DEF InOrder, Filled
    <3> QED
      BY <1>1, <1>2, <1>4, <2>1, <3>2 DEF DrawNext, InOrder, Drawing
  <2>2. CASE drawPc' = "done"
    BY <1>2, <2>2 DEF InOrder, Drawing
  <2> QED
    BY <1>4, <2>1, <2>2 DEF DrawNext
<1>5. CASE DrawLook
  <2>1. CASE drawPc = "look" /\ FewLines
    BY <1>1, <1>2, <1>5, <2>1 DEF DrawLook, InOrder, Drawing
  <2>2. CASE drawPc = "look" /\ ~FewLines
    BY <1>1, <1>2, <1>5, <2>2 DEF DrawLook, InOrder, Drawing, FewLines
  <2>3. CASE drawPc = "long"
    <3>1. ~FewLines /\ drawPc' = "line"
      BY <1>5, <2>3 DEF DrawLook, InOrder, Drawing, FewLines
    <3>2. debugLine' = Index(mDebugLine, displayLine)
      BY <1>5, <2>3, <3>1 DEF DrawLook
    <3> DEFINE x == mDebugLine - mDisplayLines + displayLine
    <3>3. x \in Nat /\ x < mDebugLine
      BY <2>3, <3>1 DEF FewLines
    <3>4. Slot(x) \in Lines /\ (x < kDebugMaxLines => Slot(x) = x)
      BY <3>3, Remainder
    <3> HIDE DEF x
    <3>5. Slot(x) < mDebugLine
      BY <3>3, <3>4 DEF Lines
    <3>6. Slot(x) \in mLines
      BY <3>4, <3>5 DEF InOrder, Filled
    <3>7. debugLine' \in mLines
      BY <3>2, <3>6 DEF Index, Slot, x
    <3> QED
      BY <1>1, <1>2, <3>1, <3>7 DEF InOrder, Drawing
  <2> QED
    BY <1>5, <2>1, <2>2, <2>3 DEF DrawLook
<1> QED
  BY <1>3, <1>4, <1>5 DEF DrawDebug

(* The lines' invariant is inductive.                                      *)
LEMMA LinesStart == Init => LinesInv
<1>1. 0 \in Lines
  BY DEF Lines
<1> SUFFICES ASSUME DebugInit PROVE LinesInv
  BY DEF Init
<1>2. LinesTyped
  BY <1>1 DEF DebugInit, LinesTyped
<1>3. OneWriter /\ Drawing /\ \A w \in Writers : Writing(w)
  BY DEF DebugInit, OneWriter, Drawing, Writing
<1>4. Filled(mDebugLine)
  BY DEF DebugInit, Filled, Lines
<1> QED
  BY <1>2, <1>3, <1>4 DEF LinesInv, InOrder

(* Every step of any thread or interrupt keeps it.                         *)
LEMMA LinesKept == LinesInv /\ [Next]_vars => LinesInv'
<1> SUFFICES ASSUME LinesInv, [Next]_vars PROVE LinesInv'
  OBVIOUS
<1> USE DEF LinesInv
<1>1. [DebugNext]_debugVars
  BY DebugStep DEF vars
<1>2. LinesTyped'
  BY <1>1, WritersTyped, DrawTyped DEF DebugNext
<1>3. ASSUME ~raced' PROVE ~raced
  BY <1>1, <1>3 DEF DebugNext, Debug, DebugBegin, DebugWrite, DebugLoad,
     DebugStore, ClearDebug, DrawBegin, DrawDebug, DrawNext, DrawLook, DrawLine,
     DrawEnd, debugVars
<1>4. ASSUME ~raced' PROVE InOrder'
  <2>1. CASE UNCHANGED debugVars
    BY <1>3, <1>4, <2>1 DEF debugVars, writerVars, drawVars, InOrder, OneWriter,
       Filled, Writing, Drawing
  <2> QED
    BY <1>1, <1>3, <1>4, <2>1, WritersInOrder, ClearInOrder, DrawInOrder
       DEF DebugNext
<1> QED
  BY <1>2, <1>4

(* Whatever the size of the ring and however often it has come round or    *)
(* been cleared, drawDebug draws lines that exist, unless debug() or       *)
(* clearDebug() raced.                                                     *)
THEOREM LinesExist == Spec => []DrawnLinesExist
<1>1. LinesInv => DrawnLinesExist
  BY DEF LinesInv, InOrder, Drawing, DrawnLinesExist
<1> QED
  BY <1>1, LinesStart, LinesKept, PTL DEF Spec
=============================================================================
