------------------------------ MODULE Display ------------------------------
(***************************************************************************)
(* The loop of cApp::run: it draws the boxes and the information lines,    *)
(* and with mDebugValue, which the touch thread switches, the debug lines, *)
(* and presents the picture; composed with the interrupts of Lcd and the   *)
(* threads that write and clear the DebugLines.                            *)
(*                                                                         *)
(* The debug lines are text after text: drawDebug runs where the app       *)
(* thread is in its "text", and draws the glyphs of a line before it goes  *)
(* on to the next.                                                         *)
(***************************************************************************)
EXTENDS Lcd, DebugLines

vars == <<lcdVars, debugVars>>

Init == LcdInit /\ DebugInit

DrawBoxes == (ReadyBox \/ FillBox \/ DrawBox) /\ UNCHANGED debugVars
DrawInfo == ReadyText /\ UNCHANGED debugVars
DrawGlyphs ==
  /\ drawPc \in {"idle", "line"} /\ (ReadyGlyph \/ StartGlyph)
  /\ UNCHANGED debugVars

BeginDebug == appPc = "text" /\ DrawBegin /\ UNCHANGED lcdVars
DrawDebugLines == appPc = "text" /\ DrawDebug /\ UNCHANGED lcdVars

(* With mDebugValue the lines come first.                                  *)
BeginPresent ==
  /\ SetCFBAR
  /\ (drawPc = "idle" /\ UNCHANGED debugVars) \/ DrawEnd
PresentOn ==
  (SetVBR \/ SetFrameWait \/ TakeFrameSem \/ Flip) /\ UNCHANGED debugVars

App == DrawBoxes \/ DrawInfo \/ DrawGlyphs \/ BeginDebug \/ DrawDebugLines
       \/ BeginPresent \/ PresentOn
Irq == LcdIrq /\ UNCHANGED debugVars
Others ==
  /\ (\E w \in Writers : Debug(w)) \/ ClearDebug
  /\ UNCHANGED lcdVars

Next == App \/ Irq \/ Others
Spec == Init /\ [][Next]_vars

(* The app thread is scheduled, a transfer ends, the LTDC scans, and there *)
(* are so many boxes and so many characters in a text: each pass of the    *)
(* loop gets to its text, through its debug lines and to present().  The   *)
(* threads that write debug lines have no duty.                            *)
Fairness ==
  /\ WF_vars(App)
  /\ SF_vars(DrawInfo) /\ SF_vars(DrawDebugLines) /\ SF_vars(BeginPresent)
  /\ WF_vars(DMA2D_IRQHandler /\ UNCHANGED debugVars)
  /\ WF_vars(VerticalBlanking /\ UNCHANGED debugVars)
  /\ WF_vars(LTDC_IRQHandler /\ UNCHANGED debugVars)
FairSpec == Spec /\ Fairness

-----------------------------------------------------------------------------
(* Picture after picture is presented: no semaphore stays away and no      *)
(* writer keeps drawDebug from its end, unless it spins on a line written  *)
(* after ten seconds.                                                      *)
KeepsPresenting == []<>(appPc = "reload") \/ <>[](drawPc = "spins")
=============================================================================
