----------------------------- MODULE DebugLines -----------------------------
(***************************************************************************)
(* The debug lines of BSP/cLcd: every thread writes lines into a ring with *)
(* debug(), the touch thread clears them, and the app thread draws the     *)
(* latest.  Nothing is locked: a thread is preempted between any two       *)
(* accesses of mDebugLine.                                                 *)
(*                                                                         *)
(* Of a line only matters whether it has been used: its mStr is a null     *)
(* pointer until then.  Its text and its time may be any.  There is no     *)
(* scrolling: nothing calls onKey.                                         *)
(***************************************************************************)
EXTENDS Naturals

CONSTANTS
  Writers,         \* the threads that call debug()
  kDebugMaxLines,
  mDisplayLines,
  MaxLines         \* bound: lines that are written between two clears

ASSUME DebugAssumption ==
  /\ {kDebugMaxLines, mDisplayLines, MaxLines} \subseteq Nat \ {0}
  /\ mDisplayLines <= kDebugMaxLines /\ MaxLines >= mDisplayLines

VARIABLES
  mDebugLine,
  mLines,          \* the lines that have been used
  writer,          \* where each thread is in debug()
  line, next,      \* its local variable, and its mDebugLine++ under way
  drawPc,          \* where drawDebug is
  displayLine, debugLine,
  raced            \* history: two threads were in debug() at once, or
                   \* clearDebug came within drawDebug's look for a line

writerVars == <<mDebugLine, mLines, writer, line, next>>
drawVars == <<drawPc, displayLine, debugLine>>
debugVars == <<writerVars, drawVars, raced>>

Lines == 0 .. kDebugMaxLines - 1

DebugInit ==
  /\ mDebugLine = 0 /\ mLines = {}
  /\ writer = [w \in Writers |-> "idle"]
  /\ line = [w \in Writers |-> 0] /\ next = [w \in Writers |-> 0]
  /\ drawPc = "idle" /\ displayLine = 0 /\ debugLine = 0 /\ raced = FALSE

-----------------------------------------------------------------------------
(* debug(): the line, its text and time, and mDebugLine++.                 *)
Goes(w, from, to) == writer[w] = from /\ writer' = [writer EXCEPT ![w] = to]

DebugBegin(w) ==
  /\ mDebugLine < MaxLines
  /\ Goes(w, "idle", "begun")
  /\ line' = [line EXCEPT ![w] = mDebugLine % kDebugMaxLines]
  /\ raced' = (raced \/ \E v \in Writers : writer[v] # "idle")
  /\ UNCHANGED <<mDebugLine, mLines, next, drawVars>>

DebugWrite(w) ==
  /\ Goes(w, "begun", "written")
  /\ mLines' = mLines \cup {line[w]}
  /\ UNCHANGED <<mDebugLine, line, next, drawVars, raced>>

DebugLoad(w) ==
  /\ mDebugLine < MaxLines
  /\ Goes(w, "written", "loaded") /\ next' = [next EXCEPT ![w] = mDebugLine + 1]
  /\ UNCHANGED <<mDebugLine, mLines, line, drawVars, raced>>

DebugStore(w) ==
  /\ Goes(w, "loaded", "idle") /\ mDebugLine' = next[w]
  /\ line' = [line EXCEPT ![w] = 0] /\ next' = [next EXCEPT ![w] = 0]
  /\ UNCHANGED <<mLines, drawVars, raced>>

ClearDebug ==
  /\ mDebugLine' = 0 /\ raced' = (raced \/ drawPc = "long")
  /\ UNCHANGED <<mLines, writer, line, next, drawVars>>

-----------------------------------------------------------------------------
(* drawDebug(), which reads mDebugLine up to three times for a line.       *)
(* Mutant: it always takes the ring to be full.                            *)
Index(n, d) == (n - mDisplayLines + d) % kDebugMaxLines
FewLines_Never == FALSE
FewLines == mDebugLine < mDisplayLines

DrawBegin ==
  /\ drawPc = "idle" /\ drawPc' = "next" /\ displayLine' = 0
  /\ UNCHANGED <<writerVars, debugLine, raced>>

DrawNext ==
  /\ drawPc = "next"
  /\ \/ /\ displayLine < mDebugLine /\ displayLine < mDisplayLines
        /\ drawPc' = "look"
        /\ UNCHANGED displayLine
     \/ /\ displayLine >= mDebugLine \/ displayLine >= mDisplayLines
        /\ drawPc' = "done" /\ displayLine' = 0
  /\ UNCHANGED <<writerVars, debugLine, raced>>

(* With the lines cleared in between, the index wraps to a line anywhere   *)
(* in the ring.                                                            *)
DrawLook ==
  /\ \/ /\ drawPc = "look" /\ FewLines
        /\ drawPc' = "line" /\ debugLine' = displayLine
     \/ /\ drawPc = "look" /\ ~FewLines
        /\ drawPc' = "long" /\ UNCHANGED debugLine
     \/ /\ drawPc = "long" /\ drawPc' = "line"
        /\ debugLine' \in IF FewLines THEN Lines
                          ELSE {Index(mDebugLine, displayLine)}
  /\ UNCHANGED <<writerVars, displayLine, raced>>

(* "while (secs > 9)" does not change secs: for a line written after ten   *)
(* seconds it never ends, or the compiler, which may take every loop to    *)
(* end, leaves it out.                                                     *)
DrawLine ==
  /\ drawPc = "line" /\ debugLine' = 0
  /\ \/ /\ debugLine \in mLines /\ drawPc' = "spins"
        /\ UNCHANGED displayLine
     \/ /\ drawPc' = "next" /\ displayLine' = displayLine + 1
  /\ UNCHANGED <<writerVars, raced>>

DrawEnd ==
  /\ drawPc = "done" /\ drawPc' = "idle"
  /\ UNCHANGED <<writerVars, displayLine, debugLine, raced>>

Debug(w) == DebugBegin(w) \/ DebugWrite(w) \/ DebugLoad(w) \/ DebugStore(w)
DrawDebug == DrawNext \/ DrawLook \/ DrawLine
-----------------------------------------------------------------------------
DebugTypeOK ==
  /\ mDebugLine \in 0..MaxLines /\ mLines \subseteq Lines /\ raced \in BOOLEAN
  /\ writer \in [Writers -> {"idle", "begun", "written", "loaded"}]
  /\ line \in [Writers -> Lines] /\ next \in [Writers -> 0..MaxLines]
  /\ drawPc \in {"idle", "next", "look", "long", "line", "spins", "done"}
  /\ displayLine \in 0..mDisplayLines /\ debugLine \in Lines

(* drawDebug never hands the null pointer of a line that was not written   *)
(* to displayString, unless two threads were in debug() at once, or the    *)
(* lines were cleared between two of its looks at mDebugLine: not after    *)
(* the ring has come round, and not when it is cleared at another time.    *)
DrawnLinesExist == drawPc = "line" /\ ~raced => debugLine \in mLines
=============================================================================
