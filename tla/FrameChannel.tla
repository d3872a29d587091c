---------------------------- MODULE FrameChannel ----------------------------
(***************************************************************************)
(* What a network interface promises of each direction: frames come out in *)
(* the order they went in, whole and at most once.  Some may be lost.      *)
(***************************************************************************)
EXTENDS Naturals, Sequences, SequencesExt

CONSTANT Frames
VARIABLE chan

Init == chan = <<>>

Put(f) == chan' = Append(chan, f)
Lose == \E i \in 1..Len(chan) : chan' = RemoveAt(chan, i)
Take == chan # <<>> /\ chan' = Tail(chan)

Next == (\E f \in Frames : Put(f)) \/ Lose \/ Take
Spec == Init /\ [][Next]_chan
=============================================================================
