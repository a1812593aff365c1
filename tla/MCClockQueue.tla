----------------------------- MODULE MCClockQueue -----------------------------
(* A stream for VideoClockQueue with one picture of reordering across the  *)
(* wrap.  (Answers has those that VideoClockQueue is right about.)         *)
EXTENDS VideoClockQueue

WrapStreams == {[start |-> 1991, reorder |-> 1, pending |-> 3]}

==============================================================================
