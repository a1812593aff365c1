------------------------------- MODULE MCVdecV3 -------------------------------
(* The bounds of MCVdecV3.cfg are values the library can have.             *)
EXTENDS VdecV3

ASSUME VdecConstants

(* The bound on what an error of a poll or of a *_RESULT is combined with: *)
(* with one codec, buffers mapped once, a VPU that is late once, and       *)
(* packets at the start of the bitstream buffer.                           *)
ErrorsBound ==
  erred =>
    /\ codec = "avc" /\ slow <= 1
    /\ \A k \in Kinds : replaced[k] = 0
    /\ next.off <= 0 /\ \A i \in DOMAIN answers : answers[i].out.next.off <= 0

==============================================================================
