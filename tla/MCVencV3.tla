------------------------------- MODULE MCVencV3 -------------------------------
(* The sizes of MCVencV3.cfg keep the inequalities of the code's.          *)
EXTENDS VencV3

ASSUME VencConstants

==============================================================================
