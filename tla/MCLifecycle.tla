------------------------------ MODULE MCLifecycle -----------------------------
(* Two decoders of either build, of which every step may fail.             *)
EXTENDS DecoderLifecycle

ASSUME LifecycleConstants

==============================================================================
