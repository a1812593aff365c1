------------------------------ MODULE MCDrivers -------------------------------
(* Decoders are interchangeable: nothing in PluginDrivers orders them.     *)
EXTENDS PluginDrivers, TLC

DecoderSymmetry == Permutations(Decoders)

==============================================================================
