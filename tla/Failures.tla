-------------------------------- MODULE Failures ---------------------------------
(***************************************************************************)
(* The buffers of a decoder plugin (PluginBuffers), and beside them other  *)
(* components that allocate, open and map and of which every step may      *)
(* fail, checked in one run.  They do not interact: a behaviour is one of  *)
(* a single component, which `part' names.  PluginBuffers, whose           *)
(* properties this run checks as they are, waits in its first state        *)
(* meanwhile; the variables of the others are at "-".  Two parts of one    *)
(* module have different constants: those of a part are the fields of one  *)
(* record.                                                                 *)
(***************************************************************************)
EXTENDS PluginBuffers

CONSTANTS
  EncoderSetup, OldSetup, OldStreamSetup, DriversSetup  \* fields: see the instances

VARIABLES
  part,
  (* VideoEncoder *)
  e_codec, e_resource, heap, plugin, files, e_maps, e_calls, e_inits, e_frames, e_last,
  (* OldVdec *)
  o_calls, o_codec, o_inits, inst, taken, other, dev, o_maps, stray, o_last,
  (* PluginDrivers *)
  d_pc, fd, iNumOfInst, d_inited, table, instanceOf

encoderVars == <<e_codec, e_resource, heap, plugin, files, e_maps, e_calls, e_inits,
                 e_frames, e_last>>
oldVars == <<o_calls, o_codec, o_inits, inst, taken, other, dev, o_maps, stray, o_last>>
driverVars == <<d_pc, fd, iNumOfInst, d_inited, table, instanceOf>>

BuffersIdle == Init /\ codec = "mjpeg"
NoEncoder ==
  /\ e_codec = "-" /\ e_resource = "-" /\ heap = "-" /\ plugin = "-" /\ files = "-"
  /\ e_maps = "-" /\ e_calls = "-" /\ e_inits = "-" /\ e_frames = "-" /\ e_last = "-"
NoOld ==
  /\ o_calls = "-" /\ o_codec = "-" /\ o_inits = "-" /\ inst = "-" /\ taken = "-"
  /\ other = "-" /\ dev = "-" /\ o_maps = "-" /\ stray = "-" /\ o_last = "-"
NoDrivers ==
  /\ d_pc = "-" /\ fd = "-" /\ iNumOfInst = "-" /\ d_inited = "-" /\ table = "-"
  /\ instanceOf = "-"
-----------------------------------------------------------------------------
(* The other parts.                                                        *)

Encoder == INSTANCE VideoEncoder WITH
  Codecs <- EncoderSetup.codecs, MaxInits <- EncoderSetup.inits,
  MaxFrames <- EncoderSetup.frames, Faults <- EncoderSetup.faults,
  eCodec <- e_codec, ptResource <- e_resource, maps <- e_maps, calls <- e_calls,
  inits <- e_inits, frames <- e_frames, last <- e_last

(* For the instances of the manager.                                       *)
Old == INSTANCE OldVdec WITH
  Handles <- OldSetup.handles, Codecs <- OldSetup.codecs, Indices <- OldSetup.indices,
  MaxInits <- OldSetup.inits, Pictures <- OldSetup.pictures,
  MinFrames <- OldSetup.minFrames, Extras <- OldSetup.extras, MaxAvail <- OldSetup.avail,
  MaxFrameBuffers <- OldSetup.maxFrames, Faults <- OldSetup.faults,
  calls <- o_calls, codec <- o_codec, inits <- o_inits, maps <- o_maps, last <- o_last

(* For what the decoders decode.                                           *)
OldStream == INSTANCE OldVdec WITH
  Handles <- OldStreamSetup.handles, Codecs <- OldStreamSetup.codecs,
  Indices <- OldStreamSetup.indices, MaxInits <- OldStreamSetup.inits,
  Pictures <- OldStreamSetup.pictures, MinFrames <- OldStreamSetup.minFrames,
  Extras <- OldStreamSetup.extras, MaxAvail <- OldStreamSetup.avail,
  MaxFrameBuffers <- OldStreamSetup.maxFrames, Faults <- OldStreamSetup.faults,
  calls <- o_calls, codec <- o_codec, inits <- o_inits, maps <- o_maps, last <- o_last

Drivers == INSTANCE PluginDrivers WITH
  Decoders <- DriversSetup.decoders, Instances <- DriversSetup.instances,
  Descriptors <- DriversSetup.descriptors, Faults <- DriversSetup.faults,
  pc <- d_pc, bInited <- d_inited

ASSUME BufferAssumption == BufferConstants
ASSUME EncoderAssumption == Encoder!EncoderConstants
ASSUME OldAssumption == Old!OldVdecConstants
ASSUME OldStreamAssumption == OldStream!OldVdecConstants
ASSUME DriversAssumption ==  \* that of PluginDrivers
  /\ DriversSetup.instances \in Nat
  /\ DriversSetup.descriptors \subseteq Nat /\ IsFiniteSet(DriversSetup.descriptors)
  /\ 0 \in DriversSetup.descriptors
  /\ "none" \notin DriversSetup.decoders /\ "app" \notin DriversSetup.decoders
  /\ DriversSetup.faults \subseteq Drivers!Devices \cup {"mode", "device"}

allVars == <<part, vars, encoderVars, oldVars, driverVars>>

FailuresInit ==
  \/ part = "buffers" /\ Init /\ NoEncoder /\ NoOld /\ NoDrivers
  \/ part = "encoder" /\ Encoder!Init /\ BuffersIdle /\ NoOld /\ NoDrivers
  \/ part = "old" /\ Old!Init /\ BuffersIdle /\ NoEncoder /\ NoDrivers
  \/ part = "old_stream" /\ OldStream!Init /\ BuffersIdle /\ NoEncoder /\ NoDrivers
  \/ part = "drivers" /\ Drivers!Init /\ BuffersIdle /\ NoEncoder /\ NoOld

InBuffers == part = "buffers" /\ UNCHANGED <<part, encoderVars, oldVars, driverVars>>
InEncoder == part = "encoder" /\ UNCHANGED <<part, vars, oldVars, driverVars>>
InOld(name) == part = name /\ UNCHANGED <<part, vars, encoderVars, driverVars>>
InDrivers == part = "drivers" /\ UNCHANGED <<part, vars, encoderVars, oldVars>>

FailuresNext ==
  \/ InBuffers /\ Next
  \/ InEncoder /\ Encoder!Next
  \/ InOld("old") /\ Old!Next
  \/ InOld("old_stream") /\ OldStream!Next
  \/ InDrivers /\ Drivers!Next

FailuresSpec == FailuresInit /\ [][FailuresNext]_allVars
-----------------------------------------------------------------------------
(* Properties of the other parts; the comment of the conjunct in the       *)
(* part's module says what is meant in full.                               *)

(* Every variable of the part at work has its type.                        *)
FailuresTypeOK ==
  /\ BufTypeOK
  /\ part = "encoder" => Encoder!EncTypeOK
  /\ part = "old" => Old!OldTypeOK
  /\ part = "old_stream" => OldStream!OldTypeOK
  /\ part = "drivers" => Drivers!DriversTypeOK

(* Whatever failed before, an encoder, a handle of the old library or a    *)
(* decoder's drivers that are closed have given back their devices,        *)
(* mappings and memory.                                                    *)
ClosedLeavesNothing ==
  /\ part = "encoder" => Encoder!DeinitReleases /\ Encoder!DestroyFrees
  /\ part = "old" => Old!NothingLeft
  /\ part = "drivers" => Drivers!NoDescriptorLeft

(* The manager's instances: an index belongs to one handle and is not      *)
(* lost; a handle that works has its buffers, and its commands reach an    *)
(* open codec.                                                             *)
IndicesAccounted ==
  part = "old" =>
    Old!IndexOwned /\ Old!NoIndexLost /\ Old!WorkingHasBuffers /\ Old!CommandsInOrder

(* What is coded or decoded is what the caller gave: an encoder gives out  *)
(* the picture of this call and the header complete, copied where it fits; *)
(* a decoder of the old library has the frames its stream asks for,        *)
(* decodes the picture it was given and keeps the one before.              *)
PictureOfThisCall ==
  /\ part = "encoder" =>
       Encoder!CodedIsCurrent /\ Encoder!HeaderComplete /\ Encoder!CopiesIntoRaw
  /\ part = "old_stream" =>
       OldStream!EnoughFrames /\ OldStream!DecodesWhatWasGiven /\ OldStream!PreviousKept

================================================================================
