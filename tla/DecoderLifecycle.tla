--------------------------- MODULE DecoderLifecycle ---------------------------
(***************************************************************************)
(* What a video decoder holds from Create to Destroy, for several decoders *)
(* of one process: VideoDecoder_* over the resource wrapper, with plugins  *)
(* (legacy) or the V3 library.  Any step of Create and Init may fail.  A   *)
(* call is one action: the decoders share only the loaded libraries and    *)
(* the V3 library's counter, each behind a lock.                           *)
(*                                                                         *)
(* The caller makes the calls in the order of README.md, with one Init for *)
(* each handle; after an Init that failed it goes on with Deinit and       *)
(* Destroy, as vpu_test_decoder.c does, or, like dec_test.c, with the      *)
(* header.                                                                 *)
(***************************************************************************)
EXTENDS Integers, FiniteSets

CONSTANTS
  Decoders,
  Types,        \* of VD_RESOURCE_TYPE_T: "legacy", "v3"
  Faults        \* which steps may fail

AllFaults == {"list", "index", "codec", "load", "open", "init", "map", "header"}

LifecycleConstants ==
  /\ IsFiniteSet(Decoders) /\ "nothing" \notin Decoders
  /\ Types \subseteq {"legacy", "v3"}
  /\ Faults \subseteq AllFaults

VARIABLES
  type,         \* what the process was built with
  stage,        \* of the caller: the last call it made
  ret,          \* what that call returned
  eCodec,       \* TRUE: not VideoDecoder_Codec_None
  ptResource,   \* "null", "resource"
  bInited,      \* the plugin's
  held,         \* what the decoder holds: memory, libraries, devices
  total_opened_decoder,
  used          \* history: what the last call worked on below the wrapper

pointers == <<eCodec, ptResource, bInited>>
vars == <<type, stage, ret, pointers, held, total_opened_decoder, used>>

Handle == {"handle", "list", "index"}
Resource ==
  IF type = "legacy" THEN {"resource", "context", "library", "plugin"}
  ELSE {"resource", "context", "device"}

(* What Init opens: the V3 library maps the driver's bitstream buffer too. *)
Driver == IF type = "legacy" THEN {"driver"} ELSE {"driver", "stream"}

Init ==
  /\ type \in Types
  /\ stage = [d \in Decoders |-> "none"] /\ ret = [d \in Decoders |-> "None"]
  /\ eCodec = [d \in Decoders |-> FALSE] /\ ptResource = [d \in Decoders |-> "null"]
  /\ bInited = [d \in Decoders |-> FALSE] /\ held = [d \in Decoders |-> {}]
  /\ total_opened_decoder = 0 /\ used = "nothing"

(* A step succeeds, or one of them fails.                                  *)
Failing(steps) == (Faults \cap steps) \cup {"nothing"}

Returns(d, call, value) ==
  stage' = [stage EXCEPT ![d] = call] /\ ret' = [ret EXCEPT ![d] = value]

Holds(d, S) == held' = [held EXCEPT ![d] = S]

------------------------------------------------------------------------------
(* On failure the handle is freed with what it has.                        *)
VideoDecoder_Create(d) ==
  /\ stage[d] = "none"
  /\ \E failed \in Failing({"list", "index"}) :
       IF failed = "nothing" THEN Returns(d, "Create", "None") /\ Holds(d, Handle)
       ELSE UNCHANGED <<stage, ret, held>>
  /\ UNCHANGED <<type, pointers, total_opened_decoder>>
  /\ used' = "nothing"

(* Mutant: a plugin that cannot be opened is not unloaded. *)
ResourceLeft_Library(failed) ==
  IF failed = "open" /\ type = "legacy" THEN {"library"} ELSE {}

(* vd_res_create_resource gives back all of a resource it cannot complete. *)
ResourceLeft(failed) == {}

(* Mutant: the resource that was given back stays in the handle. *)
SetCodec_Dangling(d, failed) ==
  /\ eCodec' = [eCodec EXCEPT ![d] = (failed = "nothing")]
  /\ ptResource' = [ptResource EXCEPT ![d] = "resource"]

SetCodec(d, failed) ==
  /\ eCodec' = [eCodec EXCEPT ![d] = (failed = "nothing")]
  /\ ptResource' = [ptResource EXCEPT ![d] = IF failed = "nothing" THEN "resource" ELSE "null"]

(* The V3 library refuses no codec.                                        *)
CreateSteps == IF type = "legacy" THEN {"codec", "load", "open"} ELSE {"open"}

InitSteps == IF type = "legacy" THEN {"init"} ELSE {"init", "map"}

(* A driver whose buffer could not be mapped stays initialised.            *)
InitHolds(init) ==
  CASE init = "nothing" -> Driver [] init = "map" -> {"driver"} [] OTHER -> {}

(* SF_VDec_SetCodec, then the plugin's Init or vdec_init, whose failure    *)
(* the caller is not told of.  A failing plugin closes its drivers.        *)
VideoDecoder_Init(d) ==
  /\ stage[d] = "Create"
  /\ \E failed \in Failing(CreateSteps) :
       /\ SetCodec(d, failed)
       /\ IF failed # "nothing"
          THEN /\ Returns(d, "Init", "InitFail")
               /\ Holds(d, held[d] \cup ResourceLeft(failed))
               /\ UNCHANGED <<bInited, total_opened_decoder>>
          ELSE /\ Returns(d, "Init", "None")
               /\ total_opened_decoder' =
                    IF type = "v3" THEN total_opened_decoder + 1 ELSE total_opened_decoder
               /\ \E init \in Failing(InitSteps) :
                    /\ bInited' = [bInited EXCEPT ![d] = (init = "nothing")]
                    /\ Holds(d, held[d] \cup Resource \cup InitHolds(init))
  /\ UNCHANGED type
  /\ used' = "nothing"

(* The wrapper's guard: without a resource it does nothing and succeeds.   *)
Below(d) == IF ptResource[d] = "null" THEN "nothing" ELSE d

(* The header fails without an initialised driver, which has no buffer to  *)
(* take it: without a size of the buffer nothing is copied, and the driver *)
(* refuses the command.                                                    *)
HeaderResult(d, failed) ==
  IF ptResource[d] # "null" /\ (failed # "nothing" \/ "driver" \notin held[d])
  THEN "SequenceHeaderDecoding" ELSE "None"

(* The V3 driver has told the size of its buffer, which was not mapped:    *)
(* the header is copied to no address.                                     *)
CopiesToNull(d) == type = "v3" /\ "driver" \in held[d] /\ "stream" \notin held[d]

VideoDecoder_DecodeSequenceHeader(d) ==
  /\ stage[d] = "Init"
  /\ IF CopiesToNull(d) THEN Returns(d, "crashed", "None")
     ELSE \E failed \in Failing({"header"}) : Returns(d, "Header", HeaderResult(d, failed))
  /\ UNCHANGED <<type, pointers, held, total_opened_decoder>>
  /\ used' = Below(d)

(* The plugin is closed if it was initialised, the V3 driver in any case.  *)
VideoDecoder_Deinit(d) ==
  /\ stage[d] \in {"Init", "Header"}
  /\ Returns(d, "Deinit", "None")
  /\ Holds(d, IF ptResource[d] # "null" /\ (bInited[d] \/ type = "v3")
              THEN held[d] \ Driver ELSE held[d])
  /\ UNCHANGED <<type, pointers, total_opened_decoder>>
  /\ used' = Below(d)

(* vdec_release_instance counts down, but not below zero.                  *)
Released(d) ==
  IF type = "v3" /\ eCodec[d] /\ total_opened_decoder > 0 THEN total_opened_decoder - 1
  ELSE total_opened_decoder

VideoDecoder_Destroy(d) ==
  /\ stage[d] \in {"Create", "Deinit"}
  /\ Returns(d, "none", "None")
  /\ Holds(d, held[d] \ (Handle \cup IF eCodec[d] THEN Resource ELSE {}))
  /\ eCodec' = [eCodec EXCEPT ![d] = FALSE]
  /\ ptResource' = [ptResource EXCEPT ![d] = "null"]
  /\ bInited' = [bInited EXCEPT ![d] = FALSE]
  /\ total_opened_decoder' = Released(d)
  /\ UNCHANGED type
  /\ used' = IF eCodec[d] THEN Below(d) ELSE "nothing"

(* One decoder's crash is the end of the process, with all it held.        *)
Alive == \A d \in Decoders : stage[d] # "crashed"

Restart ==
  /\ ~Alive
  /\ stage' = [d \in Decoders |-> "none"] /\ ret' = [d \in Decoders |-> "None"]
  /\ eCodec' = [d \in Decoders |-> FALSE] /\ ptResource' = [d \in Decoders |-> "null"]
  /\ bInited' = [d \in Decoders |-> FALSE] /\ held' = [d \in Decoders |-> {}]
  /\ total_opened_decoder' = 0 /\ used' = "nothing"
  /\ UNCHANGED type

Call(d) ==
  \/ VideoDecoder_Create(d) \/ VideoDecoder_Init(d)
  \/ VideoDecoder_DecodeSequenceHeader(d)
  \/ VideoDecoder_Deinit(d) \/ VideoDecoder_Destroy(d)

Next == (Alive /\ \E d \in Decoders : Call(d)) \/ Restart

Spec == Init /\ [][Next]_vars

------------------------------------------------------------------------------
(* Every variable holds a value of its type; a decoder holds only what an  *)
(* opening step can give it.                                               *)
LifeTypeOK ==
  /\ type \in Types
  /\ stage \in [Decoders -> {"none", "Create", "Init", "Header", "Deinit", "crashed"}]
  /\ ret \in [Decoders -> {"None", "InitFail", "SequenceHeaderDecoding"}]
  /\ eCodec \in [Decoders -> BOOLEAN] /\ ptResource \in [Decoders -> {"null", "resource"}]
  /\ bInited \in [Decoders -> BOOLEAN]
  /\ held \in [Decoders -> SUBSET (Handle \cup Resource \cup Driver)]
  /\ total_opened_decoder \in Nat
  /\ used \in Decoders \cup {"nothing"}

(* A decoder that was destroyed, or never came to be, holds nothing: no    *)
(* library stays loaded, no device open, whichever steps failed before.    *)
NothingLeft == \A d \in Decoders : stage[d] = "none" => held[d] = {}

Open == { d \in Decoders : "device" \in held[d] }

(* The V3 library counts the decoders that have a device.                  *)
OpenedCounted == total_opened_decoder = Cardinality(Open)

(* Nothing below the wrapper is called through a resource that is not      *)
(* there: its plugin or its device is still the decoder's when it is used. *)
KeptWhileUsed ==
  [][\A d \in Decoders : used' = d => Resource \subseteq held[d]]_vars

(* A header is decoded by an initialised driver with all its buffers:      *)
(* dec_test.c:466 goes on to decode, and to count frames, where there was  *)
(* no error.  A decoder without a resource apart, for which the wrapper    *)
(* reports success.                                                        *)
HeaderNeedsDriver ==
  \A d \in Decoders :
    stage[d] = "Header" /\ ret[d] = "None" /\ ptResource[d] # "null" => Driver \subseteq held[d]

(* The header of a decoder whose Init did what it should never crashes:    *)
(* only one whose Init failed below the wrapper, unknown to the caller.    *)
CrashesOnlyUninited == \A d \in Decoders : stage[d] = "crashed" => ~bInited[d]

(* Over Create, Init, Deinit and Destroy, of which any step may fail: what *)
(* is held when a decoder is gone, the count of open decoders, that no     *)
(* header is accepted without a driver and what it maps, and behind which  *)
(* Init one may crash.                                                     *)
NothingHeld == NothingLeft /\ OpenedCounted /\ HeaderNeedsDriver /\ CrashesOnlyUninited

==============================================================================
