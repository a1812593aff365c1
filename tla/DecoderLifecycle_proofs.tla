------------------------ MODULE DecoderLifecycle_proofs ------------------------
(***************************************************************************)
(* Proofs about DecoderLifecycle, for any number of decoders and whichever *)
(* steps of Create, Init and the header fail.  How far a decoder has come  *)
(* and whether its codec was set say exactly what it holds, but for the    *)
(* driver of a legacy plugin or V3 instance and its buffer, which it holds *)
(* only from Init to Deinit, and in full if that Init succeeded.           *)
(***************************************************************************)
EXTENDS DecoderLifecycle, FiniteSetTheorems, TLAPS

------------------------------------------------------------------------------
(* The inductive invariant.                                                *)

(* What a decoder holds, the driver apart, by its stage and its codec.     *)
Held(d) ==
  CASE stage[d] = "none" -> {}
    [] stage[d] # "none" /\ ~eCodec[d] -> Handle
    [] OTHER -> Handle \cup Resource

(* A codec is set together with its resource, in Init; the driver is held  *)
(* after it, by a legacy plugin only an initialised one, and given back by *)
(* Deinit.                                                                 *)
DecoderInv(d) ==
  /\ held[d] \ Driver = Held(d)
  /\ eCodec[d] <=> ptResource[d] = "resource"
  /\ stage[d] \in {"none", "Create"} => ~eCodec[d] /\ ~bInited[d]
  /\ bInited[d] => eCodec[d]
  /\ held[d] \cap Driver # {} =>
       eCodec[d] /\ (bInited[d] \/ type = "v3") /\ stage[d] # "Deinit"
  /\ stage[d] = "Init" /\ bInited[d] => Driver \subseteq held[d]
  /\ stage[d] = "Header" /\ ret[d] = "None" /\ ptResource[d] # "null" => Driver \subseteq held[d]
  /\ stage[d] = "crashed" => eCodec[d] /\ ~bInited[d]

(* With the V3 library each decoder whose codec is set has been counted.   *)
Counted == { d \in Decoders : type = "v3" /\ eCodec[d] }

LifeInv ==
  /\ LifeTypeOK
  /\ \A d \in Decoders : DecoderInv(d)
  /\ total_opened_decoder = Cardinality(Counted)

(* A call of one decoder leaves what it does not name alone.               *)
Apart(d) ==
  /\ type' = type
  /\ \A e \in Decoders : e # d =>
       /\ stage'[e] = stage[e] /\ ret'[e] = ret[e] /\ held'[e] = held[e]
       /\ eCodec'[e] = eCodec[e] /\ ptResource'[e] = ptResource[e] /\ bInited'[e] = bInited[e]

LEMMA CallsApart ==
  ASSUME LifeTypeOK, NEW d \in Decoders,
         \/ VideoDecoder_Create(d) \/ VideoDecoder_Init(d)
         \/ VideoDecoder_DecodeSequenceHeader(d)
         \/ VideoDecoder_Deinit(d) \/ VideoDecoder_Destroy(d)
  PROVE  Apart(d)
<1> USE DEF LifeTypeOK, Returns, Holds, pointers, Apart
<1>1. CASE VideoDecoder_Create(d)
  BY <1>1 DEF VideoDecoder_Create
<1>2. CASE VideoDecoder_Init(d)
  BY <1>2 DEF VideoDecoder_Init, SetCodec
<1>3. CASE VideoDecoder_DecodeSequenceHeader(d)
  BY <1>3 DEF VideoDecoder_DecodeSequenceHeader
<1>4. CASE VideoDecoder_Deinit(d)
  BY <1>4 DEF VideoDecoder_Deinit
<1>5. CASE VideoDecoder_Destroy(d)
  BY <1>5 DEF VideoDecoder_Destroy
<1>6. QED
  BY <1>1, <1>2, <1>3, <1>4, <1>5

(* So the invariant of the others is kept, and that of all if its own is.  *)
LEMMA OwnEnough ==
  ASSUME LifeInv, NEW d \in Decoders, Apart(d), DecoderInv(d)'
  PROVE  \A e \in Decoders : DecoderInv(e)'
<1>1. ASSUME NEW e \in Decoders, e # d
      PROVE  DecoderInv(e)'
  <2>1. DecoderInv(e) /\ Resource' = Resource /\ Driver' = Driver
    BY <1>1 DEF LifeInv, Apart, Resource, Driver
  <2>2. QED
    BY <1>1, <2>1 DEF Apart, DecoderInv, Held
<1>2. QED
  BY <1>1

(* A call that sets no codec and clears none changes no count.             *)
LEMMA SameCount ==
  ASSUME LifeInv, NEW d \in Decoders, Apart(d), eCodec'[d] = eCodec[d],
         total_opened_decoder' = total_opened_decoder
  PROVE  total_opened_decoder' = Cardinality(Counted')
<1>1. Counted' = Counted
  BY DEF Apart, Counted
<1>2. QED
  BY <1>1 DEF LifeInv

------------------------------------------------------------------------------
(* Each call keeps it.                                                     *)

(* Create succeeds with the handle, or leaves nothing.                     *)
LEMMA CreateKeeps ==
  ASSUME LifeInv, NEW d \in Decoders, VideoDecoder_Create(d)
  PROVE  LifeInv'
<1> USE DEF LifeTypeOK, Returns, Holds, pointers
<1>1. Apart(d) /\ LifeTypeOK
  BY CallsApart DEF LifeInv
<1>2. \/ UNCHANGED <<stage, ret, held>>
      \/ Returns(d, "Create", "None") /\ Holds(d, Handle)
  BY DEF VideoDecoder_Create
<1>3. /\ UNCHANGED <<type, eCodec, ptResource, bInited, total_opened_decoder>>
      /\ stage[d] = "none" /\ used' = "nothing"
  BY DEF VideoDecoder_Create
<1>4. DecoderInv(d)'
  <2>1. DecoderInv(d)
    BY DEF LifeInv
  <2>2. CASE UNCHANGED <<stage, ret, held>>
    BY <1>3, <2>1, <2>2 DEF DecoderInv, Held, Resource, Driver
  <2>3. CASE Returns(d, "Create", "None") /\ Holds(d, Handle)
    BY <1>1, <1>3, <2>1, <2>3 DEF DecoderInv, Held, Handle, Driver
  <2>4. QED
    BY <1>2, <2>2, <2>3
<1>5. LifeTypeOK'
  BY <1>1, <1>2, <1>3 DEF Resource, Driver
<1>6. QED
  BY <1>1, <1>3, <1>4, <1>5, OwnEnough, SameCount DEF LifeInv

(* Init gives a complete resource or none, and counts what it opens.       *)
LEMMA InitKeeps ==
  ASSUME LifecycleConstants, LifeInv, NEW d \in Decoders, VideoDecoder_Init(d)
  PROVE  LifeInv'
<1> USE DEF LifeTypeOK, Returns, Holds
<1>1. Apart(d) /\ LifeTypeOK /\ DecoderInv(d)
  BY CallsApart DEF LifeInv
<1>2. /\ stage[d] = "Create" /\ ~eCodec[d] /\ ~bInited[d] /\ held[d] = Handle
      /\ ptResource[d] = "null"
  BY <1>1 DEF VideoDecoder_Init, DecoderInv, Held
<1>3. CASE /\ Returns(d, "Init", "InitFail") /\ Holds(d, held[d])
           /\ eCodec' = [eCodec EXCEPT ![d] = FALSE]
           /\ ptResource' = [ptResource EXCEPT ![d] = "null"]
           /\ UNCHANGED <<type, bInited, total_opened_decoder>> /\ used' = "nothing"
  <2>1. DecoderInv(d)'
    BY <1>1, <1>2, <1>3 DEF DecoderInv, Held, Handle, Driver
  <2>2. LifeTypeOK'
    BY <1>1, <1>3 DEF Resource, Driver
  <2>3. eCodec'[d] = eCodec[d]
    BY <1>1, <1>2, <1>3
  <2>4. QED
    BY <1>1, <1>3, <2>1, <2>2, <2>3, OwnEnough, SameCount DEF LifeInv
<1>4. ASSUME NEW ok \in BOOLEAN, NEW got \in SUBSET Driver,
             got # {} => ok \/ type = "v3", ok => got = Driver,
             /\ Returns(d, "Init", "None")
             /\ Holds(d, held[d] \cup Resource \cup got)
             /\ eCodec' = [eCodec EXCEPT ![d] = TRUE]
             /\ ptResource' = [ptResource EXCEPT ![d] = "resource"]
             /\ bInited' = [bInited EXCEPT ![d] = ok]
             /\ total_opened_decoder' =
                  IF type = "v3" THEN total_opened_decoder + 1 ELSE total_opened_decoder
             /\ UNCHANGED type /\ used' = "nothing"
      PROVE  LifeInv'
  <2>1. Driver \cap (Handle \cup Resource) = {}
    BY DEF Handle, Resource, Driver
  <2>2. held'[d] = held[d] \cup Resource \cup got
    BY <1>1, <1>4
  <2>3. Resource' = Resource /\ Driver' = Driver
    BY <1>4 DEF Resource, Driver
  <2>4. held'[d] \ Driver = Handle \cup Resource /\ held'[d] \cap Driver = got
    BY <1>2, <1>4, <2>1, <2>2
  <2>9. /\ stage'[d] = "Init" /\ eCodec'[d] /\ ptResource'[d] = "resource" /\ bInited'[d] = ok
        /\ type' = type
    BY <1>1, <1>4
  <2>10. ok => Driver \subseteq held'[d]
    BY <1>4, <2>2
  <2>11. DecoderInv(d)'
    BY <1>4, <2>3, <2>4, <2>9, <2>10 DEF DecoderInv, Held
  <2>6. LifeTypeOK'
    <3>1. held' \in [Decoders -> SUBSET (Handle \cup Resource \cup Driver)]
      BY <1>1, <1>4
    <3>2. QED
      BY <1>1, <1>4, <2>3, <3>1
  <2>7. total_opened_decoder' = Cardinality(Counted')
    <3>1. IsFiniteSet(Counted)
      BY FS_Subset DEF LifecycleConstants, Counted
    <3>2. CASE type = "v3"
      <4>1. Counted' = Counted \cup {d} /\ d \notin Counted
        BY <1>1, <1>2, <1>4, <3>2 DEF Counted
      <4>2. Cardinality(Counted') = Cardinality(Counted) + 1
        BY <3>1, <4>1, FS_AddElement
      <4>3. QED
        BY <1>4, <3>2, <4>2 DEF LifeInv
    <3>3. CASE type # "v3"
      <4>1. Counted' = Counted
        BY <1>4, <3>3 DEF Counted
      <4>2. QED
        BY <1>4, <3>3, <4>1 DEF LifeInv
    <3>4. QED
      BY <3>2, <3>3
  <2>8. QED
    BY <1>1, <2>11, <2>6, <2>7, OwnEnough DEF LifeInv
<1>5. QED
  <2>1. PICK failed \in Failing(CreateSteps) :
          /\ SetCodec(d, failed)
          /\ IF failed # "nothing"
             THEN /\ Returns(d, "Init", "InitFail")
                  /\ Holds(d, held[d] \cup ResourceLeft(failed))
                  /\ UNCHANGED <<bInited, total_opened_decoder>>
             ELSE /\ Returns(d, "Init", "None")
                  /\ total_opened_decoder' =
                       IF type = "v3" THEN total_opened_decoder + 1 ELSE total_opened_decoder
                  /\ \E init \in Failing(InitSteps) :
                       /\ bInited' = [bInited EXCEPT ![d] = (init = "nothing")]
                       /\ Holds(d, held[d] \cup Resource \cup InitHolds(init))
    BY DEF VideoDecoder_Init
  <2>2. UNCHANGED type /\ used' = "nothing"
    BY DEF VideoDecoder_Init
  <2>3. CASE failed # "nothing"
    BY <1>3, <2>1, <2>2, <2>3 DEF SetCodec, ResourceLeft
  <2>4. CASE failed = "nothing"
    <3>1. PICK init \in Failing(InitSteps) :
            /\ bInited' = [bInited EXCEPT ![d] = (init = "nothing")]
            /\ Holds(d, held[d] \cup Resource \cup InitHolds(init))
      BY <2>1, <2>4
    <3>2. /\ eCodec' = [eCodec EXCEPT ![d] = TRUE]
          /\ ptResource' = [ptResource EXCEPT ![d] = "resource"]
      BY <2>1, <2>4 DEF SetCodec
    <3>3. /\ InitHolds(init) \subseteq Driver
          /\ (init = "nothing") => InitHolds(init) = Driver
          /\ type = "legacy" /\ InitHolds(init) # {} => init = "nothing"
      BY DEF InitHolds, InitSteps, Failing, Driver
    <3>4. type \in {"legacy", "v3"}
      BY <1>1 DEF LifecycleConstants
    <3>5. QED
      BY <1>4, <2>1, <2>2, <2>4, <3>1, <3>2, <3>3, <3>4
  <2>5. QED
    BY <2>3, <2>4

(* The header leaves everything where it is.                               *)
LEMMA HeaderKeeps ==
  ASSUME LifecycleConstants, LifeInv, NEW d \in Decoders, VideoDecoder_DecodeSequenceHeader(d)
  PROVE  LifeInv'
<1> USE DEF LifeTypeOK, Returns, pointers
<1>1. Apart(d) /\ LifeTypeOK /\ DecoderInv(d)
  BY CallsApart DEF LifeInv
<1>2. /\ UNCHANGED <<type, eCodec, ptResource, bInited, held, total_opened_decoder>>
      /\ stage[d] = "Init" /\ used' \in {"nothing", d}
      /\ Resource' = Resource /\ Driver' = Driver
  BY DEF VideoDecoder_DecodeSequenceHeader, Below, Resource, Driver
<1>3. CASE CopiesToNull(d)
  <2>1. /\ stage' = [stage EXCEPT ![d] = "crashed"] /\ ret' = [ret EXCEPT ![d] = "None"]
    BY <1>3 DEF VideoDecoder_DecodeSequenceHeader
  <2>2. eCodec[d] /\ ~bInited[d]
    BY <1>1, <1>2, <1>3 DEF CopiesToNull, Driver, DecoderInv
  <2>3. DecoderInv(d)'
    BY <1>1, <1>2, <2>1, <2>2 DEF DecoderInv, Held
  <2>4. LifeTypeOK'
    BY <1>1, <1>2, <2>1
  <2>5. QED
    BY <1>1, <1>2, <2>3, <2>4, OwnEnough, SameCount DEF LifeInv
<1>4. CASE ~CopiesToNull(d)
  <2>1. PICK failed \in Failing({"header"}) : Returns(d, "Header", HeaderResult(d, failed))
    BY <1>4 DEF VideoDecoder_DecodeSequenceHeader
  <2>2. stage'[d] = "Header" /\ ret'[d] = HeaderResult(d, failed)
    BY <1>1, <2>1
  <2>3. ret'[d] = "None" /\ ptResource[d] # "null" => Driver \subseteq held[d]
    BY <1>1, <1>4, <2>2 DEF HeaderResult, CopiesToNull, Driver, LifecycleConstants
  <2>4. DecoderInv(d)'
    BY <1>1, <1>2, <2>2, <2>3 DEF DecoderInv, Held
  <2>5. LifeTypeOK'
    BY <1>1, <1>2, <2>1 DEF HeaderResult
  <2>6. QED
    BY <1>1, <1>2, <2>4, <2>5, OwnEnough, SameCount DEF LifeInv
<1>5. QED
  BY <1>3, <1>4

(* Deinit gives the driver back.                                           *)
LEMMA DeinitKeeps ==
  ASSUME LifeInv, NEW d \in Decoders, VideoDecoder_Deinit(d)
  PROVE  LifeInv'
<1> USE DEF LifeTypeOK, Returns, Holds, pointers
<1>1. Apart(d) /\ LifeTypeOK /\ DecoderInv(d)
  BY CallsApart DEF LifeInv
<1>2. /\ UNCHANGED <<type, eCodec, ptResource, bInited, total_opened_decoder>>
      /\ stage[d] \in {"Init", "Header"} /\ used' \in {"nothing", d}
      /\ Returns(d, "Deinit", "None")
  BY DEF VideoDecoder_Deinit, Below
<1>3. Holds(d, held[d] \ Driver)
  <2>1. held[d] \cap Driver # {} => ptResource[d] # "null" /\ (bInited[d] \/ type = "v3")
    BY <1>1 DEF DecoderInv
  <2>2. held[d] \cap Driver = {} => held[d] \ Driver = held[d]
    OBVIOUS
  <2>3. QED
    BY <2>1, <2>2 DEF VideoDecoder_Deinit
<1>4. Resource' = Resource /\ Driver' = Driver
  BY <1>2 DEF Resource, Driver
<1>5. DecoderInv(d)'
  BY <1>1, <1>2, <1>3, <1>4 DEF DecoderInv, Held
<1>6. LifeTypeOK'
  BY <1>1, <1>2, <1>3, <1>4
<1>7. QED
  BY <1>1, <1>2, <1>5, <1>6, OwnEnough, SameCount DEF LifeInv

(* Destroy gives the rest back and counts down.                            *)
LEMMA DestroyKeeps ==
  ASSUME LifecycleConstants, LifeInv, NEW d \in Decoders, VideoDecoder_Destroy(d)
  PROVE  LifeInv'
<1> USE DEF LifeTypeOK, Returns, Holds
<1>1. Apart(d) /\ LifeTypeOK /\ DecoderInv(d)
  BY CallsApart DEF LifeInv
<1>2. /\ stage[d] \in {"Create", "Deinit"} /\ Returns(d, "none", "None")
      /\ Holds(d, held[d] \ (Handle \cup IF eCodec[d] THEN Resource ELSE {}))
      /\ eCodec' = [eCodec EXCEPT ![d] = FALSE]
      /\ ptResource' = [ptResource EXCEPT ![d] = "null"]
      /\ bInited' = [bInited EXCEPT ![d] = FALSE]
      /\ total_opened_decoder' = Released(d)
      /\ UNCHANGED type /\ used' \in {"nothing", d}
  BY DEF VideoDecoder_Destroy, Below
<1>3. held[d] = Handle \cup IF eCodec[d] THEN Resource ELSE {}
  <2>1. held[d] \cap Driver = {}
    BY <1>1, <1>2 DEF DecoderInv
  <2>2. held[d] = Held(d)
    BY <1>1, <2>1 DEF DecoderInv
  <2>3. QED
    BY <1>2, <2>2 DEF Held
<1>4. held'[d] = {}
  BY <1>1, <1>2, <1>3
<1>5. DecoderInv(d)'
  BY <1>1, <1>2, <1>4 DEF DecoderInv, Held
<1>6. LifeTypeOK' /\ total_opened_decoder' = Cardinality(Counted')
  <2>1. IsFiniteSet(Counted) /\ total_opened_decoder = Cardinality(Counted)
    BY FS_Subset DEF LifecycleConstants, Counted, LifeInv
  <2>2. Counted' = IF d \in Counted THEN Counted \ {d} ELSE Counted
    BY <1>1, <1>2 DEF Counted, Apart
  <2>3. d \in Counted <=> type = "v3" /\ eCodec[d]
    BY DEF Counted
  <2>4. CASE d \in Counted
    <3>1. Cardinality(Counted \ {d}) = Cardinality(Counted) - 1
      BY <2>1, <2>4, FS_RemoveElement
    <3>2. Cardinality(Counted \ {d}) \in Nat
      BY <2>1, FS_Subset, FS_CardinalityType
    <3>3. total_opened_decoder' = total_opened_decoder - 1
      BY <1>1, <1>2, <2>1, <2>3, <2>4, <3>1, <3>2 DEF Released
    <3>4. total_opened_decoder' = Cardinality(Counted') /\ total_opened_decoder' \in Nat
      BY <2>1, <2>2, <2>4, <3>1, <3>2, <3>3
    <3>5. QED
      BY <1>1, <1>2, <1>4, <3>4 DEF Resource, Driver
  <2>5. CASE d \notin Counted
    <3>1. total_opened_decoder' = total_opened_decoder
      BY <1>2, <2>3, <2>5 DEF Released
    <3>2. QED
      BY <1>1, <1>2, <1>4, <2>1, <2>2, <2>5, <3>1 DEF Resource, Driver
  <2>6. QED
    BY <2>4, <2>5
<1>7. QED
  BY <1>1, <1>5, <1>6, OwnEnough DEF LifeInv

(* Nothing is held at the start.                                           *)
LEMMA InitiallyLife == ASSUME LifecycleConstants PROVE Init => LifeInv
<1> SUFFICES ASSUME Init PROVE LifeInv
  OBVIOUS
<1>1. LifeTypeOK
  BY DEF Init, LifeTypeOK
<1>2. \A d \in Decoders : DecoderInv(d)
  BY DEF Init, DecoderInv, Held
<1>3. Counted = {}
  BY DEF Init, Counted
<1>4. QED
  BY <1>1, <1>2, <1>3, FS_EmptySet DEF Init, LifeInv

(* Nor when the process starts anew.                                       *)
LEMMA RestartKeeps == ASSUME LifecycleConstants, LifeInv, Restart PROVE LifeInv'
<1>1. LifeTypeOK'
  BY DEF Restart, LifeInv, LifeTypeOK, Resource, Driver
<1>2. \A d \in Decoders : DecoderInv(d)'
  BY DEF Restart, DecoderInv, Held
<1>3. Counted' = {}
  BY DEF Restart, Counted
<1>4. QED
  BY <1>1, <1>2, <1>3, FS_EmptySet DEF Restart, LifeInv

LEMMA LifeStep == ASSUME LifecycleConstants PROVE LifeInv /\ [Next]_vars => LifeInv'
<1> SUFFICES ASSUME LifeInv, [Next]_vars PROVE LifeInv'
  OBVIOUS
<1>1. CASE UNCHANGED vars
  BY <1>1 DEF vars, pointers, LifeInv, LifeTypeOK, DecoderInv, Held, Resource, Driver,
     Counted
<1>2. CASE Next
  BY <1>2, CreateKeeps, InitKeeps, HeaderKeeps, DeinitKeeps, DestroyKeeps, RestartKeeps
     DEF Next, Call
<1>3. QED
  BY <1>1, <1>2

LEMMA LifeHolds == ASSUME LifecycleConstants PROVE Spec => []LifeInv
BY InitiallyLife, LifeStep, PTL DEF Spec

------------------------------------------------------------------------------
(* The theorems.                                                           *)

(* Every variable keeps its type: a decoder holds only what an opening     *)
(* step of the build's kind of decoder gives.                              *)
THEOREM LifeTypeCorrect == ASSUME LifecycleConstants PROVE Spec => []LifeTypeOK
<1>1. LifeInv => LifeTypeOK
  BY DEF LifeInv
<1>2. QED
  BY LifeHolds, <1>1, PTL

(* NothingHeld: whichever steps of Create, Init and the header failed, a   *)
(* destroyed decoder holds nothing, the V3 library counts the decoders     *)
(* with a device, no header is accepted without a driver and its buffer,   *)
(* and none crashes behind an Init that succeeded.                         *)
THEOREM NothingStaysHeld == ASSUME LifecycleConstants PROVE Spec => []NothingHeld
<1>1. ASSUME LifeInv PROVE NothingHeld
  <2>1. NothingLeft
    BY <1>1 DEF LifeInv, DecoderInv, Held, NothingLeft
  <2>2. Open = Counted
    <3>1. ASSUME NEW d \in Decoders PROVE "device" \in held[d] <=> type = "v3" /\ eCodec[d]
      <4>1. "device" \in held[d] <=> "device" \in Held(d)
        BY <1>1 DEF LifeInv, DecoderInv, Driver
      <4>2. "device" \in Held(d) <=> stage[d] # "none" /\ eCodec[d] /\ "device" \in Resource
        BY DEF Held, Handle
      <4>3. "device" \in Resource <=> type # "legacy"
        BY DEF Resource
      <4>4. type \in {"legacy", "v3"} /\ (eCodec[d] => stage[d] # "none")
        BY <1>1 DEF LifeInv, LifeTypeOK, DecoderInv, LifecycleConstants
      <4>5. QED
        BY <4>1, <4>2, <4>3, <4>4
    <3>2. QED
      BY <3>1 DEF Open, Counted
  <2>3. OpenedCounted
    BY <1>1, <2>2 DEF LifeInv, OpenedCounted
  <2>4. HeaderNeedsDriver
    BY <1>1 DEF LifeInv, DecoderInv, HeaderNeedsDriver
  <2>5. CrashesOnlyUninited
    BY <1>1 DEF LifeInv, DecoderInv, CrashesOnlyUninited
  <2>6. QED
    BY <2>1, <2>3, <2>4, <2>5 DEF NothingHeld
<1>2. LifeInv => NothingHeld
  BY <1>1
<1>3. QED
  BY LifeHolds, <1>2, PTL

(* KeptWhileUsed: nothing below the wrapper is called through a resource that   *)
(* is not there.                                                           *)
THEOREM OnlyHeldUsed == ASSUME LifecycleConstants PROVE Spec => KeptWhileUsed
<1>1. ASSUME LifeInv, Next, NEW d \in Decoders, used' = d
      PROVE  Resource \subseteq held[d]
  <2>1. d # "nothing"
    BY DEF LifecycleConstants
  <2>2. ptResource[d] # "null" /\ stage[d] \in {"Init", "Header", "Create", "Deinit"}
    BY <1>1, <2>1 DEF Next, Call, Restart, VideoDecoder_Create, VideoDecoder_Init,
       VideoDecoder_DecodeSequenceHeader, VideoDecoder_Deinit, VideoDecoder_Destroy, Below
  <2>3. held[d] \ Driver = Handle \cup Resource
    BY <1>1, <2>2 DEF LifeInv, LifeTypeOK, DecoderInv, Held
  <2>4. QED
    BY <2>3
<1>2. LifeInv /\ [Next]_vars => [\A d \in Decoders : used' = d => Resource \subseteq held[d]]_vars
  BY <1>1
<1>3. QED
  BY LifeHolds, <1>2, PTL DEF Spec, KeptWhileUsed

==============================================================================
