-------------------------------- MODULE OldVdec ---------------------------------
(***************************************************************************)
(* The old decoder library of plugin/video/vdec: handles, the instances    *)
(* they allocate (vdec_k_common.c), and the functions of the four hardware *)
(* decoders behind them (vdec_k_vpu.c, vdec_k_hevc.c, vdec_k_vpu_4kd2.c    *)
(* and vdec_k_mjpeg.c), as video_decoder_vdec.c calls them: INIT, the      *)
(* sequence header, DECODE and CLOSE.                                      *)
(*                                                                         *)
(* Each handle has a thread of its own; a call is a step, since all that   *)
(* two handles share is what the kernel keeps.  The kernel (instance       *)
(* indices, one device per index with its memory and its codec, and the    *)
(* mappings) and other processes are external.                             *)
(*                                                                         *)
(* The caller is that of dec_test.c: one sequence header per session, with *)
(* the first picture, which is then decoded; a handle that was Deinited is *)
(* not used again, but a new one may be made.                              *)
(***************************************************************************)
EXTENDS Integers, Sequences, FiniteSets

CONSTANTS
  Handles,          \* VideoDecoder_T's
  Codecs,           \* decoders of this instance of the model
  Indices,          \* instance indices of the manager, 0..k
  MaxInits,         \* bound on the calls of VideoDecoder_Init of a handle
  Pictures,         \* coded pictures, numbers > 0
  MinFrames,        \* m_iMinFrameBufferCount of the stream
  Extras,           \* uiNumOutputFrames of the caller
  MaxAvail,         \* frame buffers there is memory for
  MaxFrameBuffers,  \* MAX_FRAME_BUFFER_COUNT
  Faults            \* what may fail

OldVdecConstants ==
  /\ Codecs \subseteq {"vpu", "hevc", "4kd2", "mjpeg"} /\ Codecs # {}
  /\ 0 \in Indices /\ Indices \subseteq Nat
  /\ MaxInits \in Nat /\ Pictures \subseteq Nat \ {0} /\ Extras \subseteq Nat
  /\ MinFrames \in Nat /\ MaxAvail \in Nat /\ MaxFrameBuffers \in Nat
  /\ Faults \subseteq {"open", "index", "alloc", "init", "header", "frames", "decode", "close"}

VARIABLES
  calls,     \* what each handle's caller has done
  codec,     \* its codec
  inits,     \* calls of Init
  inst,      \* its instance, tc_vdec_
  \* the kernel (external)
  taken,     \* indices that are in use
  other,     \* those of them that belong to other processes
  dev,       \* index -> its memory and whether its codec is open
  maps,      \* mappings: <<handle, buffer>>
  \* history
  stray,     \* a command has reached a codec that was not open
  last       \* the last decode of each handle

vars == <<calls, codec, inits, inst, taken, other, dev, maps, stray, last>>

Buffers == {"stream", "ps", "work", "slice", "frame"}
Physical == {"ps", "slice"}       \* those that are not mapped

NoInstance == [index |-> -1]
Zeroed(index) ==
  [index |-> index, env |-> FALSE, opened |-> FALSE, va |-> {},
   extra |-> 0,                   \* gsAdditionalFrameCount
   frames |-> 0,                  \* frame buffers registered with the codec
   seq |-> FALSE,                 \* gsbHasSeqHeader
   first |-> FALSE,               \* gsFirstFrame
   half |-> 0,                    \* gsCurrStreamBuffer_index
   stream |-> <<0, 0>>]           \* what the halves of the bitstream buffer hold

NoDecode == [given |-> 0, read |-> 0, previous |-> 0, kept |-> TRUE]

Init ==
  /\ calls = [h \in Handles |-> "created"] /\ codec \in [Handles -> Codecs]
  /\ inits = [h \in Handles |-> 0] /\ inst = [h \in Handles |-> NoInstance]
  /\ taken = {} /\ other = {} /\ maps = {}
  /\ dev = [k \in Indices |-> [mem |-> {}, open |-> FALSE]]
  /\ stray = FALSE /\ last = [h \in Handles |-> NoDecode]

------------------------------------------------------------------------------
(* A call works on "s": the instance, its device, the mappings, stray.     *)
State(h, instance) ==
  [h |-> h, i |-> instance, d |-> dev[instance.index], m |-> maps, stray |-> stray]

Store(h, s) ==
  /\ inst' = [inst EXCEPT ![h] = s.i]
  /\ dev' = [dev EXCEPT ![s.i.index] = s.d]
  /\ maps' = s.m /\ stray' = s.stray

MayFail(fault) == IF fault \in Faults THEN BOOLEAN ELSE {FALSE}

(* Any command but V_DEC_INIT is for a codec that is open.                 *)
Command(s) == [s EXCEPT !.stray = @ \/ ~s.d.open]

InitCommand(s, failed) == [s EXCEPT !.d.open = @ \/ ~failed]
CloseCommand(s, failed) == [Command(s) EXCEPT !.d.open = @ /\ failed]

(* The first n of the buffers are there, the next one could not be         *)
(* allocated ("pa") or not be mapped ("va"); that one stays allocated.     *)
malloc_dual_addr(s, buffers, n, how) ==
  LET there  == {buffers[k] : k \in 1..n}
      half   == IF n < Len(buffers) /\ how = "va" /\ buffers[n + 1] \notin Physical
                THEN {buffers[n + 1]} ELSE {}
      mapped == there \ Physical
  IN [s EXCEPT !.d.mem = @ \cup ({s.h} \X (there \cup half)),
               !.i.va = @ \cup mapped, !.m = @ \cup ({s.h} \X mapped)]

free_virtual_addr(s, buffers) ==
  [s EXCEPT !.m = @ \ ({s.h} \X (s.i.va \cap buffers)), !.i.va = @ \ buffers]

vpu_env_open(s) == [s EXCEPT !.i.env = TRUE, !.i.extra = 4]

(* V_DEC_FREE_MEMORY frees whatever was allocated on the device.           *)
vpu_env_close(s) == [s EXCEPT !.i.env = FALSE, !.d.mem = {}]

------------------------------------------------------------------------------
(* INIT: the buffers each decoder needs before V_DEC_INIT, in their order. *)
vpu_dec_ready == <<"stream", "ps", "work">>
hevc_dec_ready == <<"stream", "work">>
vpu_4k_d2_dec_ready == <<"stream", "work">>
jpu_dec_ready == <<"stream">>

Ready(c) == CASE c = "vpu"   -> vpu_dec_ready
              [] c = "hevc"  -> hevc_dec_ready
              [] c = "4kd2"  -> vpu_4k_d2_dec_ready
              [] c = "mjpeg" -> jpu_dec_ready

vdec_vpu_INIT(s, failed) == [InitCommand(s, failed) EXCEPT !.i.opened = @ \/ ~failed]
vdec_hevc_INIT(s, failed) == [InitCommand(s, failed) EXCEPT !.i.opened = @ \/ ~failed,
                                                                 !.i.half = 0]
vdec_vpu_4k_d2_INIT(s, failed) == [InitCommand(s, failed) EXCEPT !.i.opened = @ \/ ~failed,
                                                                 !.i.half = 0]
(* This one counts as open whatever comes of V_DEC_INIT.                   *)
vdec_mjpeg_jpu_INIT(s, failed) == [InitCommand(s, failed) EXCEPT !.i.opened = TRUE,
                                                                 !.i.first = TRUE]

VDEC_INIT(c, s, n, how, failed) ==
  LET ready == malloc_dual_addr(vpu_env_open(s), Ready(c), n, how)
  IN IF n < Len(Ready(c)) THEN ready
     ELSE CASE c = "vpu"   -> vdec_vpu_INIT(ready, failed)
            [] c = "hevc"  -> vdec_hevc_INIT(ready, failed)
            [] c = "4kd2"  -> vdec_vpu_4k_d2_INIT(ready, failed)
            [] c = "mjpeg" -> vdec_mjpeg_jpu_INIT(ready, failed)

------------------------------------------------------------------------------
(* CLOSE.                                                                  *)
AllMapped == {"stream", "work", "frame"}

(* The codec is closed if it was opened; buffers and memory are given back *)
(* if the environment is open.                                             *)
vdec_vpu_CLOSE(s, failed) ==
  LET closed == IF s.i.opened THEN [CloseCommand(s, failed) EXCEPT !.i.opened = FALSE] ELSE s
  IN IF s.i.env THEN vpu_env_close(free_virtual_addr(closed, AllMapped)) ELSE closed

vdec_hevc_CLOSE(s, failed) ==
  LET closed == IF s.i.opened THEN [CloseCommand(s, failed) EXCEPT !.i.opened = FALSE] ELSE s
  IN IF s.i.env THEN vpu_env_close(free_virtual_addr(closed, AllMapped)) ELSE closed

vdec_vpu_4k_d2_CLOSE(s, failed) ==
  LET closed == IF s.i.opened THEN [CloseCommand(s, failed) EXCEPT !.i.opened = FALSE] ELSE s
  IN vpu_env_close(free_virtual_addr(closed, AllMapped))

(* The command is sent in any case, the memory is given back if it works.  *)
vdec_mjpeg_jpu_CLOSE(s, failed) ==
  LET closed == CloseCommand(free_virtual_addr(s, {"stream", "frame"}), failed)
  IN IF failed THEN closed ELSE vpu_env_close(closed)

VDEC_CLOSE(c, s, failed) ==
  CASE c = "vpu"   -> vdec_vpu_CLOSE(s, failed)
    [] c = "hevc"  -> vdec_hevc_CLOSE(s, failed)
    [] c = "4kd2"  -> vdec_vpu_4k_d2_CLOSE(s, failed)
    [] c = "mjpeg" -> vdec_mjpeg_jpu_CLOSE(s, failed)

------------------------------------------------------------------------------
(* The sequence header: frame buffers.                                     *)
Least(a, b) == IF a < b THEN a ELSE b

Frames(s, avail) == Least(Least(MinFrames + s.i.extra, avail), MaxFrameBuffers)

vpu_dec_seq_header(s, avail) == [enough |-> Frames(s, avail) >= MinFrames, extra |-> s.i.extra]
hevc_dec_seq_header(s, avail) == [enough |-> Frames(s, avail) >= MinFrames, extra |-> s.i.extra]
jpu_dec_seq_header(s, avail) == [enough |-> Frames(s, avail) >= MinFrames, extra |-> s.i.extra]

(* A count that is cut sets the additional frames to what is left of it,   *)
(* and is then compared with the sum.                                      *)
vpu_4k_d2_dec_seq_header(s, avail) ==
  LET count == Frames(s, avail)
      extra == IF count < MinFrames + s.i.extra THEN count - MinFrames ELSE s.i.extra
  IN [enough |-> count >= MinFrames + extra, extra |-> extra]

FrameBuffers(c, s, avail) ==
  CASE c = "vpu"   -> vpu_dec_seq_header(s, avail)
    [] c = "hevc"  -> hevc_dec_seq_header(s, avail)
    [] c = "4kd2"  -> vpu_4k_d2_dec_seq_header(s, avail)
    [] c = "mjpeg" -> jpu_dec_seq_header(s, avail)

(* Before the frame buffers: the slice buffer of H.264.                    *)
HeaderBuffers(c) == IF c = "vpu" THEN <<"slice", "frame">> ELSE <<"frame">>

(* The header is copied to the start of the bitstream buffer.              *)
vdec_vpu_SEQ_HEADER(s, p) == [s EXCEPT !.i.stream[1] = p]
vdec_hevc_SEQ_HEADER(s, p) == [s EXCEPT !.i.stream[1] = p]
vdec_vpu_4k_d2_SEQ_HEADER(s, p) == [s EXCEPT !.i.stream[1] = p]
vdec_mjpeg_jpu_SEQ_HEADER(s, p) == [s EXCEPT !.i.stream[1] = p]

HeaderCopied(c, s, p) ==
  CASE c = "vpu"   -> vdec_vpu_SEQ_HEADER(s, p)
    [] c = "hevc"  -> vdec_hevc_SEQ_HEADER(s, p)
    [] c = "4kd2"  -> vdec_vpu_4k_d2_SEQ_HEADER(s, p)
    [] c = "mjpeg" -> vdec_mjpeg_jpu_SEQ_HEADER(s, p)

Header(c, s, p, extra, avail, failed, n, how, unregistered) ==
  LET begun == Command(HeaderCopied(c, [s EXCEPT !.i.extra = extra], p))
      fb    == FrameBuffers(c, begun, avail)
      ready == malloc_dual_addr([begun EXCEPT !.i.extra = fb.extra], HeaderBuffers(c), n, how)
  IN IF failed THEN begun
     ELSE IF ~fb.enough THEN [begun EXCEPT !.i.extra = fb.extra]
     ELSE IF n < Len(HeaderBuffers(c)) THEN ready
     ELSE IF unregistered THEN Command(ready)
     ELSE [Command(ready) EXCEPT !.i.frames = Frames(begun, avail), !.i.seq = TRUE]

------------------------------------------------------------------------------
(* DECODE: where the picture is copied to (half + 1, nowhere = 0), and the *)
(* half the next one goes to.                                              *)
vdec_vpu_DECODE(i, p, result) == [to |-> 1, from |-> 1, half |-> 0]

(* A decoder that is full gets the picture again, in the same half.        *)
vdec_hevc_DECODE(i, p, result) ==
  [to |-> i.half + 1, from |-> i.half + 1,
   half |-> IF result = "success" THEN 1 - i.half ELSE i.half]

vdec_vpu_4k_d2_DECODE(i, p, result) ==
  [to |-> i.half + 1, from |-> i.half + 1, half |-> 1 - i.half]

(* The first one is still there from the sequence header.                  *)
vdec_mjpeg_jpu_DECODE(i, p, result) ==
  [to |-> IF i.first THEN 0 ELSE 1, from |-> 1, half |-> 0]

DecodeStep(c, i, p, result) ==
  CASE c = "vpu"   -> vdec_vpu_DECODE(i, p, result)
    [] c = "hevc"  -> vdec_hevc_DECODE(i, p, result)
    [] c = "4kd2"  -> vdec_vpu_4k_d2_DECODE(i, p, result)
    [] c = "mjpeg" -> vdec_mjpeg_jpu_DECODE(i, p, result)

------------------------------------------------------------------------------
(* Instances.                                                              *)
Free == Indices \ taken

(* Mutant: an index of a device that cannot be opened is kept. *)
vdec_alloc_instance_KeepsIndex(index) == IF index = -1 THEN taken ELSE taken \cup {index}

(* When the device cannot be opened, the index goes back.                  *)
vdec_alloc_instance(index) == IF index = -1 THEN taken ELSE taken \ {index}

(* What VPU_GET_INSTANCE_IDX leaves in nInstance: an index, -1 when there  *)
(* is none, and when it fails the 0 that was put in.                       *)
InstanceIndex ==
  (IF Free = {} THEN {[index |-> -1, taken |-> taken]}
   ELSE {[index |-> k, taken |-> taken \cup {k}] : k \in Free})
  \cup (IF "index" \in Faults THEN {[index |-> 0, taken |-> taken]} ELSE {})

vdec_release_instance(h) ==
  /\ taken' = taken \ {inst[h].index}
  /\ inst' = [inst EXCEPT ![h] = NoInstance]

------------------------------------------------------------------------------

(* VideoDecoder_Init: a failed INIT is closed again, the instance stays.   *)
InitWith(h, instance) ==
  LET c == codec[h]
      s == State(h, instance)
  IN \E n \in (IF "alloc" \in Faults THEN 0..Len(Ready(c)) ELSE {Len(Ready(c))}),
        how \in {"pa", "va"}, refused \in MayFail("init"), unclosed \in MayFail("close") :
       LET done == VDEC_INIT(c, s, n, how, refused)
           ok == n = Len(Ready(c)) /\ ~refused
       IN /\ Store(h, IF ok THEN done ELSE VDEC_CLOSE(c, done, unclosed))
          /\ calls' = [calls EXCEPT ![h] = IF ok THEN "working" ELSE "failed"]

VideoDecoder_Init(h) ==
  /\ calls[h] \in {"created", "failed"} /\ inits[h] < MaxInits
  /\ inits' = [inits EXCEPT ![h] = @ + 1]
  /\ last' = [last EXCEPT ![h] = NoDecode]
  /\ \/ /\ inst[h] # NoInstance
        /\ InitWith(h, inst[h]) /\ UNCHANGED taken
     \/ \* no instance: the function is called without one, and fails
        /\ inst[h] = NoInstance
        /\ \/ "open" \in Faults /\ UNCHANGED taken
           \/ \E got \in InstanceIndex : got.index = -1 /\ UNCHANGED taken
           \/ \E got \in InstanceIndex :
                "open" \in Faults /\ got.index # -1 /\ taken' = vdec_alloc_instance(got.index)
        /\ calls' = [calls EXCEPT ![h] = "failed"]
        /\ UNCHANGED <<inst, dev, maps, stray>>
     \/ /\ inst[h] = NoInstance
        /\ \E got \in InstanceIndex :
             got.index # -1 /\ InitWith(h, Zeroed(got.index)) /\ taken' = got.taken
  /\ UNCHANGED <<codec, other>>

VideoDecoder_DecodeSequenceHeader(h) ==
  /\ calls[h] = "working"
  /\ \E p \in Pictures, extra \in Extras, avail \in 0..MaxAvail,
        failed \in MayFail("header"), how \in {"pa", "va"}, unregistered \in MayFail("frames"),
        n \in (IF "frames" \in Faults THEN 0..2 ELSE {2}) :
       LET s == Header(codec[h], State(h, inst[h]), p, extra, avail, failed,
                       Least(n, Len(HeaderBuffers(codec[h]))), how, unregistered)
       IN /\ Store(h, s)
          /\ calls' = [calls EXCEPT ![h] = IF s.i.seq THEN "decoding" ELSE "failed_header"]
          /\ last' = [last EXCEPT ![h].given = p]
  /\ UNCHANGED <<codec, inits, taken, other>>

(* The first picture decoded is the one that came with the header.         *)
VideoDecoder_Decode(h) ==
  /\ calls[h] \in {"decoding", "decoded"}
  /\ \E p \in Pictures,
        result \in {"success", "full"} \cup (IF "decode" \in Faults THEN {"error"} ELSE {}) :
       LET i == inst[h]
           step == DecodeStep(codec[h], i, p, result)
           stream == IF step.to = 0 THEN i.stream ELSE [i.stream EXCEPT ![step.to] = p]
           s == Command(State(h, i))
       IN /\ calls[h] = "decoding" => p = last[h].given
          /\ Store(h, [s EXCEPT !.i.stream = stream, !.i.half = step.half, !.i.first = FALSE])
          /\ last' = [last EXCEPT ![h] =
               [given |-> p, read |-> stream[step.from],
                previous |-> IF result = "success" THEN step.from ELSE 0,
                kept |-> last[h].previous = 0
                           \/ stream[last[h].previous] = i.stream[last[h].previous]]]
  /\ calls' = [calls EXCEPT ![h] = "decoded"]
  /\ UNCHANGED <<codec, inits, taken, other>>

VideoDecoder_Deinit(h) ==
  /\ calls[h] \in {"failed", "failed_header", "working", "decoding", "decoded"}
  /\ \/ inst[h] = NoInstance /\ UNCHANGED <<inst, dev, maps, stray, taken>>
     \/ /\ inst[h] # NoInstance
        /\ \E failed \in MayFail("close") :
             LET s == VDEC_CLOSE(codec[h], State(h, inst[h]), failed)
             IN /\ dev' = [dev EXCEPT ![s.i.index] = s.d]
                /\ maps' = s.m /\ stray' = s.stray
        /\ vdec_release_instance(h)
  /\ calls' = [calls EXCEPT ![h] = "deinited"]
  /\ last' = [last EXCEPT ![h] = NoDecode]
  /\ UNCHANGED <<codec, inits, other>>

(* The handle is destroyed, and another one made.                          *)
VideoDecoder_Create(h) ==
  /\ calls[h] = "deinited"
  /\ calls' = [calls EXCEPT ![h] = "created"] /\ inits' = [inits EXCEPT ![h] = 0]
  /\ codec' \in {[codec EXCEPT ![h] = c] : c \in Codecs}
  /\ UNCHANGED <<inst, taken, other, dev, maps, stray, last>>

OtherProcess ==
  /\ \/ \E k \in Free : taken' = taken \cup {k} /\ other' = other \cup {k}
     \/ \E k \in other : taken' = taken \ {k} /\ other' = other \ {k}
  /\ UNCHANGED <<calls, codec, inits, inst, dev, maps, stray, last>>

Next == \/ \E h \in Handles : \/ VideoDecoder_Init(h)
                              \/ VideoDecoder_DecodeSequenceHeader(h)
                              \/ VideoDecoder_Decode(h)
                              \/ VideoDecoder_Deinit(h)
                              \/ VideoDecoder_Create(h)
        \/ OtherProcess

Spec == Init /\ [][Next]_vars

------------------------------------------------------------------------------
(* Every variable holds a value of its type; an index of another process   *)
(* is taken, and mappings are of the buffers a decoder has.                *)
OldTypeOK ==
  /\ codec \in [Handles -> Codecs] /\ inits \in [Handles -> 0..MaxInits]
  /\ taken \subseteq Indices /\ other \subseteq taken
  /\ maps \subseteq Handles \X AllMapped /\ stray \in BOOLEAN
  /\ \A h \in Handles : inst[h] # NoInstance =>
       inst[h].index \in Indices /\ inst[h].frames \in 0..MaxFrameBuffers

Live == {h \in Handles : inst[h] # NoInstance}

(* Nobody else works on the device of an instance: its index is taken, by  *)
(* this instance alone.  It takes the manager, the clean-up of a device    *)
(* that cannot be opened and the release of other handles to keep it.      *)
IndexOwned ==
  \A h \in Live :
    /\ inst[h].index \in taken \ other
    /\ \A g \in Live : inst[g].index = inst[h].index => g = h

(* An index that is taken belongs to somebody.                             *)
NoIndexLost == taken = other \cup {inst[h].index : h \in Live}

(* After Deinit nothing of the handle is left: no memory on any device and *)
(* no mapping, whatever failed before it, also in an earlier Init.         *)
NothingLeft ==
  \A h \in Handles : calls[h] = "deinited" =>
    /\ \A b \in Buffers : <<h, b>> \notin maps
    /\ \A k \in Indices, b \in Buffers : <<h, b>> \notin dev[k].mem

(* A decoder that works has all its buffers: they are mapped and allocated *)
(* on its own device, which the CLOSE of another handle has not emptied.   *)
WorkingHasBuffers ==
  \A h \in Handles : calls[h] \in {"working", "decoding", "decoded"} =>
    /\ {Ready(codec[h])[k] : k \in DOMAIN Ready(codec[h])} \ Physical \subseteq inst[h].va
    /\ \A b \in inst[h].va : <<h, b>> \in dev[inst[h].index].mem /\ <<h, b>> \in maps

(* No command but V_DEC_INIT is sent to a codec that is not open, whatever *)
(* failed before it.                                                       *)
CommandsInOrder == ~stray

(* A codec that is fed has at least the frame buffers it asked for.        *)
EnoughFrames ==
  \A h \in Live : inst[h].seq /\ codec[h] # "4kd2" => inst[h].frames >= MinFrames

(* The codec reads the picture its caller gave: what is at the address of  *)
(* the command is not the picture before it.                               *)
DecodesWhatWasGiven ==
  \A h \in Handles : calls[h] = "decoded" => last[h].read = last[h].given

(* USE_PREV_STREAMBUFF_DECODING: a picture that was taken stays in its     *)
(* half while the next one is decoded.                                     *)
PreviousKept ==
  \A h \in Handles : codec[h] \in {"hevc", "4kd2"} => last[h].kept

==============================================================================
