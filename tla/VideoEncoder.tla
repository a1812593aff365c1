------------------------------ MODULE VideoEncoder ------------------------------
(***************************************************************************)
(* The encoder as its caller sees it: the handle of video_encoder.c, the   *)
(* resource it creates at every Init, and the plugin below it with its     *)
(* descriptors, its buffers and the structures it shares with the driver.  *)
(*                                                                         *)
(* One thread calls, in the order of enc_test.c, but goes on after errors  *)
(* and may start again after Deinit.  A picture is its number, a coded     *)
(* picture the number of the one it was made from; 0 is nothing.  The      *)
(* kernel driver and the table of open descriptors are external.           *)
(***************************************************************************)
EXTENDS Integers, Sequences, FiniteSets

CONSTANTS
  Codecs,      \* plugins of this instance of the model
  MaxInits,    \* bound on the calls of VideoEncoder_Init
  MaxFrames,   \* bound on the pictures of one handle
  Faults       \* what may fail, \subseteq AllFaults

AllFaults == {"load", "drivers", "alloc", "command", "fetch"}

EncoderConstants ==
  /\ Codecs \subseteq {"h264", "h265", "mjpeg", "dummy"} /\ Codecs # {}
  /\ MaxInits \in Nat /\ MaxFrames \in Nat /\ Faults \subseteq AllFaults

VARIABLES
  eCodec, ptResource,   \* VideoEncoder_T: the codec, and the number of the Init that made it
  heap,                 \* resources that are allocated
  plugin,               \* the plugin of the current resource
  files,                \* the open descriptors of the process
  maps,                 \* its mappings: <<resource, buffer>>
  \* history
  calls, inits, frames,
  last                  \* the last Set_Header or Encode: what the plugin and the caller got

vars == <<eCodec, ptResource, heap, plugin, files, maps, calls, inits, frames, last>>
process == <<files, maps>>

------------------------------------------------------------------------------
(* The plugins: the buffers of Alloc_Memory, and the parts of a header.    *)
(* The slice buffer is there in slice mode 1, which is the one modelled.   *)
h264  == [buffers |-> {"stream", "work", "me", "slice", "raw"}, header |-> <<"sps", "pps">>]
h265  == [buffers |-> {"stream", "work", "raw"},                header |-> <<"all", "all">>]
mjpeg == [buffers |-> {"stream", "raw"},                        header |-> <<>>]
dummy == h264

Plugin == [h264 |-> h264, h265 |-> h265, mjpeg |-> mjpeg, dummy |-> dummy]
Row == Plugin[plugin.codec]

(* A plugin comes zeroed from Open: its descriptors are 0, not -1.         *)
Open(codec) ==
  [codec |-> codec, bInited |-> FALSE, sized |-> FALSE,
   iMgrFd |-> 0, iVpuFd |-> 0,
   va |-> {},                     \* buffers whose address is set
   min |-> 0,                     \* iMinFrameBufferCount
   isSeqHeaderDone |-> FALSE,
   header |-> <<>>,               \* what iSeqHeaderBufferOutSize counts
   result |-> "ok", coded |-> 0,  \* the fields of ENC_ENCODE the driver writes
   out |-> 0]                     \* iBitStreamOutSize and pucBitStreamOutBuffer

Nothing == [call |-> "none", plugin |-> "ok", coded |-> 0, fetched |-> TRUE,
            header |-> <<>>, copied |-> "nowhere"]

Init ==
  /\ eCodec = "none" /\ ptResource = 0 /\ heap = {} /\ plugin = Open(CHOOSE c \in Codecs : TRUE)
  /\ files = {0} /\ maps = {}
  /\ calls = "created" /\ inits = 0 /\ frames = 0 /\ last = Nothing

------------------------------------------------------------------------------
(* Descriptors: the lowest free number is the next one.                    *)
Lowest(fds) == CHOOSE n \in 0..3 : n \notin fds /\ \A k \in 0..3 : k < n => k \in fds

(* open_drivers that fails at its step "at", then close_drivers, with the  *)
(* descriptors it closes: those >= 0, open or not.                         *)
OpenSteps == {"mgr", "instance", "vpu", "initialize", "none"}
Opened(at) ==
  LET mgr == Lowest(files)
      vpu == Lowest(files \cup {mgr})
  IN CASE at = "mgr"        -> [files |-> files \ {0},      mgr |-> -1,  vpu |-> -1]
       [] at = "instance"   -> [files |-> files \ {mgr, 0}, mgr |-> -1,  vpu |-> -1]
       [] at \in {"vpu", "initialize"}
                            -> [files |-> files,            mgr |-> -1,  vpu |-> -1]
       [] at = "none"       -> [files |-> files \cup {mgr, vpu}, mgr |-> mgr, vpu |-> vpu]

MayFail(fault) == IF fault \in Faults THEN BOOLEAN ELSE {FALSE}

(* The size of the picture is set once the drivers are open.               *)
SizeSet(at) == at = "none"

(* A refused ALLOC_MEMORY leaves the size as the result of the alloc       *)
(* function, which is taken for success: the next buffer is asked for all  *)
(* the same.  The result of V_ENC_INIT is not looked at either; a JPEG has *)
(* no frames.                                                              *)
Plugin_Init(codec, at, refused, initialised) ==
  LET o == Opened(at)
  IN /\ files' = o.files
     /\ IF at # "none"
        THEN /\ plugin' = [Open(codec) EXCEPT !.iMgrFd = -1, !.iVpuFd = -1,
                                                 !.sized = SizeSet(at)]
             /\ UNCHANGED maps
        ELSE LET va == Plugin[codec].buffers \ refused
             IN /\ maps' = maps \cup ({ptResource'} \X va)
                /\ plugin' = [Open(codec) EXCEPT
                     !.bInited = TRUE, !.sized = SizeSet(at), !.iMgrFd = o.mgr, !.iVpuFd = o.vpu,
                     !.va = va, !.min = IF initialised /\ codec # "mjpeg" THEN 1 ELSE 0]

(* The resource of an earlier Init stays allocated.  One whose plugin      *)
(* cannot be loaded or opened is freed on the way out.                     *)
SetCodec(codec, loaded) ==
  IF loaded THEN /\ eCodec' = codec /\ ptResource' = inits' /\ heap' = heap \cup {inits'}
            ELSE /\ eCodec' = "none" /\ ptResource' = 0 /\ UNCHANGED heap

VideoEncoder_Init ==
  /\ calls \in {"created", "failed", "deinited"} /\ inits < MaxInits
  /\ inits' = inits + 1
  /\ \E codec \in Codecs, failed \in MayFail("load") :
       /\ SetCodec(codec, ~failed)
       /\ IF failed
          THEN calls' = "failed" /\ UNCHANGED <<plugin, process>>
          ELSE \E at \in (IF "drivers" \in Faults THEN OpenSteps ELSE {"none"}),
                  refused \in (IF "alloc" \in Faults THEN {{}} \cup {{b} : b \in Plugin[codec].buffers}
                               ELSE {{}}),
                  uninitialised \in MayFail("command") :
                 /\ Plugin_Init(codec, at, refused, ~uninitialised)
                 /\ calls' = IF at = "none" THEN "working" ELSE "failed"
  /\ last' = Nothing /\ UNCHANGED frames

------------------------------------------------------------------------------
(* The header as far as the part that failed.  A part the driver did not   *)
(* write counts with the size that was offered, that of the header buffer. *)
HeaderUpTo(failed, buffer) ==
  SubSeq(Row.header, 1, failed - 1)
    \o (IF failed <= Len(Row.header) /\ buffer THEN <<"unwritten">> ELSE <<>>)

HeaderResult(failed) == IF failed <= Len(Row.header) THEN "error" ELSE "ok"

HeaderDone == plugin.isSeqHeaderDone

(* Only the first call does anything, whatever comes of it.                *)
Process_Seq_Header(failed, gotFrames, gotHeader) ==
  LET added == (IF gotFrames THEN {"frame"} ELSE {}) \cup (IF gotHeader THEN {"seqheader"} ELSE {})
      ret   == HeaderResult(failed)
  IN IF HeaderDone
     THEN last' = [Nothing EXCEPT !.call = "header"] /\ UNCHANGED <<plugin, maps>>
     ELSE /\ plugin' = [plugin EXCEPT
               !.isSeqHeaderDone = TRUE, !.va = @ \cup added,
               !.header = @ \o HeaderUpTo(failed, gotHeader)]
          /\ maps' = maps \cup ({ptResource} \X added)
          /\ last' = [Nothing EXCEPT !.call = "header", !.plugin = ret,
                        !.header = plugin'.header]

Callable == calls \in {"working", "failed"}
Drivers == plugin.iVpuFd >= 0

(* The JPEG plugin ignores the request, and so does a handle without a     *)
(* resource: both report success.                                          *)
VideoEncoder_Set_Header ==
  /\ Callable
  /\ IF ptResource = 0 \/ plugin.codec = "mjpeg"
     THEN last' = [Nothing EXCEPT !.call = "header"] /\ UNCHANGED <<plugin, maps>>
     ELSE \E failed \in (IF ~Drivers THEN {1} ELSE
                         IF "command" \in Faults THEN 1..3 ELSE {3}),
             noFrames \in MayFail("alloc"), noHeader \in MayFail("alloc") :
            Process_Seq_Header(failed, Drivers /\ plugin.min > 0 /\ ~noFrames,
                               Drivers /\ ~noHeader)
  /\ UNCHANGED <<eCodec, ptResource, heap, files, calls, inits, frames>>

------------------------------------------------------------------------------
(* set_encode_info: pictures in one piece are copied to the raw image.     *)
CopyPicture(planes) ==
  IF ~plugin.sized \/ planes THEN "nowhere"
  ELSE IF "raw" \in plugin.va THEN "raw" ELSE "null"

(* Mutant: every plugin keeps what it has of the picture before. *)
ResultInfo_KeepsLast(coded) == IF coded # 0 THEN coded ELSE plugin.out

(* get_encode_result_info: the JPEG one keeps the size and the address of  *)
(* the picture before when there is no new one.                            *)
ResultInfo(coded) ==
  IF plugin.codec = "mjpeg" /\ coded = 0 THEN plugin.out ELSE coded

(* What the plugin returns: the JPEG plugin's own check for an empty       *)
(* picture, and the result of the command that only it overrides.          *)
Encode_Error(ret, out) ==
  IF ret # "ok" \/ (plugin.codec = "mjpeg" /\ out = 0) THEN "error" ELSE "ok"

(* The outcomes of the command: the driver reports an error, or a picture, *)
(* or no data; or the command fails and the structure stays as it was; or  *)
(* only ENCODE_RESULT fails, which is not looked at, and the structure with *)
(* its result is that of the picture before.                               *)
Last(ret, fetched) ==
  [result |-> plugin.result, coded |-> plugin.coded, ret |-> ret, fetched |-> fetched]

Outcomes(n) ==
  (IF Drivers THEN {[result |-> "ok", coded |-> n, ret |-> "ok", fetched |-> TRUE],
                    [result |-> "ok", coded |-> 0, ret |-> "ok", fetched |-> TRUE]} ELSE {})
  \cup (IF Drivers /\ "command" \in Faults
        THEN {[result |-> "error", coded |-> 0, ret |-> "error", fetched |-> TRUE]} ELSE {})
  \cup (IF ~Drivers \/ "command" \in Faults
        THEN {Last("error", TRUE)} ELSE {})
  \cup (IF Drivers /\ "fetch" \in Faults
        THEN {Last(plugin.result, FALSE)} ELSE {})

(* The result is filled in, and passed on, also when the command failed.   *)
Plugin_Encode(outcome, planes) ==
  LET out == ResultInfo(outcome.coded)
  IN /\ plugin' = [plugin EXCEPT !.result = outcome.result, !.coded = outcome.coded, !.out = out]
     /\ last' = [Nothing EXCEPT !.call = "encode", !.plugin = Encode_Error(outcome.ret, out),
                   !.coded = out, !.fetched = outcome.fetched, !.copied = CopyPicture(planes)]

(* The result of ve_res_encode is dropped: the caller gets Error_None.     *)
VideoEncoder_Encode ==
  /\ Callable /\ frames < MaxFrames
  /\ frames' = frames + 1
  /\ IF ptResource = 0 THEN last' = [Nothing EXCEPT !.call = "encode"] /\ UNCHANGED plugin
     ELSE \E outcome \in Outcomes(frames'), planes \in BOOLEAN : Plugin_Encode(outcome, planes)
  /\ UNCHANGED <<eCodec, ptResource, heap, process, calls, inits>>

------------------------------------------------------------------------------

(* The buffers that are unmapped: not the work, search and slice buffers.  *)
free_alloc_buffers == {"stream", "raw", "frame", "seqheader"}

(* bInited and the addresses stay as they are.                             *)
Plugin_Deinit ==
  IF ~plugin.bInited THEN UNCHANGED <<plugin, process>>
  ELSE /\ plugin' = [plugin EXCEPT !.iMgrFd = -1, !.iVpuFd = -1]
       /\ files' = files \ {plugin.iMgrFd, plugin.iVpuFd}
       /\ maps' = {m \in maps : m[1] # ptResource \/ m[2] \notin free_alloc_buffers \cap plugin.va}

VideoEncoder_Deinit ==
  /\ Callable /\ calls' = "deinited"
  /\ IF ptResource = 0 THEN UNCHANGED <<plugin, process>> ELSE Plugin_Deinit
  /\ last' = Nothing
  /\ UNCHANGED <<eCodec, ptResource, heap, inits, frames>>

(* Destroys the last resource, and deinitialises nothing.                  *)
VideoEncoder_Destroy ==
  /\ calls \in {"created", "failed", "deinited"} /\ calls' = "destroyed"
  /\ heap' = IF eCodec # "none" THEN heap \ {ptResource} ELSE heap
  /\ last' = Nothing
  /\ UNCHANGED <<eCodec, ptResource, plugin, process, inits, frames>>

VideoEncoder_Create ==
  /\ calls = "destroyed" /\ calls' = "created"
  /\ eCodec' = "none" /\ ptResource' = 0 /\ heap' = {}
  /\ plugin' = Open(CHOOSE c \in Codecs : TRUE)
  /\ files' = {0} /\ maps' = {}
  /\ inits' = 0 /\ frames' = 0 /\ last' = Nothing

Next ==
  \/ VideoEncoder_Create \/ VideoEncoder_Init \/ VideoEncoder_Set_Header
  \/ VideoEncoder_Encode \/ VideoEncoder_Deinit \/ VideoEncoder_Destroy

Spec == Init /\ [][Next]_vars

------------------------------------------------------------------------------
(* Every variable holds a value of its type; resources and pictures are    *)
(* those of calls that were made.                                          *)
EncTypeOK ==
  /\ eCodec \in Codecs \cup {"none"} /\ ptResource \in 0..inits /\ heap \subseteq 1..inits
  /\ plugin.codec \in Codecs /\ plugin.iMgrFd \in -1..3 /\ plugin.iVpuFd \in -1..3
  /\ plugin.out \in 0..frames /\ plugin.coded \in 0..frames
  /\ Len(plugin.header) <= Len(Row.header)
  /\ files \subseteq 0..3
  /\ calls \in {"created", "working", "failed", "deinited", "destroyed"}
  /\ inits \in 0..MaxInits /\ frames \in 0..MaxFrames

(* After Deinit, whatever failed before it, every descriptor the plugin    *)
(* opened is closed, and what stays mapped are the three kinds of buffers  *)
(* that have no place in free_alloc_buffers, once for each session.        *)
DeinitReleases ==
  calls = "deinited" =>
    /\ files \subseteq {0}
    /\ \A m \in maps : m[2] \in {"work", "me", "slice"}

(* A picture is never copied through NULL, also by an Encode after an Init *)
(* that failed, unless the driver refused the raw image.                   *)
CopiesIntoRaw ==
  last.copied = "null" => Drivers /\ "raw" \notin plugin.va

(* What the plugin reports as coded is the picture it was given, or no     *)
(* data, although the driver's structure still holds the last picture when *)
(* a command fails.  JPEG apart, and the call whose result the driver did  *)
(* not hand out, which the plugin does not notice.                         *)
CodedIsCurrent ==
  (last.call = "encode" /\ last.plugin = "ok" /\ last.fetched /\ eCodec # "mjpeg") =>
    last.coded \in {0, frames}

(* A header is complete, in its order, and given out once, whatever calls  *)
(* come between: a plugin that reports success has all parts and no        *)
(* unwritten one.                                                          *)
HeaderComplete ==
  (last.call = "header" /\ last.plugin = "ok" /\ ptResource # 0) =>
    last.header \in {<<>>, Row.header}

(* Destroy leaves nothing of a handle that was initialised once, whether   *)
(* the codec was loaded or not.                                            *)
DestroyFrees == (calls = "destroyed" /\ inits <= 1) => heap = {}

==============================================================================
