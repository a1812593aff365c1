----------------------------- MODULE PluginBuffers -----------------------------
(***************************************************************************)
(* The buffers of one decoder plugin: what AllocMemory gets at Init, what  *)
(* a sequence header adds, what Decode copies into, and what Deinit gives  *)
(* back.  The eight codec plugins are copies of one another over the same  *)
(* common part; what is different in them is the rows h264 .. mjpeg.       *)
(*                                                                         *)
(* A size is a number of frames for the frame buffer, and a number of      *)
(* units for the bitstream buffer.  Calls come from one thread.  The       *)
(* kernel driver, which grants and frees memory, and mmap are external.    *)
(***************************************************************************)
EXTENDS Integers, Sequences, FiniteSets

CONSTANTS
  Codecs,       \* the plugins of this instance of the model
  StreamSize,   \* size of the bitstream buffer
  MaxFrames,    \* xxx_MAX_FRAME_BUFFER_COUNT
  MinCounts,    \* minimal frame counts a header may ask for
  Extras,       \* extra frame counts the caller may set
  MaxAvail,     \* memory left for frames
  FrameBytes,   \* iMinFrameBufferSize of a JPEG
  MaxHeaders,   \* bound on the sequence headers of one instance
  Faults        \* what may fail, \subseteq AllFaults

AllFaults == {"drivers", "alloc", "map", "framemap", "poll"}

BufferConstants ==
  /\ Codecs \subseteq {"h264", "h263", "mpeg2", "mpeg4", "vp8", "vp9", "h265", "mjpeg"}
  /\ StreamSize \in Nat \ {0} /\ MaxFrames \in Nat \ {0} /\ MaxHeaders \in Nat
  /\ MaxAvail \in Nat /\ FrameBytes \in Nat
  /\ MinCounts \subseteq Nat /\ Extras \subseteq Nat /\ Faults \subseteq AllFaults

VARIABLES
  codec, bInited,
  stream,      \* pucBitstreamBuffer[VPK_VA] and iBitstreamBufSize
  iExtraFrameCount, iMinFrameBufferCount, iFrameBufferCount, iFrameBufferSize,
  frameVa,     \* pucFrameBuffer[VPK_VA]: 0, or the header that mapped it
  \* the process and the driver (external)
  maps,        \* size of every mapping: 0 is the bitstream, n the frames of header n
  granted,     \* the driver's memory: kind and header
  registered,  \* frames the VPU was told about
  \* history
  calls,       \* "open", "working", "deinited"
  headers,     \* sequence headers so far
  copied,      \* where the last copy of stream data went
  ret,         \* what the last sequence header returned
  avail,       \* what the driver said is left, at the last header
  sized,       \* the header that last computed iFrameBufferSize
  unmapped     \* what Deinit unmapped: the header whose frames it were, and
               \* whether by the size they were mapped with

vars == <<codec, bInited, stream, iExtraFrameCount, iMinFrameBufferCount,
          iFrameBufferCount, iFrameBufferSize, frameVa, maps, granted,
          registered, calls, headers, copied, ret, avail, sized, unmapped>>
counts == <<iExtraFrameCount, iMinFrameBufferCount, iFrameBufferCount, iFrameBufferSize>>
frames == <<frameVa, registered>>
history == <<headers, copied, ret, avail, sized, unmapped>>

NothingUnmapped == [id |-> 0, exact |-> TRUE]

------------------------------------------------------------------------------
(* What is particular to each plugin: the buffers of AllocMemory in order, *)
(* whether a header also takes a slice buffer, and what Decode checks.     *)
h264  == [buffers |-> <<"stream", "ps", "work">>, slice |-> TRUE,  checked |-> TRUE]
h263  == [buffers |-> <<"stream", "ps", "work">>, slice |-> TRUE,  checked |-> TRUE]
mpeg2 == [buffers |-> <<"stream", "ps", "work">>, slice |-> TRUE,  checked |-> TRUE]
mpeg4 == [buffers |-> <<"stream", "ps", "work">>, slice |-> TRUE,  checked |-> TRUE]
vp8   == [buffers |-> <<"stream", "ps", "work">>, slice |-> TRUE,  checked |-> TRUE]
vp9   == [buffers |-> <<"stream", "ps", "work">>, slice |-> TRUE,  checked |-> TRUE]
h265  == [buffers |-> <<"stream", "work">>,       slice |-> TRUE,  checked |-> TRUE]
mjpeg == [buffers |-> <<"stream">>,               slice |-> FALSE, checked |-> FALSE]

Plugin == [h264 |-> h264, h263 |-> h263, mpeg2 |-> mpeg2, mpeg4 |-> mpeg4,
           vp8 |-> vp8, vp9 |-> vp9, h265 |-> h265, mjpeg |-> mjpeg]

Least(S) == CHOOSE x \in S : \A y \in S : x <= y

Init ==
  /\ codec \in Codecs /\ bInited = FALSE
  /\ stream = [va |-> "null", size |-> 0]
  /\ iExtraFrameCount = 0 /\ iMinFrameBufferCount = 0
  /\ iFrameBufferCount = 0 /\ iFrameBufferSize = 0
  /\ frameVa = 0 /\ registered = 0
  /\ maps = {} /\ granted = {}
  /\ calls = "open" /\ headers = 0 /\ copied = "nowhere" /\ ret = "none"
  /\ avail = 0 /\ sized = 0 /\ unmapped = NothingUnmapped

(* AllocMemory stops at the first buffer it does not get; the result of    *)
(* the map of the bitstream is compared with NULL, which mmap never        *)
(* returns, so that a failed map counts as an address.                     *)
AllocMemory(got, mapped) ==
  /\ granted' = {<<Plugin[codec].buffers[i], 0>> : i \in 1..got}
  /\ IF got = 0 THEN UNCHANGED <<stream, maps>>
     ELSE /\ stream' = [va |-> IF mapped THEN "mapped" ELSE "failed", size |-> StreamSize]
          /\ maps' = IF mapped THEN {[id |-> 0, size |-> StreamSize]} ELSE {}

(* Neither the result of AllocMemory nor that of V_DEC_INIT is looked at.  *)
Plugin_Init ==
  /\ calls = "open" /\ calls' = "working"
  /\ \/ /\ "drivers" \in Faults
        /\ UNCHANGED <<bInited, stream, maps, granted>>
     \/ /\ bInited' = TRUE
        /\ \E got \in (IF "alloc" \in Faults THEN 0 ELSE Len(Plugin[codec].buffers))
                        ..Len(Plugin[codec].buffers),
              mapped \in (IF "map" \in Faults THEN BOOLEAN ELSE {TRUE}) :
             AllocMemory(got, mapped)
  /\ UNCHANGED <<codec, counts, frames, history>>

Plugin_Set_ExtraFrameCount ==
  /\ calls = "working" /\ iExtraFrameCount' \in Extras
  /\ ret' = "none"
  /\ UNCHANGED <<codec, bInited, stream, iMinFrameBufferCount, iFrameBufferCount,
                 iFrameBufferSize, frames, maps, granted, calls,
                 headers, copied, avail, sized, unmapped>>

------------------------------------------------------------------------------
(* Sequence header.                                                        *)

(* A header longer than the bitstream buffer is cut, to nothing when there *)
(* is none.                                                                *)
HeaderLength(len) == Least({len, stream.size})

CopyTo(len) ==
  IF stream.va # "mapped" THEN stream.va
  ELSE IF len > stream.size THEN "beyond" ELSE "buffer"

(* The steps of DecodeSequenceHeader that may fail, in their order.        *)
Steps == <<"poll", "slice", "freemem", "frames", "register", "resolution">>
MayFail(step) ==
  CASE step \in {"slice", "frames"} -> "alloc" \in Faults
    [] step \in {"poll", "freemem", "register"} -> "poll" \in Faults
    [] step = "resolution" -> TRUE

(* Frames to ask for: set_slice_buffer_info runs before get_header_info,   *)
(* and takes the minimum the header before this one left; a JPEG header    *)
(* puts the size of a frame there.                                         *)
FrameCount ==
  IF Plugin[codec].slice THEN iMinFrameBufferCount + iExtraFrameCount ELSE FrameBytes

(* Mutant: the memory that is left does not limit the count. *)
FrameBufferCount_Unlimited(asked, left) == Least({asked, MaxFrames})

FrameBufferCount(asked, left) == Least({asked, left, MaxFrames})

(* A frame buffer that an earlier header mapped stays mapped; a map that   *)
(* fails leaves the earlier address.                                       *)
MapFrames(size, mapped) ==
  IF mapped THEN /\ maps' = maps \cup {[id |-> headers', size |-> size]}
                 /\ frameVa' = headers'
            ELSE UNCHANGED <<maps, frameVa>>

(* DecodeSequenceHeader as far as its step number "failed"; 7: all of it.  *)
HeaderSteps(failed, min, left, mapped) ==
  LET Past(step) == \E i \in DOMAIN Steps : Steps[i] = step /\ failed > i
      asked == IF Past("slice") THEN FrameCount ELSE iFrameBufferCount
      count == IF Past("freemem") THEN FrameBufferCount(asked, left) ELSE asked
      got   == Past("frames")
      done  == got /\ count > 0
  IN /\ iMinFrameBufferCount' = IF Past("poll") THEN min ELSE iMinFrameBufferCount
     /\ iFrameBufferCount' = count
     /\ iFrameBufferSize' = IF Past("freemem") THEN count ELSE iFrameBufferSize
     /\ sized' = IF Past("freemem") THEN headers' ELSE sized
     /\ granted' = granted
          \cup (IF Plugin[codec].slice /\ Past("slice") THEN {<<"slice", headers'>>} ELSE {})
          \cup (IF got THEN {<<"frame", headers'>>} ELSE {})
     /\ IF done THEN MapFrames(count, mapped) ELSE UNCHANGED <<maps, frameVa>>
     /\ registered' = IF done /\ Past("register") THEN count ELSE registered
     /\ avail' = left
     /\ ret' = IF done /\ Past("resolution") THEN "ok" ELSE "failed"

Plugin_Set_SequenceHeader ==
  /\ calls = "working" /\ headers < MaxHeaders
  /\ headers' = headers + 1
  /\ \E len \in 1..(StreamSize + 1) :
       IF HeaderLength(len) = 0
       THEN /\ ret' = "failed"
            /\ UNCHANGED <<counts, frames, maps, granted, copied, avail, sized>>
       ELSE /\ copied' = CopyTo(HeaderLength(len))
            /\ \E failed \in {i \in DOMAIN Steps : MayFail(Steps[i])} \cup {7},
                  min \in MinCounts, left \in 0..MaxAvail,
                  mapped \in (IF "framemap" \in Faults THEN BOOLEAN ELSE {TRUE}) :
                 /\ Steps[2] = "slice" /\ ~Plugin[codec].slice => failed # 2
                 /\ HeaderSteps(failed, min, left, mapped)
            /\ UNCHANGED iExtraFrameCount
  /\ UNCHANGED <<codec, bInited, stream, calls, unmapped>>

------------------------------------------------------------------------------

(* A frame that fits the bitstream buffer is copied there, when there is   *)
(* one; the JPEG decoder does not look.  The command that follows changes  *)
(* nothing here, whatever its result.                                      *)
Plugin_Decode ==
  /\ calls = "working"
  /\ \E len \in 1..StreamSize :
       copied' = IF Plugin[codec].checked /\ stream.va = "null" THEN copied ELSE CopyTo(len)
  /\ UNCHANGED <<codec, bInited, stream, counts, frames, maps, granted, calls,
                 headers, ret, avail, sized, unmapped>>

(* What munmap(address, size) leaves of the mappings.                      *)
Unmap(ms, id, size) == {m \in ms : m.id # id \/ m.size > size}

(* Mutant: only the bitstream buffer is unmapped. *)
free_alloc_buffers_StreamOnly ==
  /\ maps' = {m \in maps : m.id # 0}
  /\ stream' = [stream EXCEPT !.va = "null"] /\ frameVa' = 0
  /\ UNCHANGED unmapped

(* munmap of a failed map's "address" does nothing.                        *)
free_alloc_buffers ==
  /\ LET afterStream == IF stream.va = "mapped" THEN Unmap(maps, 0, stream.size) ELSE maps
     IN maps' = IF frameVa # 0 THEN Unmap(afterStream, frameVa, iFrameBufferSize)
                ELSE afterStream
  /\ unmapped' = [id |-> frameVa,
                  exact |-> frameVa = 0
                              \/ [id |-> frameVa, size |-> iFrameBufferSize] \in maps]
  /\ stream' = [stream EXCEPT !.va = "null"] /\ frameVa' = 0

(* bInited is not reset.                                                   *)
Plugin_Deinit ==
  /\ calls = "working" /\ calls' = "deinited"
  /\ IF bInited THEN free_alloc_buffers /\ granted' = {} /\ registered' = 0
     ELSE UNCHANGED <<stream, frames, maps, granted, unmapped>>
  /\ UNCHANGED <<codec, bInited, counts, headers, copied, ret, avail, sized>>

(* Close, then the next decoder.                                           *)
Plugin_Close ==
  /\ calls = "deinited"
  /\ codec' \in Codecs /\ bInited' = FALSE
  /\ stream' = [va |-> "null", size |-> 0]
  /\ iExtraFrameCount' = 0 /\ iMinFrameBufferCount' = 0
  /\ iFrameBufferCount' = 0 /\ iFrameBufferSize' = 0
  /\ frameVa' = 0 /\ registered' = 0
  /\ maps' = {} /\ granted' = {}
  /\ calls' = "open" /\ headers' = 0 /\ copied' = "nowhere" /\ ret' = "none"
  /\ avail' = 0 /\ sized' = 0 /\ unmapped' = NothingUnmapped

Next ==
  \/ Plugin_Init \/ Plugin_Set_ExtraFrameCount \/ Plugin_Set_SequenceHeader
  \/ Plugin_Decode \/ Plugin_Deinit \/ Plugin_Close

Spec == Init /\ [][Next]_vars

------------------------------------------------------------------------------
(* Every variable holds a value of its type: addresses, sizes and counts   *)
(* are only those the driver or the caller gave.                           *)
BufTypeOK ==
  /\ codec \in Codecs /\ bInited \in BOOLEAN
  /\ stream \in [va : {"null", "mapped", "failed"}, size : {0, StreamSize}]
  /\ iExtraFrameCount \in Extras \cup {0} /\ iMinFrameBufferCount \in MinCounts \cup {0}
  /\ iFrameBufferCount \in Nat /\ iFrameBufferSize \in 0..MaxFrames
  /\ frameVa \in 0..headers /\ registered \in 0..MaxFrames
  /\ \A m \in maps : m.id \in 0..headers /\ m.size \in Nat \ {0}
  /\ calls \in {"open", "working", "deinited"} /\ headers \in 0..MaxHeaders
  /\ copied \in {"nowhere", "null", "failed", "beyond", "buffer"}
  /\ ret \in {"none", "ok", "failed"}
  /\ sized \in 0..headers /\ unmapped \in [id : 0..headers, exact : BOOLEAN]

(* Stream data is never copied through NULL after an Init that failed and  *)
(* whose result the caller ignored, and never past the end of the buffer.  *)
(* The JPEG decoder apart, which does not look.                            *)
CopiesIntoBuffer == codec = "mjpeg" \/ copied \notin {"null", "beyond"}

(* A sequence header succeeds only with a bitstream buffer, although Init  *)
(* goes on without one; a header cut to nothing stops there.               *)
HeaderNeedsStream == ret = "ok" => <<"stream", 0>> \in granted \/ calls # "working"

(* The frames the VPU may write after a header fit into the memory the     *)
(* driver said is left, and the mapping of this header, unless that        *)
(* failed, holds them all and is the one output addresses are computed     *)
(* from.                                                                   *)
RegisteredFramesMapped ==
  (ret = "ok" /\ calls = "working") =>
    /\ registered \in 1..Least({avail, MaxFrames})
    /\ \A m \in maps : m.id = headers => frameVa = headers /\ m.size = registered

(* The frames registered with the VPU, and what is copied, have a place.   *)
FramesInMapping == RegisteredFramesMapped /\ CopiesIntoBuffer /\ HeaderNeedsStream

(* Deinit after any history of headers and failures: the driver's memory   *)
(* and the bitstream's mapping are given back, and so are the frames it    *)
(* unmapped, unless a header behind the one that mapped them came as far   *)
(* as to compute iFrameBufferSize anew; what else is still mapped are      *)
(* frames that a later header replaced (pucFrameBuffer knows the last).    *)
DeinitFrees ==
  (calls = "deinited" /\ bInited) =>
    /\ granted = {}
    /\ \A m \in maps :
         /\ m.id # 0
         /\ m.id < unmapped.id \/ (m.id = unmapped.id /\ sized > m.id)

(* Deinit unmaps the frames by the size they were mapped with, whatever    *)
(* failed behind their mapping, unless a later header computed a new size  *)
(* and then did not map frames of that size.                               *)
UnmappedAsMapped == unmapped.exact \/ sized > unmapped.id

(* What Deinit gives back, and by which size, over any number of headers.  *)
DeinitReleases == DeinitFrees /\ UnmappedAsMapped

==============================================================================
