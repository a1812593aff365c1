---------------------------- MODULE VideoDecoderV3 ----------------------------
(***************************************************************************)
(* The video decoder API over the V3 library: VideoDecoder_* with the V3   *)
(* branches of the resource wrapper (video_decode_resource.c).  The calls  *)
(* of the library are those of VdecV3; what matters here is what the       *)
(* wrapper makes of their five return values, and who owns a frame buffer  *)
(* afterwards.  Clocks are a set, handed out in their order (VideoClock    *)
(* has the sorting).                                                       *)
(*                                                                         *)
(* A Decode is two steps, before and after the command: the VPU works, and *)
(* the user reads pictures, in between.  The driver is external.           *)
(***************************************************************************)
EXTENDS Integers, Sequences, FiniteSets

CONSTANTS
  SurfaceChoices,       \* values of number_of_surface_frames, not 0
  MinFrameBufferCount,  \* what the driver takes for itself
  MaxFrameBufferCnt,    \* the most buffers there can be
  MaxReorder,           \* how many pictures the reordering holds back
  Outcomes,             \* what vdec_decode returns in this instance
  MaxPts                \* time stamps of a stream are 1..MaxPts (bound)

AllOutcomes == {"frame", "buf_full", "fail", "need_more", "finish", "not_consumed"}

V3Constants ==
  /\ SurfaceChoices \subseteq Nat \ {0}
  /\ MinFrameBufferCount \in Nat \ {0} /\ MaxFrameBufferCnt \in Nat \ {0}
  /\ \A n \in SurfaceChoices : MinFrameBufferCount + n <= MaxFrameBufferCnt
  /\ MaxReorder \in Nat /\ MaxPts \in Nat /\ Outcomes \subseteq AllOutcomes

Frames == 0..(MaxFrameBufferCnt - 1)
NoIdx == -1
Pts == 1..MaxPts

VARIABLES
  life,         \* "created", "inited", "ready"
  pc,           \* "idle", "wait", "done": the command is sent, is completed
  pkt,          \* the time stamp of the packet
  uiNumOutputFrames,
  clocks,       \* tVideoClock
  decFrames,    \* ptListDecFrame: the pictures recorded under each index
  out,          \* what the last Decode returned
  iMaxIndexCnt, listDisplay,  \* the index control
  output,       \* ret, decoded_status and indices of the last vdec_decode
  \* the driver (external)
  buf, job,
  ptsOf, lastShown  \* history: the picture in each buffer, the last displayed

handle == <<life, uiNumOutputFrames, iMaxIndexCnt>>
lists == <<clocks, decFrames, out, listDisplay>>
driver == <<buf, job, ptsOf, lastShown>>
vars == <<handle, pc, pkt, lists, output, driver>>

Elems(s) == { s[i] : i \in 1..Len(s) }
Holding(states) == { f \in Frames : buf[f] \in states }

NoPicture == [ret |-> "None", idx |-> NoIdx, ts |-> 0, record |-> 0]
NoOutput == [ret |-> "SUCCESS", status |-> "none", decoded |-> NoIdx, disp |-> NoIdx]

Init ==
  /\ life = "created" /\ pc = "idle" /\ pkt = 0 /\ uiNumOutputFrames = 0
  /\ clocks = {} /\ decFrames = [f \in Frames |-> <<>>] /\ out = NoPicture
  /\ iMaxIndexCnt = 0 /\ listDisplay = <<>> /\ output = NoOutput
  /\ buf = [f \in Frames |-> "none"] /\ job = NoIdx
  /\ ptsOf = [f \in Frames |-> 0] /\ lastShown = 0

------------------------------------------------------------------------------
VideoDecoder_Init(n) ==
  /\ life = "created"
  /\ life' = "inited" /\ uiNumOutputFrames' = n /\ clocks' = {}
  /\ ptsOf' = [f \in Frames |-> 0] /\ lastShown' = 0
  /\ UNCHANGED <<pc, pkt, decFrames, out, iMaxIndexCnt, listDisplay, output, buf, job>>

(* Mutant: the surface frames are not asked for. *)
PoolSize_Minimum == MinFrameBufferCount

(* additional_frame_count tells the driver of the surface frames.          *)
PoolSize == MinFrameBufferCount + uiNumOutputFrames

VideoDecoder_DecodeSequenceHeader ==
  /\ life = "inited"
  /\ life' = "ready"
  /\ iMaxIndexCnt' = uiNumOutputFrames
  /\ buf' = [f \in Frames |-> IF f < PoolSize THEN "free" ELSE "none"]
  /\ UNCHANGED <<pc, pkt, uiNumOutputFrames, lists, output, job, ptsOf, lastShown>>

(* Mutant: the list of surface frames is kept. *)
EmptiedDisplay_Not == listDisplay
EmptiedDisplay == <<>>

VideoDecoder_Deinit ==
  /\ life \in {"inited", "ready"} /\ pc = "idle"
  /\ life' = "created"
  /\ decFrames' = [f \in Frames |-> <<>>]
  /\ listDisplay' = EmptiedDisplay
  /\ out' = NoPicture
  /\ buf' = [f \in Frames |-> "none"]
  /\ UNCHANGED <<pc, pkt, uiNumOutputFrames, clocks, iMaxIndexCnt, output, job, ptsOf, lastShown>>

------------------------------------------------------------------------------
(* The packets the caller may be at: none that is decoded already.         *)
NextPackets ==
  { p \in Pts : p > lastShown /\ \A f \in Holding({"decoded"}) : ptsOf[f] # p }

(* Mutant: off by one, the window counts as full too early. *)
Leaving_Early ==
  IF Len(listDisplay) + 1 >= iMaxIndexCnt /\ listDisplay # <<>> THEN <<Head(listDisplay)>> ELSE <<>>

(* VideoIndexCtrl_Update: the pictures that leave a full window.           *)
Leaving ==
  IF Len(listDisplay) >= iMaxIndexCnt THEN SubSeq(listDisplay, 1, Len(listDisplay) - iMaxIndexCnt + 1)
  ELSE <<>>

(* SF_VideoDecoder_ReleaseFrame for each of them: its record goes, and     *)
(* VDEC_V3_BUF_CLEAR frees a buffer that is displayed.                     *)
Releases(f) == Cardinality({ i \in 1..Len(Leaving) : Leaving[i] = f })

RecordsLeft(f) == SubSeq(decFrames[f], Releases(f) + 1, Len(decFrames[f]))

Decode_Send(p) ==
  /\ life = "ready" /\ pc = "idle"
  /\ pc' = "wait" /\ pkt' = p
  /\ listDisplay' = SubSeq(listDisplay, Len(Leaving) + 1, Len(listDisplay))
  /\ decFrames' = [f \in Frames |-> RecordsLeft(f)]
  /\ buf' = [f \in Frames |-> IF Releases(f) > 0 /\ buf[f] = "shown" THEN "free" ELSE buf[f]]
  /\ out' = NoPicture
  /\ UNCHANGED <<handle, clocks, output, job, ptsOf, lastShown>>

(* vd_res_decode: what VideoDecoder_Decode is given.  For any return value *)
(* but success the result stays as it was initialised, all zeros.          *)
Filled ==
  IF output.ret = "SUCCESS"
  THEN [frameOut |-> output.disp # NoIdx, insertFrame |-> output.status = "frame",
        insertClock |-> FALSE, decoded |-> output.decoded, disp |-> output.disp]
  ELSE [frameOut |-> FALSE, insertFrame |-> FALSE, insertClock |-> FALSE,
        decoded |-> 0, disp |-> 0]

RecordsAfter(r) ==
  IF r.insertFrame THEN [decFrames EXCEPT ![r.decoded] = Append(@, ptsOf[r.decoded])]
  ELSE decFrames

Earliest(S) == CHOOSE c \in S : \A d \in S : c <= d

(* SF_VDec_GetOutputFrame, which leaves the clock's zero without one.      *)
Picture(r, records, queued) ==
  IF records[r.disp] = <<>> THEN [NoPicture EXCEPT !.ret = "GetOutputFrame"]
  ELSE [ret |-> "None", idx |-> r.disp, record |-> Head(records[r.disp]),
        ts |-> IF queued = {} THEN 0 ELSE Earliest(queued)]

Pushed(r) == IF r.disp >= 0 THEN Append(listDisplay, r.disp) ELSE listDisplay

Handle(r) ==
  LET queued == clocks \cup IF r.insertClock THEN {pkt} ELSE {}
      p == IF r.frameOut THEN Picture(r, RecordsAfter(r), queued) ELSE NoPicture
  IN  /\ decFrames' = RecordsAfter(r)
      /\ clocks' = IF p.idx # NoIdx /\ queued # {} THEN queued \ {Earliest(queued)} ELSE queued
      /\ out' = p
      /\ listDisplay' = Pushed(r)

Decode_Return ==
  /\ pc = "done"
  /\ pc' = "idle"
  /\ IF output.ret = "FAIL" THEN UNCHANGED lists ELSE Handle(Filled)
  /\ UNCHANGED <<handle, pkt, output, driver>>

------------------------------------------------------------------------------
(* The driver: it decodes into buffers it owns, displays in the order of   *)
(* time stamps and holds back at most MaxReorder pictures.                 *)

Displayable(b, pts) ==
  { f \in Frames : b[f] = "decoded" /\ \A g \in Frames : b[g] = "decoded" => pts[f] <= pts[g] }

Complete(b, ret, status, f, d) ==
  /\ pc' = "done"
  /\ output' = [ret |-> ret, status |-> status, decoded |-> f, disp |-> d]
  /\ buf' = IF d = NoIdx THEN b ELSE [b EXCEPT ![d] = "shown"]
  /\ lastShown' = IF d = NoIdx THEN lastShown ELSE ptsOf[d]
  /\ job' = NoIdx
  /\ UNCHANGED <<handle, pkt, lists, ptsOf>>

Vpu_Begin(f) ==
  /\ pc = "wait" /\ job = NoIdx /\ "frame" \in Outcomes
  /\ buf[f] = "free"
  /\ job' = f
  /\ buf' = [buf EXCEPT ![f] = "writing"]
  /\ ptsOf' = [ptsOf EXCEPT ![f] = pkt]
  /\ UNCHANGED <<handle, pc, pkt, lists, output, lastShown>>

(* A decoded picture; another, or the same, may be displayed with it.      *)
Vpu_Frame ==
  /\ pc = "wait" /\ job # NoIdx
  /\ LET b == [buf EXCEPT ![job] = "decoded"]
     IN \E d \in Displayable(b, ptsOf) \cup {NoIdx} :
          /\ d = NoIdx => Cardinality({ f \in Frames : b[f] = "decoded" }) <= MaxReorder
          /\ Complete(b, "SUCCESS", "frame", job, d)

(* No free buffer, or a packet too big for the place left, which is not    *)
(* sent: a picture held back may be displayed all the same.                *)
Vpu_Display(status) ==
  /\ pc = "wait" /\ job = NoIdx /\ status \in Outcomes
  /\ status \in {"buf_full", "not_consumed"}
  /\ status = "buf_full" => Holding({"free"}) = {}
  /\ \E d \in { f \in Displayable(buf, ptsOf) : ptsOf[f] < pkt } \cup {NoIdx} :
       Complete(buf, IF status = "buf_full" THEN "SUCCESS" ELSE "NOT_CONSUMED", status, NoIdx, d)

(* INSUFFICIENT_DATA and FRAME_NOT_COMPLETE, CODEC_FINISH, and failures.   *)
Vpu_Nothing(status) ==
  /\ pc = "wait" /\ job = NoIdx /\ status \in Outcomes
  /\ status \in {"need_more", "finish", "fail"}
  /\ Complete(buf, CASE status = "need_more" -> "NEED_MORE" [] status = "finish" -> "FINISH"
                     [] OTHER -> "FAIL", status, NoIdx, NoIdx)

------------------------------------------------------------------------------
Application ==
  \/ \E n \in SurfaceChoices : VideoDecoder_Init(n)
  \/ VideoDecoder_DecodeSequenceHeader
  \/ VideoDecoder_Deinit

Call == \E p \in NextPackets : Decode_Send(p)

Vpu ==
  \/ \E f \in Frames : Vpu_Begin(f)
  \/ Vpu_Frame
  \/ \E status \in Outcomes : Vpu_Display(status) \/ Vpu_Nothing(status)

Next == Application \/ Call \/ Decode_Return \/ Vpu

Spec == Init /\ [][Next]_vars

(* The decoding loop goes on, the wrapper returns, the driver completes.   *)
FairSpec == Spec /\ WF_vars(Call) /\ WF_vars(Decode_Return) /\ WF_vars(Vpu)

------------------------------------------------------------------------------
(* Every variable holds a value of its type, the answer of the driver and  *)
(* the output of Decode included.                                          *)
V3TypeOK ==
  /\ life \in {"created", "inited", "ready"} /\ pc \in {"idle", "wait", "done"}
  /\ pkt \in Nat /\ uiNumOutputFrames \in Nat /\ iMaxIndexCnt \in Nat
  /\ clocks \subseteq Nat
  /\ decFrames \in [Frames -> Seq(Nat)] /\ listDisplay \in Seq(Frames)
  /\ out \in [ret : {"None", "GetOutputFrame"}, idx : Frames \cup {NoIdx}, ts : Nat, record : Nat]
  /\ output \in [ret : {"SUCCESS", "NOT_CONSUMED", "NEED_MORE", "FINISH", "FAIL"},
                 status : AllOutcomes \cup {"none"}, decoded : Frames \cup {NoIdx},
                 disp : Frames \cup {NoIdx}]
  /\ buf \in [Frames -> {"none", "free", "writing", "decoded", "shown"}]
  /\ job \in Frames \cup {NoIdx} /\ ptsOf \in [Frames -> Nat] /\ lastShown \in Nat

Undelivered == IF pc = "done" /\ output.disp # NoIdx THEN {output.disp} ELSE {}

(* Library and driver agree on who owns a buffer: one the driver has lent  *)
(* out is in the window, once, or in the answer about to be handled.  One  *)
(* that is in neither can never be given back before Deinit; one that is   *)
(* there without being lent is given back while the driver uses it.        *)
BuffersAgree ==
  /\ Holding({"shown"}) = Elems(listDisplay) \cup Undelivered
  /\ Undelivered \cap Elems(listDisplay) = {}
  /\ \A i, j \in 1..Len(listDisplay) : listDisplay[i] = listDisplay[j] => i = j

(* A picture handed out comes with the record made for it: neither one of  *)
(* an earlier picture in the same buffer, nor none.                        *)
OwnRecord ==
  /\ out.ret = "None"
  /\ out.idx # NoIdx => out.record = ptsOf[out.idx]

(* What is lent is held, and a picture that is handed out is its own.      *)
LentIsHeld == BuffersAgree /\ OwnRecord

Surface == INSTANCE SurfaceFrames
             WITH surface <- listDisplay, window <- iMaxIndexCnt,
                  busy <- Holding({"writing"})

(* "prevent overwritting buffers while the user is using it"               *)
(* (video_decoder.h:276), as for the legacy path: only the oldest picture, *)
(* and only out of a full window, goes back to the hardware.               *)
SurfaceFramesKept == Surface!SFSpec

Taken(p) == p <= lastShown \/ \E f \in Holding({"decoded"}) : ptsOf[f] = p

(* Because the driver is told of the surface frames, keeping them never    *)
(* stops the decoder: a stream is taken to its last packet.                *)
StreamIsTaken == life = "ready" ~> ((\A p \in Pts : Taken(p)) \/ life # "ready")

==============================================================================
