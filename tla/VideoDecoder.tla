---------------------------- MODULE VideoDecoder ------------------------------
(***************************************************************************)
(* One legacy video decoder: VideoDecoder_* (video_decoder.c) with the     *)
(* index control and the clock queue it owns, the plugin's handling of a   *)
(* decoding result, and, as an external process, the VPU driver that       *)
(* executes its commands.                                                  *)
(*                                                                         *)
(* VideoDecoder_Decode is several steps of pc, because the hardware works  *)
(* and the user reads pictures in the meantime:                            *)
(*   idle -> update -> clear -> wait -> idle                               *)
(* A list of the code is a sequence, oldest first.  The list of decoded    *)
(* pictures is searched by name only (the frame index), so it is one queue *)
(* of picture identifiers per name.                                        *)
(***************************************************************************)
EXTENDS Integers, Sequences, FiniteSets

CONSTANTS
  SurfaceChoices,      \* values of number_of_surface_frames at Init
  OutputChoices,       \* values of the deprecated uiNumOutputFrames
  MinFrameBufferCount, \* what the driver asks for this stream
  DEFAULT_FRAME_BUF_CNT,
  VD_DEFAULT_OUTFRAMES,
  MaxFrameBufferCnt,   \* the codec's and the memory's limit on buffers
  MaxReorder,          \* how many pictures the stream's reordering holds back
  Outcomes,            \* what the driver reports in this instance
  MaxPts,              \* time stamps of a stream are 1..MaxPts (bound)
  MaxFailedCommands,   \* commands refused or given up on by the poll loop (bound)
  MAX_CLOCK_33BIT, CLOCK_WRAP_DETECT_TERM, MAX_VIDEO_CLOCK_COUNT, INT_MODULUS

ASSUME DecoderConstants ==
  /\ SurfaceChoices \subseteq Nat
  /\ OutputChoices \subseteq Nat
  /\ MinFrameBufferCount \in Nat
  /\ DEFAULT_FRAME_BUF_CNT \in Nat
  /\ VD_DEFAULT_OUTFRAMES \in Nat \ {0}
  /\ MaxFrameBufferCnt \in Nat \ {0}
  /\ MaxReorder \in Nat
  /\ Outcomes \subseteq {"frame", "field", "skipped", "buf_full", "exit"}
  /\ MaxPts \in Nat
  /\ MaxFailedCommands \in Nat

Frames == 0..(MaxFrameBufferCnt - 1)
NoIdx == -1
Pts == 1..MaxPts

Clock == INSTANCE VideoClock

ASSUME DecoderClock == Clock!ClockConstants

VARIABLES
  \* the decoder handle and its callers
  life,         \* "created", "inited" (VideoDecoder_Init), "ready" (sequence header)
  pc,           \* where a VideoDecoder_Decode is
  pkt,          \* the time stamp of the packet it was given
  uiNumOutputFrames,
  uiFrameID,
  clk,          \* tVideoClock
  decFrames,    \* ptListDecFrame: the identifiers queued under each name
  out,          \* the picture and the error the last Decode returned
  \* the index control
  iMaxIndexCnt,
  listDisplay,
  listClear,
  \* the plugin
  anyDisplayed, \* iDisplyedFrames # 0
  result,       \* tDecodeResultInfo: the last result the driver wrote
  \* the driver (external)
  buf,          \* the driver's view of each frame buffer
  queue,        \* time stamps of the decode commands it has not completed
  job,          \* the buffer being written
  completed,    \* a command completed since the last result was fetched
  failedCommands,
  \* history
  ptsOf,        \* the time stamp of the picture in each buffer
  lastShown     \* the time stamp of the last picture displayed

coreVars  == <<life, pc, pkt, uiNumOutputFrames, uiFrameID, clk, decFrames, out>>
indexVars == <<iMaxIndexCnt, listDisplay, listClear>>
driverVars == <<buf, queue, job, completed, failedCommands, ptsOf, lastShown>>
vars == <<coreVars, indexVars, anyDisplayed, result, driverVars>>

Elems(s) == { s[i] : i \in 1..Len(s) }

NoJob == [frame |-> NoIdx, second |-> FALSE]
NoOutput(err) == [ret |-> err, idx |-> NoIdx, ts |-> 0, id |-> 0]

(* The plugin handle is allocated zeroed: until the driver writes a result *)
(* both indices are 0 and neither status is a success.                     *)
ZeroResult == [status |-> "none", decoded |-> 0, disp |-> 0, shown |-> FALSE]


Init ==
  /\ life = "created" /\ pc = "idle" /\ pkt = 0
  /\ uiNumOutputFrames = 0 /\ uiFrameID = 0
  /\ clk = Clock!ResetClock
  /\ decFrames = [f \in Frames |-> <<>>]
  /\ out = NoOutput("None")
  /\ iMaxIndexCnt = 0 /\ listDisplay = <<>> /\ listClear = <<>>
  /\ anyDisplayed = FALSE /\ result = ZeroResult
  /\ buf = [f \in Frames |-> "none"]
  /\ queue = <<>> /\ job = NoJob /\ completed = FALSE /\ failedCommands = 0
  /\ ptsOf = [f \in Frames |-> 0] /\ lastShown = 0

------------------------------------------------------------------------------
(* Opening and closing a stream.                                           *)

(* VideoDecoder_Init: a new plugin and a new driver instance.              *)
VideoDecoder_Init(surfaceFrames) ==
  /\ life = "created"
  /\ life' = "inited"
  /\ uiNumOutputFrames' = surfaceFrames
  /\ uiFrameID' = 0
  /\ clk' = Clock!ResetClock
  /\ anyDisplayed' = FALSE /\ result' = ZeroResult
  /\ ptsOf' = [f \in Frames |-> 0] /\ lastShown' = 0
  /\ UNCHANGED <<pc, pkt, decFrames, out, indexVars, buf, queue, job, completed, failedCommands>>

(* How many buffers the sequence header allocates: it is the deprecated    *)
(* parameter that adds to the driver's minimum.                            *)
FrameBufferCount(outputFrames) ==
  LET wanted == MinFrameBufferCount + DEFAULT_FRAME_BUF_CNT + outputFrames
  IN  IF wanted > MaxFrameBufferCnt THEN MaxFrameBufferCnt ELSE wanted

(* How many displayed pictures the index control keeps.                    *)
WindowSize(surfaceFrames, outputFrames) ==
  IF surfaceFrames > 0 THEN surfaceFrames
  ELSE IF outputFrames > 0 THEN outputFrames ELSE VD_DEFAULT_OUTFRAMES

VideoDecoder_DecodeSequenceHeader(outputFrames) ==
  /\ life = "inited"
  /\ life' = "ready"
  /\ iMaxIndexCnt' = WindowSize(uiNumOutputFrames, outputFrames)
  /\ buf' = [f \in Frames |-> IF f < FrameBufferCount(outputFrames) THEN "free" ELSE "none"]
  /\ UNCHANGED <<pc, pkt, uiNumOutputFrames, uiFrameID, clk, decFrames, out,
                 listDisplay, listClear, anyDisplayed, result,
                 queue, job, completed, failedCommands, ptsOf, lastShown>>

(* VideoDecoder_Deinit: the driver instance goes, both lists are emptied   *)
(* without a release; the clock queue and the window size stay.            *)
VideoDecoder_Deinit ==
  /\ life \in {"inited", "ready"} /\ pc = "idle"
  /\ life' = "created"
  /\ decFrames' = [f \in Frames |-> <<>>]
  /\ listDisplay' = <<>> /\ listClear' = <<>>
  /\ out' = NoOutput("None")
  /\ buf' = [f \in Frames |-> "none"]
  /\ queue' = <<>> /\ job' = NoJob /\ completed' = FALSE
  /\ UNCHANGED <<pc, pkt, uiNumOutputFrames, uiFrameID, clk, iMaxIndexCnt,
                 anyDisplayed, result, failedCommands, ptsOf, lastShown>>

------------------------------------------------------------------------------
(* VideoDecoder_Decode, step by step.                                      *)

(* The packets an application can be at: a time stamp later than every     *)
(* picture displayed and not that of another picture, the second field of  *)
(* a picture, or the packet the decoder did not take.                      *)
Pending == { f \in Frames : buf[f] \in {"writing", "field", "decoded"} }
NextPackets ==
  { p \in Pts : p > lastShown /\ p \notin Elems(queue)
                /\ \A f \in Pending : ptsOf[f] = p => buf[f] = "field" }

Decode_Call(p) ==
  /\ life = "ready" /\ pc = "idle"
  /\ pc' = "update" /\ pkt' = p
  /\ out' = NoOutput("None")
  /\ UNCHANGED <<life, uiNumOutputFrames, uiFrameID, clk, decFrames, indexVars,
                 anyDisplayed, result, driverVars>>

(* Mutant: the window is taken to be full one picture early. *)
Update_Pop_Early ==
  /\ pc = "update"
  /\ Len(listDisplay) + 1 >= iMaxIndexCnt
  /\ listDisplay # <<>>
  /\ listClear' = Append(listClear, Head(listDisplay))
  /\ listDisplay' = Tail(listDisplay)
  /\ UNCHANGED <<coreVars, iMaxIndexCnt, anyDisplayed, result, driverVars>>

(* VideoIndexCtrl_Update: while the window is full its oldest picture      *)
(* moves to the clear list.                                                *)
Update_Pop ==
  /\ pc = "update"
  /\ Len(listDisplay) >= iMaxIndexCnt
  /\ listDisplay # <<>>
  /\ listClear' = Append(listClear, Head(listDisplay))
  /\ listDisplay' = Tail(listDisplay)
  /\ UNCHANGED <<coreVars, iMaxIndexCnt, anyDisplayed, result, driverVars>>

(* Mutant: a full window counts as one with room. *)
Update_Done_Full ==
  /\ pc = "update"
  /\ Len(listDisplay) <= iMaxIndexCnt
  /\ pc' = "clear"
  /\ UNCHANGED <<life, pkt, uiNumOutputFrames, uiFrameID, clk, decFrames, out,
                 indexVars, anyDisplayed, result, driverVars>>

Update_Done ==
  /\ pc = "update"
  /\ Len(listDisplay) < iMaxIndexCnt
  /\ pc' = "clear"
  /\ UNCHANGED <<life, pkt, uiNumOutputFrames, uiFrameID, clk, decFrames, out,
                 indexVars, anyDisplayed, result, driverVars>>

(* Mutant: the record of a released picture is kept. *)
ForgetPicture_Never(f) == [decFrames EXCEPT ![f] = @]

(* SF_VideoDecoder_ReleaseFrame, called by VideoIndexCtrl_Clear: forget    *)
(* the picture and let the driver have its buffer again.                   *)
ForgetPicture(f) ==
  [decFrames EXCEPT ![f] = IF @ = <<>> THEN @ ELSE Tail(@)]

(* The driver refuses a command, or does not answer it in time.            *)
CommandFails == failedCommands < MaxFailedCommands /\ failedCommands' = failedCommands + 1

ClearBuffer(f) ==
  [buf EXCEPT ![f] = IF @ = "shown" THEN "free" ELSE @]

(* The answer of BUF_FLAG_CLEAR is dropped (decoder_plugin_h264.c:402): a   *)
(* buffer the driver does not clear is on no list any more and stays lent. *)
Clears(f) ==
  \/ buf' = ClearBuffer(f) /\ UNCHANGED failedCommands
  \/ CommandFails /\ UNCHANGED buf

Clear_Release ==
  /\ pc = "clear"
  /\ listClear # <<>>
  /\ decFrames' = ForgetPicture(Head(listClear))
  /\ Clears(Head(listClear))
  /\ listClear' = Tail(listClear)
  /\ UNCHANGED <<life, pc, pkt, uiNumOutputFrames, uiFrameID, clk, out,
                 iMaxIndexCnt, listDisplay, anyDisplayed, result,
                 queue, job, completed, ptsOf, lastShown>>

(* Mutant: a skipped packet queues its time stamp too. *)
InsertsClock_Skipped(r) == r.status \in {"frame", "field", "skipped"}

(* Mutant: every decoded picture counts as displayed, not only the first. *)
IsFrameOut_Always(r) == r.shown \/ r.status = "frame"

(* What Decode makes of a result of the plugin.                            *)
InsertsFrame(r) == r.status = "frame"
InsertsClock(r) == r.status \in {"frame", "field"}
(* get_video_decode_result: the first decoded picture of a stream counts   *)
(* as displayed whatever the driver said.                                  *)
IsFrameOut(r) == r.shown \/ (r.status = "frame" /\ ~anyDisplayed)

DecFramesAfter(r) ==
  IF InsertsFrame(r) THEN [decFrames EXCEPT ![r.decoded] = Append(@, uiFrameID)]
  ELSE decFrames

ClocksAfter(r) ==
  IF InsertsClock(r) THEN Clock!InsertClock(clk, pkt, r.status = "field", r.decoded)
  ELSE clk

(* SF_VDec_GetOutputFrame finds a record for the picture displayed.        *)
FindsOutput(r, records) ==
  IsFrameOut(r) /\ r.disp # NoIdx /\ records[r.disp] # <<>>

(* Mutants: push without looking at the index; push the picture decoded;   *)
(* push only what had a record before this result.                         *)
PushDisplay_Unchecked(r) == Append(listDisplay, r.disp)
PushDisplay_Decoded(r) ==
  IF r.decoded = NoIdx THEN listDisplay ELSE Append(listDisplay, r.decoded)
PushDisplay_Known(r) ==
  IF r.disp = NoIdx \/ decFrames[r.disp] = <<>> THEN listDisplay
  ELSE Append(listDisplay, r.disp)

PushDisplay(r) == IF r.disp = NoIdx THEN listDisplay ELSE Append(listDisplay, r.disp)

Handle(r) ==
  LET records == DecFramesAfter(r)
      clocks  == ClocksAfter(r)
      found   == FindsOutput(r, records)
  IN  /\ decFrames' = records
      /\ uiFrameID' = IF InsertsClock(r) THEN uiFrameID + 1 ELSE uiFrameID
      /\ clk' = IF found THEN Clock!DropClock(clocks) ELSE clocks
      /\ out' = IF found
                THEN [ret |-> "None", idx |-> r.disp, ts |-> Clock!FirstClock(clocks),
                      id |-> Head(records[r.disp])]
                ELSE NoOutput(IF IsFrameOut(r) THEN "GetOutputFrame" ELSE "None")
      /\ listDisplay' = PushDisplay(r)
      /\ anyDisplayed' = (anyDisplayed \/ IsFrameOut(r))

(* The decode command goes to the driver.  A refused ioctl answers -1,     *)
(* which is not CODEC_EXIT: Decode then handles the last result at once.   *)
Decode_Issue ==
  /\ pc = "clear"
  /\ listClear = <<>>
  /\ \/ /\ queue' = Append(queue, pkt) /\ pc' = "wait"
        /\ UNCHANGED <<uiFrameID, clk, decFrames, out, listDisplay, anyDisplayed, failedCommands>>
     \/ /\ CommandFails
        /\ Handle(result) /\ pc' = "idle"
        /\ UNCHANGED queue
  /\ UNCHANGED <<life, pkt, uiNumOutputFrames, iMaxIndexCnt, listClear, result,
                 buf, job, completed, ptsOf, lastShown>>

(* The driver left its codec: Decode returns without having done anything. *)
HandleExit == UNCHANGED <<decFrames, uiFrameID, clk, out, listDisplay, anyDisplayed>>

(* video_plugin_poll_cmd returns when a command completed, and also when   *)
(* all its polls timed out: it handles the last result in either case.     *)
PollReturns ==
  \/ completed /\ UNCHANGED failedCommands
  \/ ~completed /\ CommandFails

(* Mutant: the completion stays signalled. *)
Decode_Return_KeepsSignal ==
  /\ pc = "wait"
  /\ PollReturns
  /\ completed' = completed
  /\ IF result.status = "exit" THEN HandleExit ELSE Handle(result)
  /\ pc' = "idle"
  /\ UNCHANGED <<life, pkt, uiNumOutputFrames, iMaxIndexCnt, listClear, result,
                 buf, queue, job, ptsOf, lastShown>>

Decode_Return ==
  /\ pc = "wait"
  /\ PollReturns
  /\ completed' = FALSE
  /\ IF result.status = "exit" THEN HandleExit ELSE Handle(result)
  /\ pc' = "idle"
  /\ UNCHANGED <<life, pkt, uiNumOutputFrames, iMaxIndexCnt, listClear, result,
                 buf, queue, job, ptsOf, lastShown>>

------------------------------------------------------------------------------
(* The VPU driver (external): it takes commands in order, writes only      *)
(* buffers it was given back, displays pictures in the order of their time *)
(* stamps, and holds back at most what the reordering needs.               *)

Holding(b, states) == { f \in Frames : b[f] \in states }

Displayable(b) ==
  { f \in Holding(b, {"decoded"}) :
      \A g \in Holding(b, {"decoded", "field"}) : ptsOf[f] <= ptsOf[g] }

Vpu_BeginFrame(f) ==
  /\ queue # <<>> /\ job = NoJob
  /\ Holding(buf, {"field"}) = {}
  /\ buf[f] = "free"
  /\ job' = [frame |-> f, second |-> FALSE]
  /\ buf' = [buf EXCEPT ![f] = "writing"]
  /\ ptsOf' = [ptsOf EXCEPT ![f] = Head(queue)]
  /\ UNCHANGED <<coreVars, indexVars, anyDisplayed, result,
                 queue, completed, failedCommands, lastShown>>

Vpu_BeginSecondField(f) ==
  /\ queue # <<>> /\ job = NoJob
  /\ buf[f] = "field"
  /\ job' = [frame |-> f, second |-> TRUE]
  /\ buf' = [buf EXCEPT ![f] = "writing"]
  /\ UNCHANGED <<coreVars, indexVars, anyDisplayed, result,
                 queue, completed, failedCommands, ptsOf, lastShown>>

(* A command completes: the driver may display picture d with it.          *)
Complete(b, status, decoded, d) ==
  /\ queue # <<>>
  /\ (d = NoIdx /\ Displayable(b) # {}) =>
       Cardinality(Holding(b, {"decoded"})) <= MaxReorder
  /\ buf' = IF d = NoIdx THEN b ELSE [b EXCEPT ![d] = "shown"]
  /\ lastShown' = IF d = NoIdx THEN lastShown ELSE ptsOf[d]
  /\ result' = [status |-> status, decoded |-> decoded, disp |-> d, shown |-> d # NoIdx]
  /\ queue' = Tail(queue)
  /\ job' = NoJob
  /\ completed' = TRUE
  /\ UNCHANGED <<coreVars, indexVars, anyDisplayed, failedCommands, ptsOf>>

Vpu_EndFrame(status) ==
  /\ job # NoJob
  /\ status \in Outcomes \cap {"frame", "field"}
  /\ job.second => status = "frame"
  /\ LET b == [buf EXCEPT ![job.frame] = IF status = "frame" THEN "decoded" ELSE "field"]
     IN  \E d \in Displayable(b) \cup {NoIdx} : Complete(b, status, job.frame, d)

(* The driver takes a command and decodes nothing: the packet was skipped, *)
(* no buffer is free, or the codec is gone.                                *)
Vpu_Refuse(status) ==
  /\ queue # <<>> /\ job = NoJob
  /\ Holding(buf, {"field"}) = {}
  /\ status \in Outcomes \cap {"skipped", "buf_full", "exit"}
  /\ status = "buf_full" => Holding(buf, {"free"}) = {}
  /\ \E d \in {f \in Displayable(buf) : ptsOf[f] < Head(queue)} \cup {NoIdx} :
       /\ status = "exit" => d = NoIdx
       /\ Complete(buf, status, NoIdx, d)

------------------------------------------------------------------------------

Application ==
  \/ \E n \in SurfaceChoices : VideoDecoder_Init(n)
  \/ \E n \in OutputChoices : VideoDecoder_DecodeSequenceHeader(n)
  \/ VideoDecoder_Deinit

Call == \E p \in NextPackets : Decode_Call(p)

Decode == Update_Pop \/ Update_Done \/ Clear_Release \/ Decode_Issue \/ Decode_Return

Vpu ==
  \/ \E f \in Frames : Vpu_BeginFrame(f) \/ Vpu_BeginSecondField(f)
  \/ \E status \in Outcomes : Vpu_EndFrame(status) \/ Vpu_Refuse(status)

Next == Application \/ Call \/ Decode \/ Vpu

Spec == Init /\ [][Next]_vars

(* The decoding thread runs on, its caller keeps submitting packets (the   *)
(* loop of dec_test.c:480-540), and the VPU completes what it was given.   *)
FairSpec ==
  Spec /\ WF_vars(Call) /\ WF_vars(Decode) /\ WF_vars(Vpu)

------------------------------------------------------------------------------
(* Properties.                                                             *)

BufferStates == {"none", "free", "writing", "field", "decoded", "shown"}
Statuses == {"none", "frame", "field", "skipped", "buf_full", "exit"}
Idx == Frames \cup {NoIdx}

(* Every variable holds a value of its type; in particular the lists only  *)
(* ever hold frame indices.                                                *)
TypeOK ==
  /\ life \in {"created", "inited", "ready"}
  /\ pc \in {"idle", "update", "clear", "wait"}
  /\ pkt \in Nat /\ uiNumOutputFrames \in Nat /\ uiFrameID \in Nat
  /\ decFrames \in [Frames -> Seq(Nat)]
  /\ iMaxIndexCnt \in Nat
  /\ listDisplay \in Seq(Frames) /\ listClear \in Seq(Frames)
  /\ anyDisplayed \in BOOLEAN
  /\ result \in [status : Statuses, decoded : Idx, disp : Idx, shown : BOOLEAN]
  /\ buf \in [Frames -> BufferStates]
  /\ queue \in Seq(Nat)
  /\ job \in [frame : Idx, second : BOOLEAN]
  /\ completed \in BOOLEAN
  /\ failedCommands \in 0..MaxFailedCommands
  /\ ptsOf \in [Frames -> Nat] /\ lastShown \in Nat

(* The window of surface frames: at most iMaxIndexCnt pictures are held,   *)
(* and there is room for the picture the running decode may return, so     *)
(* that Update never has to take back more than the oldest one.            *)
WindowBound ==
  /\ life = "ready" => iMaxIndexCnt > 0 /\ Len(listDisplay) <= iMaxIndexCnt
  /\ pc \in {"clear", "wait"} => Len(listDisplay) < iMaxIndexCnt

(* "prevent overwritting buffers while the user is using it"               *)
(* (video_decoder.h:276): the VPU is never at work on a picture in the     *)
(* window of surface frames.                                               *)
NoOverwrite == Holding(buf, {"writing", "field"}) \cap Elems(listDisplay) = {}

(* The driver has one command while Decode waits for it and none           *)
(* otherwise, and writes exactly the buffer of that command: no result is  *)
(* left over for a later Decode, and nothing is written between two calls. *)
(* A result Decode would drop (HandleExit) lends no buffer.                *)
CommandProtocol ==
  /\ Len(queue) = (IF pc = "wait" /\ ~completed THEN 1 ELSE 0)
  /\ completed => pc = "wait" /\ (result.status = "exit" => result.disp = NoIdx)
  /\ job # NoJob => queue # <<>> /\ job.frame \in Frames
  /\ \A f \in Frames : buf[f] = "writing" <=> (job # NoJob /\ job.frame = f)
  /\ pc # "idle" => life = "ready"
  /\ life # "ready" => listDisplay = <<>> /\ listClear = <<>>

(* A picture the driver displayed with a result Decode has yet to handle.  *)
Undelivered ==
  IF completed /\ result.disp # NoIdx THEN {result.disp} ELSE {}

NoDup(s) == \A i, j \in 1..Len(s) : s[i] = s[j] => i = j

(* Driver and library agree on who owns which buffer: a buffer the driver  *)
(* has lent out is on exactly one of the two lists, exactly once, or about *)
(* to be pushed.  One that is on none is lost until Deinit; one that is on *)
(* them twice is given back while it is still shown.                       *)
OwnershipAgreement ==
  /\ Holding(buf, {"shown"}) = Elems(listDisplay) \cup Elems(listClear) \cup Undelivered
  /\ NoDup(listDisplay) /\ NoDup(listClear)
  /\ Elems(listDisplay) \cap Elems(listClear) = {}
  /\ Undelivered \cap (Elems(listDisplay) \cup Elems(listClear)) = {}

(* The list of decoded pictures follows the buffers: one record for each   *)
(* picture that is decoded and not yet given back, none for the others.  A *)
(* stale record would describe a later picture in the same buffer.         *)
RecordsFollowBuffers ==
  \A f \in Frames :
    LET unhandled == completed /\ result.status = "frame" /\ result.decoded = f
    IN  Len(decFrames[f]) =
          IF buf[f] \in {"decoded", "shown"} /\ ~unhandled THEN 1 ELSE 0

(* "the decoding order is sorted and outputted in the display order"       *)
(* (video_decoder.h:281): the time stamp returned with a picture is the    *)
(* one of the packet the picture was decoded from, across reordering,      *)
(* field pairs, packets without a picture and a restart of the stream.     *)
OutputCarriesOwnTimestamp == out.idx # NoIdx => out.ts = ptsOf[out.idx]

(* Decode fails to find the picture of a result only for the first one,    *)
(* which get_video_decode_result takes as displayed whatever the driver    *)
(* said (decoder_plugin_video_common.c:657): never once a picture was      *)
(* displayed, so a stream that has started cannot fail.                    *)
GetOutputFailsOnlyBeforeFirst == out.ret = "GetOutputFrame" => lastShown = 0

Surface == INSTANCE SurfaceFrames
             WITH surface <- listDisplay, window <- iMaxIndexCnt,
                  busy <- Holding(buf, {"writing"})

(* The decoder does what the header promises of surface frames.            *)
SurfaceFramesKept == Surface!SFSpec

StreamTaken == \A p \in Pts : p > lastShown => \E f \in Pending : ptsOf[f] = p

(* Holding pictures back for the user never stops the decoder              *)
(* (video_decoder.h:277, "improves pipelining"): once the sequence header  *)
(* is decoded, a stream is taken to its last packet.  It would starve if   *)
(* the window could hold every buffer while it waits to become full.       *)
DecodingNeverStarves == life = "ready" ~> (StreamTaken \/ life # "ready")

==============================================================================
