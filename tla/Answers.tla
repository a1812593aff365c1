--------------------------------- MODULE Answers ---------------------------------
(***************************************************************************)
(* A decoder on the V3 library (VideoDecoderV3), and beside it the other   *)
(* components that make something of an answer - a command's, a packet's,  *)
(* a clock's - checked in one run.  As in Failures a behaviour is one of   *)
(* a single part, which `part' names; VideoDecoderV3, whose properties     *)
(* this run checks as they are, waits in its first state meanwhile, and    *)
(* the variables of the others are at "-".  The parts that Answers_proofs  *)
(* has theorems about take their constants from here, the others are       *)
(* fixed.                                                                  *)
(***************************************************************************)
EXTENDS VideoDecoderV3

CONSTANTS
  (* CommandLoops *)
  LoopKinds, MaxRounds, MaxTries, MaxOutstanding, LoopFaults,
  (* FrameSkip *)
  FramePlugins, FieldPlugins, SkipCodecs, Gops, MaxFull

VARIABLES
  part,
  (* CommandLoops *)
  loop, l_pc, rounds, tries, l_success, event, brief, given_up, general, param, ret,
  outstanding, gone, announced, fetched, unprocessed, missed,
  (* VdecV3 *)
  stage, d_codec, va, max_bitstream_size, next, decode_info, d_pc, call, success, retry_cnt,
  all_retry_cnt, waiting, answers, slow, mapped, replaced, erred,
  (* VideoDecoder *)
  vd_life, vd_pc, vd_pkt, vd_outFrames, uiFrameID, clk, vd_decFrames, vd_out, vd_maxIndexCnt,
  vd_listDisplay, listClear, anyDisplayed, result, vd_buf, queue, vd_job, completed, failedCommands,
  vd_ptsOf, vd_lastShown,
  (* VideoClockQueue *)
  stream, q_clk, state, overflown,
  (* FrameSkip *)
  plugin, codec, gop, fields, skip, pos, second, fulls, refs, broken, lost

loopVars == <<loop, l_pc, rounds, tries, l_success, event, brief, given_up, general, param,
              ret, outstanding, gone, announced, fetched, unprocessed, missed>>
vdecVars == <<stage, d_codec, va, max_bitstream_size, next, decode_info, d_pc, call, success,
              retry_cnt, all_retry_cnt, waiting, answers, slow, mapped, replaced, erred>>
legacyVars == <<vd_life, vd_pc, vd_pkt, vd_outFrames, uiFrameID, clk, vd_decFrames, vd_out,
                vd_maxIndexCnt, vd_listDisplay, listClear, anyDisplayed, result, vd_buf, queue,
                vd_job, completed, failedCommands, vd_ptsOf, vd_lastShown>>
clockVars == <<stream, q_clk, state, overflown>>
skipVars == <<plugin, codec, gop, fields, skip, pos, second, fulls, refs, broken, lost>>

NoLoops ==
  /\ loop = "-" /\ l_pc = "-" /\ rounds = "-" /\ tries = "-" /\ l_success = "-"
  /\ event = "-" /\ brief = "-" /\ given_up = "-" /\ general = "-" /\ param = "-"
  /\ ret = "-" /\ outstanding = "-" /\ gone = "-" /\ announced = "-"
  /\ fetched = "-" /\ unprocessed = "-" /\ missed = "-"
NoVdec ==
  /\ stage = "-" /\ d_codec = "-" /\ va = "-" /\ max_bitstream_size = "-" /\ next = "-"
  /\ decode_info = "-" /\ d_pc = "-" /\ call = "-" /\ success = "-" /\ retry_cnt = "-"
  /\ all_retry_cnt = "-"
  /\ waiting = "-" /\ answers = "-" /\ slow = "-" /\ mapped = "-" /\ replaced = "-" /\ erred = "-"
NoLegacy ==
  /\ vd_life = "-" /\ vd_pc = "-" /\ vd_pkt = "-" /\ vd_outFrames = "-" /\ uiFrameID = "-"
  /\ clk = "-" /\ vd_decFrames = "-" /\ vd_out = "-" /\ vd_maxIndexCnt = "-"
  /\ vd_listDisplay = "-" /\ listClear = "-" /\ anyDisplayed = "-" /\ result = "-"
  /\ vd_buf = "-" /\ queue = "-" /\ vd_job = "-" /\ completed = "-" /\ failedCommands = "-"
  /\ vd_ptsOf = "-" /\ vd_lastShown = "-"
NoClock == stream = "-" /\ q_clk = "-" /\ state = "-" /\ overflown = "-"
NoSkip ==
  /\ plugin = "-" /\ codec = "-" /\ gop = "-" /\ fields = "-" /\ skip = "-" /\ pos = "-"
  /\ second = "-" /\ fulls = "-" /\ refs = "-" /\ broken = "-" /\ lost = "-"
-----------------------------------------------------------------------------
(* The other parts.                                                        *)

(* The same decoder without failures, whose stream has to go on.           *)
V3Stream == INSTANCE VideoDecoderV3 WITH
  SurfaceChoices <- {1, 2}, Outcomes <- {"frame", "buf_full"}, MaxPts <- 3

Loops == INSTANCE CommandLoops WITH
  Loops <- LoopKinds, Faults <- LoopFaults, pc <- l_pc, success <- l_success

(* A VPU that takes any time, for the calls that have to come back.        *)
Returns == INSTANCE VdecV3 WITH
  BufferSize <- 1, Sizes <- {1}, HeaderOffsets <- {0}, Pictures <- {"p1"}, MaxSlow <- 12,
  MaxReplaced <- 0, MaxWaiting <- 1, Faults <- {"pollerr"},
  codec <- d_codec, pc <- d_pc

(* The legacy decoder, with a pool of the window and the reordering or     *)
(* more, and none of the answers that end a stream.                        *)
Legacy == INSTANCE VideoDecoder WITH
  SurfaceChoices <- {0, 1, 2}, OutputChoices <- {0, 1}, MinFrameBufferCount <- 2,
  DEFAULT_FRAME_BUF_CNT <- 1, VD_DEFAULT_OUTFRAMES <- 2, MaxFrameBufferCnt <- 4,
  MaxReorder <- 1, Outcomes <- {"frame", "field", "buf_full"}, MaxPts <- 3,
  MaxFailedCommands <- 0, MAX_CLOCK_33BIT <- 2000, CLOCK_WRAP_DETECT_TERM <- 2,
  MAX_VIDEO_CLOCK_COUNT <- 20, INT_MODULUS <- 90,
  life <- vd_life, pc <- vd_pc, pkt <- vd_pkt, uiNumOutputFrames <- vd_outFrames,
  decFrames <- vd_decFrames, out <- vd_out, iMaxIndexCnt <- vd_maxIndexCnt,
  listDisplay <- vd_listDisplay, buf <- vd_buf, job <- vd_job, ptsOf <- vd_ptsOf,
  lastShown <- vd_lastShown

(* The scaled clock wraps at 2000 with regions of 20 next to the wrap;     *)
(* 2000 % 90 keeps the ratio of the real wrap to 2^32, so truncated        *)
(* differences keep their sign.  Reordered streams inside one region and   *)
(* across the borders from A to B and from B to C, and streams in display  *)
(* order across the wrap; with fewer pictures pending than clocks fit, and *)
(* with one more.                                                          *)
SafeStreams ==
  { [start |-> s, reorder |-> 2, pending |-> n] : s \in {0, 17, 1972}, n \in {3, 4} }
    \cup { [start |-> 1991, reorder |-> 0, pending |-> n] : n \in {3, 4} }

Queue == INSTANCE VideoClockQueue WITH
  Streams <- SafeStreams, Pictures <- 6, Step <- 3, MAX_CLOCK_33BIT <- 2000,
  CLOCK_WRAP_DETECT_TERM <- 20, MAX_VIDEO_CLOCK_COUNT <- 4, INT_MODULUS <- 90,
  clk <- q_clk

Skip == INSTANCE FrameSkip WITH Codecs <- SkipCodecs

ASSUME V3Constants /\ V3Stream!V3Constants
ASSUME LoopAssumption == Loops!LoopConstants
ASSUME SkipAssumption == Skip!SkipConstants
ASSUME Returns!VdecConstants
ASSUME Queue!StreamConstants

allVars == <<part, vars, loopVars, vdecVars, legacyVars, clockVars, skipVars>>

AnswersInit ==
  \/ /\ part \in {"v3", "v3_stream"} /\ Init
     /\ NoLoops /\ NoVdec /\ NoLegacy /\ NoClock /\ NoSkip
  \/ part = "loops" /\ Loops!Init /\ Init /\ NoVdec /\ NoLegacy /\ NoClock /\ NoSkip
  \/ part = "returns" /\ Returns!Init /\ Init /\ NoLoops /\ NoLegacy /\ NoClock /\ NoSkip
  \/ part = "legacy" /\ Legacy!Init /\ Init /\ NoLoops /\ NoVdec /\ NoClock /\ NoSkip
  \/ part = "clock" /\ Queue!QueueInit /\ Init /\ NoLoops /\ NoVdec /\ NoLegacy /\ NoSkip
  \/ part = "skip" /\ Skip!Init /\ Init /\ NoLoops /\ NoVdec /\ NoLegacy /\ NoClock

InV3(name) ==
  part = name /\ UNCHANGED <<part, loopVars, vdecVars, legacyVars, clockVars, skipVars>>
InLoops == part = "loops" /\ UNCHANGED <<part, vars, vdecVars, legacyVars, clockVars, skipVars>>
InReturns ==
  part = "returns" /\ UNCHANGED <<part, vars, loopVars, legacyVars, clockVars, skipVars>>
InLegacy == part = "legacy" /\ UNCHANGED <<part, vars, loopVars, vdecVars, clockVars, skipVars>>
InClock == part = "clock" /\ UNCHANGED <<part, vars, loopVars, vdecVars, legacyVars, skipVars>>
InSkip == part = "skip" /\ UNCHANGED <<part, vars, loopVars, vdecVars, legacyVars, clockVars>>

(* A stream of the clock queue ends with its last picture, or where one    *)
(* more picture would have to wait than the stream allows.                 *)
ClockEnds == InClock /\ ~ENABLED Queue!QueueNext /\ UNCHANGED clockVars

AnswersNext ==
  \/ InV3("v3") /\ Next
  \/ InV3("v3_stream") /\ V3Stream!Next
  \/ InLoops /\ Loops!Next
  \/ InReturns /\ Returns!Next
  \/ InLegacy /\ Legacy!Next
  \/ InClock /\ Queue!QueueNext
  \/ ClockEnds
  \/ InSkip /\ Skip!Next

(* What each part's own specification is fair to; a behaviour keeps to its *)
(* part, so that one formula says it of several: the caller's thread goes  *)
(* on, a Decode returns, the VPU completes.                                *)
Callers ==
  \/ InV3("v3_stream") /\ V3Stream!Call
  \/ InLegacy /\ Legacy!Call
  \/ InLoops /\ Loops!Loop
  \/ InReturns /\ Returns!Process
  \/ InSkip /\ (Skip!DriverSkips \/ Skip!DriverDecodes)
Decodes ==
  \/ InV3("v3_stream") /\ V3Stream!Decode_Return
  \/ InLegacy /\ Legacy!Decode
Vpus ==
  \/ InV3("v3_stream") /\ V3Stream!Vpu
  \/ InLegacy /\ Legacy!Vpu

AnswersSpec ==
  /\ AnswersInit /\ [][AnswersNext]_allVars
  /\ WF_allVars(Callers) /\ WF_allVars(Decodes) /\ WF_allVars(Vpus)
-----------------------------------------------------------------------------
(* Properties of the other parts; the comment of the conjunct in the       *)
(* part's module says what is meant in full.                               *)

(* Every variable of the part at work has its type.                        *)
AnswersTypeOK ==
  /\ V3TypeOK
  /\ part = "loops" => Loops!LoopTypeOK
  /\ part = "returns" => Returns!V3TypeOK
  /\ part = "legacy" => Legacy!TypeOK
  /\ part = "clock" => Queue!QueueTypeOK
  /\ part = "skip" => Skip!SkipTypeOK

(* A command loop that was told of an answer returns the one it fetched    *)
(* last, never one that a further fetch made up and never "not processed"; *)
(* and what it fetches is the answer to an older command only after a call *)
(* that came back without its own.                                         *)
AnswersMatch ==
  part = "loops" =>
    /\ Loops!AnnouncedAnswerReturned
    /\ Loops!OlderOnlyAfterMissed
    /\ Loops!InvalidNeverReturned

Calling ==
  \/ part = "loops" /\ l_pc # "idle"
  \/ part = "returns" /\ d_pc \notin {"idle", "crashed"}

Returned ==
  \/ part = "loops" /\ (l_pc = "idle" \/ gone)
  \/ part = "returns" /\ d_pc = "idle"

(* Every call of a command loop comes back, however slow the driver is and *)
(* whatever it refuses or reports: the polls and the rounds are counted.   *)
(* A device that hangs up is polled for ever and excepted, and so is a     *)
(* header behind a failed Init that ends the process (VdecV3's Crash).     *)
CallsReturn == Calling ~> Returned

Ready ==
  \/ part = "v3_stream" /\ life = "ready"
  \/ part = "legacy" /\ vd_life = "ready"

AllTaken ==
  \/ part = "v3_stream" /\ (life = "ready" => \A p \in V3Stream!Pts : V3Stream!Taken(p))
  \/ part = "legacy" /\ (vd_life = "ready" => Legacy!StreamTaken)

(* A stream goes on: keeping surface frames never stops a decoder, legacy  *)
(* or V3, before the last packet (video_decoder.h:277, "improves           *)
(* pipelining"), and in the end no picture is skipped any more.            *)
StreamGoesOn ==
  /\ Ready ~> AllTaken
  /\ <>[](part = "skip" => Skip!Request = "disable")

(* Wherever a stream is entered, no picture is decoded without those it    *)
(* refers to, and none that has them is skipped.                           *)
SkipKeepsReferences == part = "skip" => Skip!NoneBroken /\ Skip!NoneLost

(* The clock queue holds the clocks of the pictures that wait, in the      *)
(* order of their display, so that each picture gets its own.              *)
ClocksInOrder == part = "clock" => Queue!ClocksFollowDisplayOrder

================================================================================
