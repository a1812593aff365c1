-------------------------------- MODULE VdecV3 ---------------------------------
(***************************************************************************)
(* One instance of the V3 decoder library (vdec_v3.c): every call sends    *)
(* one command to the driver, polls for its end and fetches the result     *)
(* (vdec_cmd_process); around it the calls keep the mapped buffers and the *)
(* place in the bitstream buffer where the next packet goes.               *)
(*                                                                         *)
(* External are the driver, which works the commands off in order and may  *)
(* be slow, refuse a command, report a device error or fail to give a      *)
(* result, and the application, which goes on to the next stage only after *)
(* a success, or after an Init that failed, of which VideoDecoder_Init     *)
(* does not tell it, and closes before it releases.                        *)
(* Sizes and offsets are in units of the bitstream buffer.                 *)
(***************************************************************************)
EXTENDS Integers, Sequences

CONSTANTS
  BufferSize,     \* of the bitstream buffer the driver allocates
  Sizes,          \* of the packets
  HeaderOffsets,  \* where the driver wants the data after a sequence header
  Pictures,       \* what a command may put out
  MaxSlow,        \* polls that time out before the VPU ends a command
  MaxReplaced,    \* mappings made over one that is still there
  MaxWaiting,     \* commands the driver holds when another than close is sent
  Faults          \* which of AllFaults there are

None == "none"

AllFaults == {"alloc", "map", "refuse", "pollerr", "result"}

VdecConstants ==
  /\ BufferSize \in Nat \ {0} /\ Sizes \subseteq Nat \ {0}
  /\ HeaderOffsets \subseteq 0..(BufferSize - 1)
  /\ MaxSlow \in Nat /\ MaxReplaced \in Nat /\ MaxWaiting \in Nat \ {0}
  /\ None \notin Pictures
  /\ Faults \subseteq AllFaults

Kinds == {"bitstream", "userdata", "frames"}

VARIABLES
  \* vdec_t
  stage,        \* how far the application has come: "none" without instance
  codec,        \* init_info.input.codec_id
  va,           \* the kinds of buffers whose address the handle holds
  max_bitstream_size, \* and bitstream_buf_size
  next,         \* bitstream_buf_next and bitstream_buf_next_size
  decode_info,  \* the output part of decode_info
  \* vdec_cmd_process
  pc,           \* "idle", "poll", "result", "unfetched", "crashed"
  call,         \* the current or last call: its input, its outcome
  success, retry_cnt, all_retry_cnt,
  \* the driver and the process (external)
  waiting,      \* the commands not ended yet
  answers,      \* the results not fetched yet
  slow,         \* timeouts of the oldest waiting command
  mapped,       \* how many mappings of each kind there are
  replaced,     \* of those, the ones mapped over
  erred         \* a poll or a *_RESULT has failed since the instance was allocated

libvars == <<stage, codec, va, max_bitstream_size, next, decode_info>>
cmdvars == <<success, retry_cnt, all_retry_cnt>>
drvvars == <<waiting, answers, slow>>
mapvars == <<mapped, replaced>>
vars == <<libvars, pc, call, cmdvars, drvvars, mapvars, erred>>

NoNext == [off |-> -1, size |-> 0]
NoOutput == [next |-> NoNext, pic |-> None]
NoAnswer == [fn |-> None, mine |-> FALSE, ret |-> "NOT_YET", out |-> NoOutput]
NoCall == [fn |-> None, size |-> 0, sent |-> 0, off |-> 0, ret |-> "SUCCESS",
           vpu |-> "SUCCESS", answer |-> NoAnswer, pic |-> None]

Init ==
  /\ stage = "none" /\ codec = "avc" /\ va = {} /\ max_bitstream_size = 0 /\ next = NoNext
  /\ decode_info = NoOutput
  /\ pc = "idle" /\ call = NoCall
  /\ success = FALSE /\ retry_cnt = 0 /\ all_retry_cnt = 0
  /\ waiting = <<>> /\ answers = <<>> /\ slow = 0
  /\ mapped = [k \in Kinds |-> 0] /\ replaced = [k \in Kinds |-> 0]
  /\ erred = FALSE

Smaller(a, b) == IF a < b THEN a ELSE b

------------------------------------------------------------------------------
(* The driver.                                                             *)

Results(fn) ==
  CASE fn = "decode" -> {"SUCCESS", "INSUFFICIENT_DATA", "FRAME_NOT_COMPLETE",
                         "CODEC_FINISH", "FAILURE", "CODEC_EXIT"}
    [] fn \in {"drain", "flush"} -> {"SUCCESS", "CODEC_FINISH", "FAILURE"}
    [] OTHER -> {"SUCCESS", "FAILURE"}

NextPlaces(fn) ==
  { [off |-> o, size |-> BufferSize - o] :
      o \in IF fn = "header" THEN HeaderOffsets ELSE 0..(BufferSize - 1) }

Outputs(fn, r) ==
  [next : IF r = "FAILURE" THEN {NoNext} ELSE NextPlaces(fn),
   pic  : IF fn \in {"decode", "drain"} /\ r = "SUCCESS"
          THEN Pictures \cup {None} ELSE {None}]

Vpu_Answer ==
  /\ waiting # <<>>
  /\ LET c == Head(waiting)
     IN \E r \in Results(c.fn) : \E o \in Outputs(c.fn, r) :
          answers' = Append(answers, [fn |-> c.fn, mine |-> c.mine, ret |-> r, out |-> o])
  /\ waiting' = Tail(waiting)
  /\ slow' = 0
  /\ UNCHANGED <<libvars, pc, call, cmdvars, mapvars, erred>>

(* What is under way when another command is sent is no longer the         *)
(* caller's.                                                               *)
Orphan(seq) == [i \in DOMAIN seq |-> [seq[i] EXCEPT !.mine = FALSE]]

(* The ioctl of vdec_cmd_process; that it fails is only logged.            *)
Send(fn, size, sent, off) ==
  /\ pc = "idle"
  /\ fn = "close" \/ Len(waiting) + Len(answers) < MaxWaiting
  /\ pc' = "poll"
  /\ call' = [NoCall EXCEPT !.fn = fn, !.size = size, !.sent = sent, !.off = off]
  /\ success' = FALSE /\ retry_cnt' = 2 /\ all_retry_cnt' = 3
  /\ answers' = Orphan(answers)
  /\ \/ waiting' = Append(Orphan(waiting), [fn |-> fn, mine |-> TRUE])
     \/ "refuse" \in Faults /\ waiting' = Orphan(waiting)
  /\ UNCHANGED <<slow, mapvars, erred>>

------------------------------------------------------------------------------
(* vdec_cmd_process: up to three rounds of up to two polls.                *)

Poll_In ==
  /\ pc = "poll" /\ retry_cnt > 0 /\ answers # <<>>
  /\ success' = TRUE /\ pc' = "result"
  /\ UNCHANGED <<libvars, call, retry_cnt, all_retry_cnt, drvvars, mapvars, erred>>

Poll_Timeout ==
  /\ pc = "poll" /\ retry_cnt > 0 /\ answers = <<>>
  /\ waiting = <<>> \/ slow < MaxSlow
  /\ slow' = IF waiting = <<>> THEN slow ELSE slow + 1
  /\ retry_cnt' = retry_cnt - 1
  /\ UNCHANGED <<libvars, pc, call, success, all_retry_cnt, waiting, answers, mapvars, erred>>

Poll_Err ==
  /\ pc = "poll" /\ retry_cnt > 0 /\ "pollerr" \in Faults
  /\ pc' = "result" /\ erred' = TRUE
  /\ UNCHANGED <<libvars, call, cmdvars, drvvars, mapvars>>

Poll_End ==
  /\ pc = "poll" /\ retry_cnt = 0
  /\ pc' = "result"
  /\ UNCHANGED <<libvars, call, cmdvars, drvvars, mapvars, erred>>

(* The *_RESULT ioctl fails, which is only logged.                         *)
Result_Fails ==
  /\ pc = "result" /\ "result" \in Faults
  /\ pc' = "unfetched" /\ erred' = TRUE
  /\ UNCHANGED <<libvars, call, cmdvars, drvvars, mapvars>>

Polled == pc \in {"result", "unfetched"}

(* It gives the oldest result of that command, if any.                     *)
Fetched == { i \in DOMAIN answers :
               /\ pc = "result" /\ answers[i].fn = call.fn
               /\ \A j \in 1..(i - 1) : answers[j].fn # call.fn }
Answer == IF Fetched = {} THEN NoAnswer ELSE answers[CHOOSE i \in Fetched : TRUE]
Rest ==
  IF Fetched = {} THEN answers
  ELSE LET i == CHOOSE i \in Fetched : TRUE
       IN SubSeq(answers, 1, i - 1) \o SubSeq(answers, i + 1, Len(answers))

(* The arguments keep what an earlier round filled in.                     *)
Filled == IF Answer = NoAnswer THEN call.answer ELSE Answer

(* Where nothing could be fetched the arguments say what they said before: *)
(* in the first round the zero, that is SUCCESS, they were set to.         *)
AnswerRet ==
  IF pc = "unfetched" /\ all_retry_cnt = 3 THEN "SUCCESS" ELSE Answer.ret

(* (ret & 0xf000) != 0: the command was not processed.                     *)
NotProcessed == AnswerRet \in {"NOT_YET", "CODEC_EXIT"}

(* Mutant: one round of polls only. *)
Result_Retry_OneRound ==
  /\ Polled /\ NotProcessed /\ all_retry_cnt > 2
  /\ all_retry_cnt' = 0 /\ retry_cnt' = 0 /\ pc' = "poll"
  /\ answers' = Rest
  /\ call' = [call EXCEPT !.answer = Filled]
  /\ UNCHANGED <<libvars, success, waiting, slow, mapvars, erred>>

Result_Retry ==
  /\ Polled /\ NotProcessed /\ all_retry_cnt > 1
  /\ all_retry_cnt' = all_retry_cnt - 1
  /\ retry_cnt' = 2 /\ pc' = "poll"
  /\ answers' = Rest
  /\ call' = [call EXCEPT !.answer = Filled]
  /\ UNCHANGED <<libvars, success, waiting, slow, mapvars, erred>>

(* What vdec_cmd_process returns.                                          *)
VpuRet == IF success /\ ~NotProcessed THEN AnswerRet ELSE "CODEC_EXIT"

Return(fn, ret, pic) ==
  /\ Polled /\ call.fn = fn
  /\ NotProcessed => all_retry_cnt <= 1
  /\ pc' = "idle"
  /\ call' = [call EXCEPT !.ret = ret, !.vpu = VpuRet, !.answer = Filled, !.pic = pic]
  /\ answers' = Rest
  /\ UNCHANGED <<cmdvars, codec, waiting, slow, erred>>

------------------------------------------------------------------------------
(* The buffers.  mmap may fail, and does when the driver's answer with the *)
(* size was not fetched; a buffer mapped before is mapped over.            *)

MayReplace(kinds) == \A k \in kinds \cap va : replaced[k] < MaxReplaced

Mappable(kinds) ==
  IF pc = "unfetched" THEN {{}} ELSE IF "map" \in Faults THEN SUBSET kinds ELSE {kinds}

Map(kinds) ==
  \E ok \in Mappable(kinds) :
    /\ va' = (va \ kinds) \cup ok
    /\ mapped' = [k \in Kinds |-> IF k \in ok THEN mapped[k] + 1 ELSE mapped[k]]
    /\ replaced' = [k \in Kinds |-> IF k \in kinds \cap va THEN replaced[k] + 1 ELSE replaced[k]]

Unmap ==
  /\ va' = {}
  /\ mapped' = [k \in Kinds |-> IF k \in va THEN mapped[k] - 1 ELSE mapped[k]]
  /\ UNCHANGED replaced

------------------------------------------------------------------------------
(* The calls.                                                              *)

vdec_alloc_instance ==
  /\ stage = "none" /\ pc = "idle"
  /\ \/ stage' = "allocated"
     \/ "alloc" \in Faults /\ UNCHANGED stage
  /\ va' = {} /\ max_bitstream_size' = 0 /\ next' = NoNext
  /\ decode_info' = NoOutput /\ call' = NoCall
  /\ waiting' = <<>> /\ answers' = <<>> /\ slow' = 0 /\ erred' = FALSE
  /\ UNCHANGED <<codec, pc, cmdvars, mapvars>>

vdec_release_instance ==
  /\ stage = "closed" /\ pc = "idle"
  /\ stage' = "none"
  /\ UNCHANGED <<codec, va, max_bitstream_size, next, decode_info>>
  /\ UNCHANGED <<pc, call, cmdvars, drvvars, mapvars, erred>>

vdec_init_Call ==
  /\ stage \in {"allocated", "failed", "closed"}
  /\ MayReplace({"bitstream", "userdata"})
  /\ \E c \in {"avc", "mjpg"} : codec' = c
  /\ Send("init", 0, 0, 0)
  /\ UNCHANGED <<stage, va, max_bitstream_size, next, decode_info>>

(* User data is an option of the caller's.                                 *)
vdec_init_Return ==
  /\ IF VpuRet = "SUCCESS"
     THEN \E kinds \in {{"bitstream"}, {"bitstream", "userdata"}} :
            /\ Map(kinds)
            /\ max_bitstream_size' = IF pc = "unfetched" THEN 0 ELSE BufferSize
            /\ next' = [off |-> 0, size |-> max_bitstream_size']
            /\ LET ret == IF kinds \subseteq va' THEN "SUCCESS" ELSE "FAIL"
               IN /\ Return("init", ret, None)
                  /\ stage' = IF ret = "SUCCESS" THEN "inited" ELSE "failed"
     ELSE /\ Return("init", "FAIL", None)
          /\ stage' = "failed"
          /\ UNCHANGED <<va, max_bitstream_size, next, mapvars>>
  /\ UNCHANGED decode_info

(* A header that is copied to an address the handle does not have.         *)
Crash(s) ==
  /\ pc = "idle" /\ pc' = "crashed"
  /\ call' = [NoCall EXCEPT !.fn = "header", !.size = s]
  /\ UNCHANGED <<cmdvars, drvvars, mapvars, erred>>

(* The header is copied before the command is sent, also where the Init    *)
(* before it failed; without a size of the buffer nothing is copied.       *)
vdec_seq_header_Call ==
  /\ stage \in {"failed", "inited", "ready"}
  /\ MayReplace({"frames"})
  /\ \E s \in Sizes :
       IF max_bitstream_size = 0 \/ "bitstream" \in va
       THEN Send("header", s, Smaller(s, max_bitstream_size), 0)
       ELSE Crash(s)
  /\ UNCHANGED libvars

(* The process is started anew: its end has unmapped and closed all.       *)
Restart ==
  /\ pc = "crashed"
  /\ stage' = "none" /\ codec' = "avc" /\ va' = {} /\ max_bitstream_size' = 0
  /\ next' = NoNext /\ decode_info' = NoOutput
  /\ pc' = "idle" /\ call' = NoCall
  /\ success' = FALSE /\ retry_cnt' = 0 /\ all_retry_cnt' = 0
  /\ waiting' = <<>> /\ answers' = <<>> /\ slow' = 0
  /\ mapped' = [k \in Kinds |-> 0] /\ replaced' = [k \in Kinds |-> 0]
  /\ erred' = FALSE

vdec_seq_header_Return ==
  /\ IF VpuRet = "SUCCESS"
     THEN /\ Map({"frames"})
          /\ next' = [off |-> Filled.out.next.off, size |-> max_bitstream_size]
          /\ LET ret == IF "frames" \in va' THEN "SUCCESS" ELSE "FAIL"
             IN /\ Return("header", ret, None)
                /\ stage' = IF ret = "SUCCESS" THEN "ready"
                            ELSE IF stage = "failed" THEN "failed" ELSE "inited"
     ELSE /\ Return("header", "FAIL", None)
          /\ UNCHANGED <<stage, va, next, mapvars>>
  /\ UNCHANGED <<max_bitstream_size, decode_info>>

(* Mutant: one more than what is left is taken to fit. *)
SentSize_OffByOne(s) ==
  LET stream_size == Smaller(s, max_bitstream_size)
  IN IF stream_size > next.size + 1 THEN 0 ELSE stream_size

(* A packet that does not fit in what is left is not written, and the      *)
(* command is sent without data.                                           *)
SentSize(s) ==
  LET stream_size == Smaller(s, max_bitstream_size)
  IN IF stream_size > next.size THEN 0 ELSE stream_size

(* The picture the caller gets: the index and address of the output.       *)
vdec_fill_output(out) == out.pic

(* What vd_res_decode makes of it: only a success carries a picture on to  *)
(* VideoDecoder_Decode, only a failure stops it.                           *)
FrameOut(ret, pic) == IF ret = "SUCCESS" THEN pic ELSE None

vdec_decode_Call ==
  /\ stage = "ready"
  /\ decode_info' = NoOutput
  /\ \E s \in Sizes : Send("decode", s, SentSize(s), next.off)
  /\ UNCHANGED <<stage, codec, va, max_bitstream_size, next>>

DecodeRet ==
  CASE VpuRet \in {"INSUFFICIENT_DATA", "FRAME_NOT_COMPLETE"} -> "NEED_MORE_DATA"
    [] VpuRet = "CODEC_FINISH" -> "CODEC_FINISH"
    [] VpuRet = "SUCCESS" -> IF call.sent = 0 THEN "BUFFER_NOT_CONSUMED" ELSE "SUCCESS"
    [] OTHER -> "FAIL"

(* Place and output are taken over whatever the command returned.          *)
vdec_decode_Return ==
  /\ Return("decode", DecodeRet, FrameOut(DecodeRet, vdec_fill_output(Filled.out)))
  /\ decode_info' = Filled.out
  /\ next' = Filled.out.next
  /\ UNCHANGED <<stage, va, max_bitstream_size, mapvars>>

vdec_buf_clear_Call ==
  /\ stage = "ready"
  /\ \/ codec # "mjpg" /\ Send("clear", 0, 0, 0)
     \/ /\ codec = "mjpg" /\ pc = "idle"
        /\ call' = [NoCall EXCEPT !.fn = "clear"]
        /\ UNCHANGED <<pc, cmdvars, drvvars, mapvars, erred>>
  /\ UNCHANGED libvars

vdec_drain_Call ==
  stage = "ready" /\ Send("drain", 0, 0, 0) /\ UNCHANGED libvars

(* The code compares ret, not vpu_ret, with CODEC_FINISH; what it puts out *)
(* is what is left in decode_info.                                         *)
vdec_drain_Return ==
  /\ IF VpuRet = "SUCCESS" THEN Return("drain", "SUCCESS", vdec_fill_output(decode_info))
     ELSE Return("drain", "FAIL", None)
  /\ UNCHANGED <<stage, va, max_bitstream_size, next, decode_info, mapvars>>

vdec_flush_Call ==
  stage = "ready" /\ Send("flush", 0, 0, 0) /\ UNCHANGED libvars

vdec_flush_Return ==
  /\ Return("flush", IF VpuRet \in {"SUCCESS", "CODEC_FINISH"} THEN "SUCCESS" ELSE "FAIL", None)
  /\ UNCHANGED <<stage, va, max_bitstream_size, next, decode_info, mapvars>>

vdec_buf_clear_Return ==
  /\ Return("clear", IF VpuRet = "SUCCESS" THEN "SUCCESS" ELSE "FAIL", None)
  /\ UNCHANGED <<stage, va, max_bitstream_size, next, decode_info, mapvars>>

vdec_close_Call ==
  /\ stage \in {"allocated", "failed", "inited", "ready"}
  /\ Send("close", 0, 0, 0)
  /\ UNCHANGED libvars

(* The buffers go whether or not the driver closed.                        *)
vdec_close_Return ==
  /\ Return("close", IF VpuRet = "SUCCESS" THEN "SUCCESS" ELSE "FAIL", None)
  /\ Unmap
  /\ stage' = "closed"
  /\ UNCHANGED <<max_bitstream_size, next, decode_info>>

------------------------------------------------------------------------------
Call == \/ vdec_init_Call \/ vdec_seq_header_Call \/ vdec_decode_Call
        \/ vdec_buf_clear_Call \/ vdec_drain_Call \/ vdec_flush_Call
        \/ vdec_close_Call

Process == \/ Poll_In \/ Poll_Timeout \/ Poll_End \/ Result_Retry
           \/ vdec_init_Return \/ vdec_seq_header_Return \/ vdec_decode_Return
           \/ vdec_drain_Return \/ vdec_flush_Return \/ vdec_buf_clear_Return
           \/ vdec_close_Return

Next == \/ vdec_alloc_instance \/ vdec_release_instance
        \/ Call \/ Process \/ Poll_Err \/ Result_Fails \/ Vpu_Answer \/ Restart

Spec == Init /\ [][Next]_vars

(* The thread of the caller runs; the VPU need not answer, nor need a      *)
(* device error end a poll.                                                *)
FairSpec == Spec /\ WF_vars(Process)

------------------------------------------------------------------------------
(* Properties.                                                             *)

Answered == pc = "idle" /\ call.answer # NoAnswer

(* Every variable holds a value of its type.                               *)
V3TypeOK ==
  /\ stage \in {"none", "allocated", "failed", "inited", "ready", "closed"}
  /\ va \subseteq Kinds /\ max_bitstream_size \in {0, BufferSize}
  /\ next.size \in 0..BufferSize /\ next.off \in -1..(BufferSize - 1)
  /\ pc \in {"idle", "poll", "result", "unfetched", "crashed"}
  /\ retry_cnt \in 0..2 /\ all_retry_cnt \in 0..3
  /\ Len(waiting) + Len(answers) <= MaxWaiting + 1
  /\ \A k \in Kinds : mapped[k] \in Nat

(* A call never takes the result of an earlier command for its own: as     *)
(* long as the VPU ends a command within the polls vdec_cmd_process is     *)
(* ready to make and no poll and no *_RESULT fails, nothing is given up    *)
(* that is answered later.                                                 *)
AnswerIsOwn == Answered /\ ~erred => call.answer.mine

(* vdec_decode writes a packet only into the mapped bitstream buffer,      *)
(* whatever place and size earlier commands, failed ones too, left.        *)
WritesInside ==
  call.fn = "decode" /\ call.sent > 0 /\ pc # "idle" =>
    /\ "bitstream" \in va
    /\ call.off >= 0 /\ call.off + call.sent <= BufferSize

(* A packet vdec_decode reports as decoded went to the VPU, whole unless   *)
(* it is larger than the buffer; one it reports as not consumed did not.   *)
ConsumedWasSent ==
  pc = "idle" /\ call.fn = "decode" =>
    /\ call.ret = "SUCCESS" => call.sent = Smaller(call.size, BufferSize)
    /\ call.ret = "BUFFER_NOT_CONSUMED" => call.sent = 0

(* Closing unmaps every buffer the handle still knows, after failures too: *)
(* all that stays mapped was mapped over by a repeated header or Init.     *)
MappingsAccounted ==
  \A k \in Kinds : mapped[k] = replaced[k] + (IF k \in va THEN 1 ELSE 0)

(* A picture vdec_decode gives out is that of the answer this call took,   *)
(* never what an earlier call left in the handle, and the packet of the    *)
(* call went to the VPU.                                                   *)
PictureOfThisPacket ==
  pc = "idle" /\ call.fn = "decode" /\ call.pic # None =>
    Answered /\ call.answer.out.pic = call.pic /\ call.sent > 0

(* What a call of the library answers is its own: the command's answer,    *)
(* the picture of the packet, no more consumed than was sent.              *)
V3AnswerIsOwn == AnswerIsOwn /\ PictureOfThisPacket /\ ConsumedWasSent

(* A header is copied to no buffer at all only behind an Init that failed, *)
(* of which the library told its caller: an instance that was initialised  *)
(* keeps its bitstream buffer whatever fails after it.                     *)
CrashesOnlyUninited == pc = "crashed" => stage = "failed"

(* The library writes inside its buffers, and its mappings follow its      *)
(* instance.                                                               *)
V3AreasKept == WritesInside /\ MappingsAccounted /\ CrashesOnlyUninited

(* Every call comes back, also when the VPU never answers.                 *)
CallReturns == pc \notin {"idle", "crashed"} ~> pc = "idle"

==============================================================================
