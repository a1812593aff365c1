----------------------------- MODULE VdecV3_proofs -----------------------------
(***************************************************************************)
(* Proofs about VdecV3, for a bitstream buffer of any size and packets,    *)
(* pictures and drivers of any kind: where a packet is written, what stays *)
(* mapped, and, as long as the VPU ends a command within the polls of a    *)
(* call, that an answer is the command's own.                              *)
(***************************************************************************)
EXTENDS VdecV3, SequenceTheorems, TLAPS

------------------------------------------------------------------------------
(* The types in full.                                                      *)

Fns == {"init", "header", "decode", "clear", "drain", "flush", "close"}
Rets == {"SUCCESS", "INSUFFICIENT_DATA", "FRAME_NOT_COMPLETE", "CODEC_FINISH", "FAILURE",
         "CODEC_EXIT", "NOT_YET"}
CallRets == {"SUCCESS", "NEED_MORE_DATA", "BUFFER_NOT_CONSUMED", "CODEC_FINISH", "FAIL"}

(* What a driver may say of the place for the next packet.                 *)
Places == {NoNext} \cup { [off |-> o, size |-> BufferSize - o] : o \in 0..(BufferSize - 1) }
OutputSet == [next : Places, pic : Pictures \cup {None}]
CommandSet == [fn : Fns, mine : BOOLEAN]
AnswerSet == [fn : Fns, mine : BOOLEAN, ret : Rets, out : OutputSet]
CallSet == [fn : Fns \cup {None}, size : Nat, sent : Nat, off : Int, ret : CallRets,
            vpu : Rets, answer : AnswerSet \cup {NoAnswer}, pic : Pictures \cup {None}]

Stages == {"none", "allocated", "failed", "inited", "ready", "closed"}

DataOK ==
  /\ stage \in Stages
  /\ va \subseteq Kinds /\ max_bitstream_size \in {0, BufferSize}
  /\ next \in [off : -1..(BufferSize - 1), size : 0..BufferSize]
  /\ decode_info \in OutputSet
  /\ pc \in {"idle", "poll", "result", "unfetched", "crashed"}
  /\ call \in CallSet
  /\ success \in BOOLEAN /\ retry_cnt \in 0..2 /\ all_retry_cnt \in 0..3
  /\ waiting \in Seq(CommandSet) /\ answers \in Seq(AnswerSet) /\ slow \in Nat
  /\ mapped \in [Kinds -> Int] /\ replaced \in [Kinds -> Nat]

(* The stage an application is in while a call is under way.               *)
StageOf(fn) ==
  CASE fn = "init" -> {"allocated", "failed", "closed"}
    [] fn = "header" -> {"failed", "inited", "ready"}
    [] fn = "close" -> {"allocated", "failed", "inited", "ready"}
    [] OTHER -> {"ready"}

(* The driver holds MaxWaiting commands, and a close on top of them.       *)
Held == Len(waiting) + Len(answers)

CallInv ==
  /\ pc # "idle" => call.fn \in Fns /\ stage \in StageOf(call.fn)
  /\ Held <= MaxWaiting + 1
  /\ \/ Held <= MaxWaiting
     \/ stage \in {"closed", "none"} /\ pc = "idle"
     \/ call.fn = "close" /\ pc # "idle"

(* The handle has the address of the bitstream buffer, or no size of it.   *)
Addressed == max_bitstream_size = 0 \/ "bitstream" \in va

(* What is in the handle without an instance, and with one in use.         *)
BufferInv ==
  /\ stage \in {"none", "closed"} => va = {}
  /\ stage \in {"inited", "ready"} => Addressed
  /\ call.fn = "header" /\ pc \in {"poll", "result", "unfetched"} => Addressed
  /\ CrashesOnlyUninited
  /\ MappingsAccounted

VdecInv == DataOK /\ CallInv /\ BufferInv

(* A place that leaves room for as much as its size says, or has none.     *)
Fits(place) == place.size = 0 \/ (place.off >= 0 /\ place.off + place.size <= BufferSize)

PlaceInv ==
  /\ stage = "ready" => Fits(next)
  /\ \A i \in DOMAIN answers :
       answers[i].fn = "header" /\ answers[i].ret = "SUCCESS"
         => answers[i].out.next.off \in HeaderOffsets
  /\ call.fn = "decode" /\ pc # "idle" /\ call.sent > 0 =>
       /\ call.off >= 0 /\ call.off + call.sent <= BufferSize
       /\ max_bitstream_size > 0

(* The polls that are left of a call.                                      *)
PollsLeft == retry_cnt + 2 * (all_retry_cnt - 1)

(* One command at a time, answered within its call: while it waits, every  *)
(* poll of the call has been counted against the VPU.                      *)
Timely ==
  /\ Held <= 1 /\ slow <= MaxSlow
  /\ pc \in {"idle", "crashed"} => Held = 0
  /\ pc \notin {"idle", "crashed"} => all_retry_cnt > 0
  /\ waiting = <<>> => slow = 0
  /\ \A i \in DOMAIN waiting :
       /\ waiting[i].fn = call.fn /\ waiting[i].mine
       /\ slow = 6 - PollsLeft
       /\ pc = "result" => retry_cnt = 0
  /\ \A i \in DOMAIN answers : answers[i].fn = call.fn /\ answers[i].mine
  /\ call.answer # NoAnswer => call.answer.mine

(* A poll that reports an error leaves its command with the VPU, a failing *)
(* *_RESULT its result with the driver.                                    *)
TimelyInv == (~erred => Timely) /\ (pc = "unfetched" => erred)

(* What a decode returned follows what was sent, and its picture what was  *)
(* answered.                                                               *)
ConsumedInv ==
  call.fn = "decode" =>
    /\ call.sent \in {0, Smaller(call.size, BufferSize)}
    /\ pc = "idle" =>
         /\ call.ret = "SUCCESS" => call.sent > 0
         /\ call.ret = "BUFFER_NOT_CONSUMED" => call.sent = 0
         /\ call.pic # None =>
              call.answer # NoAnswer /\ call.answer.out.pic = call.pic /\ call.sent > 0

------------------------------------------------------------------------------
(* Queues of the driver.                                                   *)

LEMMA ConstantTypes ==
  ASSUME VdecConstants
  PROVE  /\ BufferSize \in Nat \ {0} /\ MaxSlow \in Nat /\ MaxReplaced \in Nat
         /\ MaxWaiting \in Nat \ {0} /\ Sizes \subseteq Nat \ {0}
         /\ HeaderOffsets \subseteq 0..(BufferSize - 1) /\ None \notin Pictures
BY DEF VdecConstants

LEMMA NoPlace ==
  ASSUME VdecConstants
  PROVE  /\ NoNext \in Places /\ NoNext \in [off : -1..(BufferSize - 1), size : 0..BufferSize]
         /\ NoOutput \in OutputSet
         /\ Places \subseteq [off : -1..(BufferSize - 1), size : 0..BufferSize]
<1>1. BufferSize \in Nat \ {0}
  BY ConstantTypes
<1>2. QED
  BY <1>1 DEF NoNext, Places, NoOutput, OutputSet

LEMMA NoAnswerApart == NoAnswer \notin AnswerSet
BY DEF NoAnswer, AnswerSet, Fns, None

LEMMA NoCallType == NoCall \in CallSet
BY DEF NoCall, CallSet, CallRets, Rets

(* What becomes of a queue whose commands are no longer the caller's.      *)
LEMMA OrphanCommands ==
  ASSUME NEW q \in Seq(CommandSet)
  PROVE  Orphan(q) \in Seq(CommandSet) /\ Len(Orphan(q)) = Len(q)
<1>1. Len(q) \in Nat /\ DOMAIN q = 1..Len(q) /\ \A i \in 1..Len(q) : q[i] \in CommandSet
  BY LenProperties, ElementOfSeq
<1>2. Orphan(q) \in [1..Len(q) -> CommandSet]
  BY <1>1 DEF Orphan, CommandSet
<1>3. QED
  BY <1>1, <1>2, SeqDef

LEMMA OrphanAnswers ==
  ASSUME NEW q \in Seq(AnswerSet)
  PROVE  /\ Orphan(q) \in Seq(AnswerSet) /\ Len(Orphan(q)) = Len(q)
         /\ \A i \in DOMAIN q : /\ Orphan(q)[i].fn = q[i].fn /\ Orphan(q)[i].ret = q[i].ret
                                /\ Orphan(q)[i].out = q[i].out
<1>1. Len(q) \in Nat /\ DOMAIN q = 1..Len(q) /\ \A i \in 1..Len(q) : q[i] \in AnswerSet
  BY LenProperties, ElementOfSeq
<1>2. Orphan(q) \in [1..Len(q) -> AnswerSet]
  BY <1>1 DEF Orphan, AnswerSet
<1>3. Orphan(q) \in Seq(AnswerSet) /\ Len(Orphan(q)) = Len(q)
  BY <1>1, <1>2, SeqDef
<1>4. ASSUME NEW i \in DOMAIN q
      PROVE  /\ Orphan(q)[i].fn = q[i].fn /\ Orphan(q)[i].ret = q[i].ret
             /\ Orphan(q)[i].out = q[i].out
  BY <1>1, <1>4 DEF Orphan, AnswerSet
<1>5. QED
  BY <1>3, <1>4

(* The *_RESULT ioctl fetches a result of the call's command, or nothing.  *)
LEMMA AnswerFetched ==
  ASSUME DataOK, Fetched # {}
  PROVE  \E i \in DOMAIN answers :
           /\ Answer = answers[i] /\ answers[i].fn = call.fn /\ Answer \in AnswerSet
           /\ Rest \in Seq(AnswerSet) /\ Len(Rest) = Len(answers) - 1
           /\ \A j \in DOMAIN Rest : \E k \in DOMAIN answers : Rest[j] = answers[k]
<1> DEFINE i == CHOOSE f \in Fetched : TRUE
           before == SubSeq(answers, 1, i - 1)
           after == SubSeq(answers, i + 1, Len(answers))
<1>1. i \in Fetched
  OBVIOUS
<1>2. i \in DOMAIN answers /\ answers[i].fn = call.fn
  BY <1>1 DEF Fetched
<1>3. /\ Len(answers) \in Nat /\ DOMAIN answers = 1..Len(answers)
      /\ \A k \in 1..Len(answers) : answers[k] \in AnswerSet
  BY LenProperties, ElementOfSeq DEF DataOK
<1>4. i \in 1..Len(answers) /\ answers[i] \in AnswerSet
  BY <1>2, <1>3
<1>5. /\ before \in Seq(AnswerSet) /\ Len(before) = i - 1
      /\ \A k \in 1..(i - 1) : before[k] = answers[k]
  <2>1. \A k \in 1..(i - 1) : answers[k] \in AnswerSet
    BY <1>3, <1>4
  <2>2. 1 \in Int /\ i - 1 \in Int
    BY <1>4
  <2> HIDE DEF i
  <2>3. /\ before \in Seq(AnswerSet)
        /\ Len(before) = IF 1 <= i - 1 THEN (i - 1) - 1 + 1 ELSE 0
        /\ \A k \in 1..((i - 1) - 1 + 1) : before[k] = answers[1 + k - 1]
    BY <2>1, <2>2, SubSeqProperties
  <2>4. QED
    BY <1>4, <2>3
<1>6. /\ after \in Seq(AnswerSet) /\ Len(after) = Len(answers) - i
      /\ \A k \in 1..(Len(answers) - i) : after[k] = answers[i + k]
  <2>1. \A k \in (i + 1)..Len(answers) : answers[k] \in AnswerSet
    BY <1>3, <1>4
  <2>2. i + 1 \in Int /\ Len(answers) \in Int
    BY <1>3, <1>4
  <2> HIDE DEF i
  <2>3. /\ after \in Seq(AnswerSet)
        /\ Len(after) = IF i + 1 <= Len(answers) THEN Len(answers) - (i + 1) + 1 ELSE 0
        /\ \A k \in 1..(Len(answers) - (i + 1) + 1) : after[k] = answers[(i + 1) + k - 1]
    BY <2>1, <2>2, SubSeqProperties
  <2>4. QED
    BY <1>3, <1>4, <2>3
<1>7. Answer = answers[i] /\ Rest = before \o after
  BY DEF Answer, Rest
<1> HIDE DEF i, before, after
<1>8. /\ before \o after \in Seq(AnswerSet)
      /\ Len(before \o after) = Len(before) + Len(after)
      /\ \A k \in 1..(Len(before) + Len(after)) :
           (before \o after)[k] = IF k <= Len(before) THEN before[k] ELSE after[k - Len(before)]
  BY <1>5, <1>6, ConcatProperties
<1>9. Len(Rest) = Len(answers) - 1 /\ Rest \in Seq(AnswerSet)
  BY <1>3, <1>4, <1>5, <1>6, <1>7, <1>8
<1>10. DOMAIN Rest = 1..(Len(answers) - 1)
  BY <1>9, LenProperties
<1>11. ASSUME NEW j \in DOMAIN Rest PROVE \E k \in DOMAIN answers : Rest[j] = answers[k]
  <2>1. j \in 1..(Len(answers) - 1)
    BY <1>10
  <2>2. CASE j <= i - 1
    <3>1. Rest[j] = answers[j]
      BY <1>3, <1>4, <1>5, <1>6, <1>7, <1>8, <2>1, <2>2
    <3>2. j \in DOMAIN answers
      BY <1>3, <2>1
    <3>3. QED
      BY <3>1, <3>2
  <2>3. CASE j > i - 1
    <3>1. Rest[j] = after[j - (i - 1)]
      BY <1>3, <1>4, <1>5, <1>6, <1>7, <1>8, <2>1, <2>3
    <3>2. j - (i - 1) \in 1..(Len(answers) - i)
      BY <1>3, <1>4, <2>1, <2>3
    <3>3. Rest[j] = answers[i + (j - (i - 1))]
      BY <1>6, <3>1, <3>2
    <3>4. i + (j - (i - 1)) \in DOMAIN answers
      BY <1>3, <1>4, <3>2
    <3>5. QED
      BY <3>3, <3>4
  <2>4. QED
    BY <1>4, <2>1, <2>2, <2>3
<1>12. QED
  BY <1>2, <1>4, <1>7, <1>9, <1>11

(* In either case what is kept of the queue is of its type.                *)
LEMMA FetchTypes ==
  ASSUME VdecConstants, DataOK
  PROVE  /\ Answer \in AnswerSet \cup {NoAnswer} /\ Filled \in AnswerSet \cup {NoAnswer}
         /\ Filled.out \in OutputSet
         /\ Rest \in Seq(AnswerSet) /\ Len(Rest) <= Len(answers)
         /\ \A j \in DOMAIN Rest : \E k \in DOMAIN answers : Rest[j] = answers[k]
<1>1. /\ Answer \in AnswerSet \cup {NoAnswer}
      /\ Rest \in Seq(AnswerSet) /\ Len(Rest) <= Len(answers)
      /\ \A j \in DOMAIN Rest : \E k \in DOMAIN answers : Rest[j] = answers[k]
  <2>1. Len(answers) \in Nat
    BY LenProperties DEF DataOK
  <2>2. CASE Fetched = {}
    <3>1. Answer = NoAnswer /\ Rest = answers
      BY <2>2 DEF Answer, Rest
    <3>2. QED
      BY <2>1, <3>1 DEF DataOK
  <2>3. CASE Fetched # {}
    BY <2>1, <2>3, AnswerFetched
  <2>4. QED
    BY <2>2, <2>3
<1>2. Filled \in AnswerSet \cup {NoAnswer}
  BY <1>1 DEF Filled, DataOK, CallSet
<1>3. NoAnswer.out = NoOutput /\ NoOutput \in OutputSet
  BY NoPlace DEF NoAnswer
<1>4. \A a \in AnswerSet : a.out \in OutputSet
  BY DEF AnswerSet
<1>5. QED
  BY <1>1, <1>2, <1>3, <1>4

------------------------------------------------------------------------------
(* Sending, fetching and returning, for any command.                       *)

LEMMA SendFacts ==
  ASSUME VdecConstants, DataOK, NEW fn \in Fns, NEW size \in Nat, NEW sent \in Nat,
         NEW off \in Int, Send(fn, size, sent, off)
  PROVE  /\ pc = "idle" /\ pc' = "poll"
         /\ call' \in CallSet /\ call'.fn = fn /\ call'.size = size /\ call'.sent = sent
         /\ call'.off = off /\ call'.answer = NoAnswer /\ call'.pic = None
         /\ success' \in BOOLEAN /\ retry_cnt' = 2 /\ all_retry_cnt' = 3
         /\ waiting' \in Seq(CommandSet) /\ answers' \in Seq(AnswerSet)
         /\ Len(answers') = Len(answers)
         /\ Len(waiting') \in {Len(waiting), Len(waiting) + 1}
         /\ \A i \in DOMAIN answers : /\ answers'[i].fn = answers[i].fn
                                      /\ answers'[i].ret = answers[i].ret
                                      /\ answers'[i].out = answers[i].out
         /\ fn = "close" \/ Held < MaxWaiting
         /\ Len(waiting) = 0 =>
              \A i \in DOMAIN waiting' : waiting'[i] = [fn |-> fn, mine |-> TRUE]
         /\ UNCHANGED <<slow, mapped, replaced>>
<1>1. waiting \in Seq(CommandSet) /\ answers \in Seq(AnswerSet)
  BY DEF DataOK
<1>2. /\ Orphan(waiting) \in Seq(CommandSet) /\ Len(Orphan(waiting)) = Len(waiting)
      /\ answers' = Orphan(answers) /\ answers' \in Seq(AnswerSet)
      /\ Len(answers') = Len(answers) /\ Len(waiting) \in Nat
  BY <1>1, OrphanCommands, OrphanAnswers, LenProperties DEF Send
<1>3. \A i \in DOMAIN answers : /\ answers'[i].fn = answers[i].fn
                                /\ answers'[i].ret = answers[i].ret
                                /\ answers'[i].out = answers[i].out
  BY <1>1, <1>2, OrphanAnswers
<1>4. [fn |-> fn, mine |-> TRUE] \in CommandSet
  BY DEF CommandSet
<1>5. /\ waiting' \in Seq(CommandSet)
      /\ Len(waiting') \in {Len(waiting), Len(waiting) + 1}
      /\ Len(waiting) = 0 =>
           \A i \in DOMAIN waiting' : waiting'[i] = [fn |-> fn, mine |-> TRUE]
  <2>1. CASE waiting' = Orphan(waiting)
    <3>1. waiting' \in Seq(CommandSet) /\ Len(waiting') = Len(waiting)
      BY <1>2, <2>1
    <3>2. DOMAIN waiting' = 1..Len(waiting)
      BY <3>1, LenProperties
    <3>3. QED
      BY <1>2, <3>1, <3>2
  <2>2. CASE waiting' = Append(Orphan(waiting), [fn |-> fn, mine |-> TRUE])
    <3>1. /\ waiting' \in Seq(CommandSet) /\ Len(waiting') = Len(waiting) + 1
          /\ waiting'[Len(waiting) + 1] = [fn |-> fn, mine |-> TRUE]
      BY <1>2, <1>4, <2>2, AppendProperties
    <3>2. DOMAIN waiting' = 1..(Len(waiting) + 1)
      BY <3>1, LenProperties
    <3>3. QED
      BY <1>2, <3>1, <3>2
  <2>3. QED
    BY <2>1, <2>2 DEF Send
<1>6. call' = [NoCall EXCEPT !.fn = fn, !.size = size, !.sent = sent, !.off = off]
  BY DEF Send
<1>7. /\ call' \in CallSet /\ call'.fn = fn /\ call'.size = size /\ call'.sent = sent
      /\ call'.off = off
  BY <1>6, NoCallType DEF CallSet
<1>8. call'.answer = NoAnswer /\ call'.pic = None
  BY <1>6 DEF NoCall
<1>9. /\ pc = "idle" /\ pc' = "poll" /\ success' \in BOOLEAN /\ retry_cnt' = 2 /\ all_retry_cnt' = 3
      /\ fn = "close" \/ Held < MaxWaiting
      /\ UNCHANGED <<slow, mapped, replaced>>
  BY DEF Send, Held, mapvars
<1>10. QED
  BY <1>2, <1>3, <1>5, <1>7, <1>8, <1>9

LEMMA VpuRetType == ASSUME DataOK, VdecConstants PROVE VpuRet \in Rets \ {"NOT_YET"}
<1>1. Answer \in AnswerSet \cup {NoAnswer}
  BY FetchTypes
<1>2. AnswerRet \in Rets
  BY <1>1 DEF AnswerSet, NoAnswer, AnswerRet, Rets
<1>3. QED
  BY <1>2 DEF VpuRet, NotProcessed, Rets

(* A command that was processed has an answer, which is its own kind's, if *)
(* it could be fetched.                                                    *)
LEMMA ProcessedAnswer ==
  ASSUME VdecConstants, DataOK, VpuRet # "CODEC_EXIT", pc = "result"
  PROVE  /\ Fetched # {} /\ Filled = Answer /\ VpuRet = Answer.ret
         /\ \E i \in DOMAIN answers : Answer = answers[i] /\ answers[i].fn = call.fn
<1>1. VpuRet = Answer.ret /\ AnswerRet = Answer.ret /\ ~NotProcessed
  BY DEF VpuRet, AnswerRet
<1>2. Answer # NoAnswer
  BY <1>1 DEF NotProcessed, NoAnswer
<1>3. Fetched # {}
  BY <1>2 DEF Answer
<1>4. QED
  BY <1>1, <1>2, <1>3, AnswerFetched DEF Filled

LEMMA ReturnFacts ==
  ASSUME VdecConstants, DataOK, NEW fn \in Fns, NEW ret \in CallRets,
         NEW pic \in Pictures \cup {None}, Return(fn, ret, pic)
  PROVE  /\ Polled /\ pc' = "idle" /\ call.fn = fn
         /\ NotProcessed => all_retry_cnt <= 1
         /\ call' \in CallSet /\ call'.fn = fn /\ call'.size = call.size
         /\ call'.sent = call.sent /\ call'.off = call.off
         /\ call'.ret = ret /\ call'.answer = Filled /\ call'.pic = pic
         /\ answers' = Rest /\ answers' \in Seq(AnswerSet) /\ Len(answers') <= Len(answers)
         /\ UNCHANGED <<success, retry_cnt, all_retry_cnt, codec, waiting, slow>>
<1>1. /\ Polled /\ pc' = "idle" /\ call.fn = fn
      /\ NotProcessed => all_retry_cnt <= 1
      /\ call' = [call EXCEPT !.ret = ret, !.vpu = VpuRet, !.answer = Filled, !.pic = pic]
      /\ answers' = Rest
      /\ UNCHANGED <<success, retry_cnt, all_retry_cnt, codec, waiting, slow>>
  BY DEF Return, cmdvars
<1>2. VpuRet \in Rets /\ Filled \in AnswerSet \cup {NoAnswer}
  BY VpuRetType, FetchTypes
<1>3. call \in CallSet
  BY DEF DataOK
<1>4. /\ call' \in CallSet /\ call'.fn = fn /\ call'.size = call.size
      /\ call'.sent = call.sent /\ call'.off = call.off
      /\ call'.ret = ret /\ call'.answer = Filled /\ call'.pic = pic
  BY <1>1, <1>2, <1>3 DEF CallSet
<1>5. QED
  BY <1>1, <1>4, FetchTypes

------------------------------------------------------------------------------
(* The steps keep the types and account for the mappings.                  *)

(* What the calls have in common: one command is sent and nothing is kept  *)
(* but, before a decode, the output of the last one.                       *)
Sends(fn, size, sent, off) ==
  /\ Send(fn, size, sent, off) /\ stage \in StageOf(fn)
  /\ UNCHANGED <<stage, va, max_bitstream_size, next>> /\ decode_info' \in OutputSet
  /\ fn = "header" => Addressed
  /\ fn = "decode" => size \in Sizes /\ sent = SentSize(size) /\ off = next.off

(* The clear of a decoder of MJPEG sends none.                             *)
ClearsNothing ==
  /\ pc = "idle" /\ stage = "ready" /\ call' = [NoCall EXCEPT !.fn = "clear"]
  /\ UNCHANGED <<libvars, pc, cmdvars, drvvars, mapvars>>

(* A header that finds no buffer ends the process.                         *)
Crashes ==
  /\ pc = "idle" /\ pc' = "crashed" /\ stage = "failed"
  /\ \E s \in Sizes : call' = [NoCall EXCEPT !.fn = "header", !.size = s]
  /\ UNCHANGED <<libvars, cmdvars, drvvars, mapvars>>

LEMMA SizesFit ==
  ASSUME VdecConstants, DataOK, NEW s \in Sizes
  PROVE  /\ s \in Nat \ {0} /\ SentSize(s) \in Nat /\ Smaller(s, max_bitstream_size) \in Nat
         /\ SentSize(s) \in {0, Smaller(s, BufferSize)} /\ SentSize(s) <= next.size
         /\ SentSize(s) > 0 => max_bitstream_size > 0
         /\ next.off \in Int /\ next.size \in Nat
<1>1. s \in Nat \ {0} /\ BufferSize \in Nat \ {0}
  BY ConstantTypes
<1>2. next.size \in Nat /\ next.off \in Int /\ max_bitstream_size \in {0, BufferSize}
  BY <1>1 DEF DataOK
<1>3. QED
  BY <1>1, <1>2 DEF SentSize, Smaller

LEMMA CallSends ==
  ASSUME VdecConstants, VdecInv, Call
  PROVE  \/ \E fn \in Fns, size \in Nat, sent \in Nat, off \in Int : Sends(fn, size, sent, off)
         \/ ClearsNothing \/ Crashes
<1> USE DEF Sends, StageOf, Fns, libvars, VdecInv
<1>1. decode_info \in OutputSet /\ NoOutput \in OutputSet
  BY NoPlace DEF DataOK
<1>2. CASE vdec_init_Call
  <2>1. Sends("init", 0, 0, 0)
    BY <1>1, <1>2 DEF vdec_init_Call
  <2>2. QED
    BY <2>1
<1>3. CASE vdec_seq_header_Call
  <2>1. PICK s \in Sizes :
          IF Addressed THEN Send("header", s, Smaller(s, max_bitstream_size), 0) ELSE Crash(s)
    BY <1>3 DEF vdec_seq_header_Call, Addressed
  <2>2. stage \in {"failed", "inited", "ready"} /\ UNCHANGED libvars
    BY <1>3 DEF vdec_seq_header_Call
  <2>3. CASE Addressed
    <3>1. Sends("header", s, Smaller(s, max_bitstream_size), 0)
      BY <1>1, <2>1, <2>2, <2>3
    <3>2. s \in Nat /\ Smaller(s, max_bitstream_size) \in Nat
      BY SizesFit
    <3>3. QED
      BY <3>1, <3>2
  <2>4. CASE ~Addressed
    <3>1. stage = "failed"
      BY <2>2, <2>4 DEF BufferInv
    <3>2. Crashes
      BY <2>1, <2>2, <2>4, <3>1 DEF Crashes, Crash
    <3>3. QED
      BY <3>2
  <2>5. QED
    BY <2>3, <2>4
<1>4. CASE vdec_decode_Call
  <2>1. PICK s \in Sizes : Send("decode", s, SentSize(s), next.off)
    BY <1>4 DEF vdec_decode_Call
  <2>2. Sends("decode", s, SentSize(s), next.off)
    BY <1>1, <1>4, <2>1 DEF vdec_decode_Call
  <2>3. s \in Nat /\ SentSize(s) \in Nat /\ next.off \in Int
    BY SizesFit
  <2>4. QED
    BY <2>2, <2>3
<1>5. CASE vdec_buf_clear_Call
  <2>1. Sends("clear", 0, 0, 0) \/ ClearsNothing
    BY <1>1, <1>5 DEF vdec_buf_clear_Call, ClearsNothing
  <2>2. QED
    BY <2>1
<1>6. CASE vdec_drain_Call
  <2>1. Sends("drain", 0, 0, 0)
    BY <1>1, <1>6 DEF vdec_drain_Call
  <2>2. QED
    BY <2>1
<1>7. CASE vdec_flush_Call
  <2>1. Sends("flush", 0, 0, 0)
    BY <1>1, <1>7 DEF vdec_flush_Call
  <2>2. QED
    BY <2>1
<1>8. CASE vdec_close_Call
  <2>1. Sends("close", 0, 0, 0)
    BY <1>1, <1>8 DEF vdec_close_Call
  <2>2. QED
    BY <2>1
<1>9. QED
  BY <1>2, <1>3, <1>4, <1>5, <1>6, <1>7, <1>8 DEF Call

LEMMA CrashCall ==
  ASSUME VdecConstants, Crashes
  PROVE  /\ call' \in CallSet /\ call'.fn = "header" /\ call'.answer = NoAnswer
         /\ call'.fn \in Fns /\ stage \in StageOf("header")
<1>1. PICK s \in Sizes : call' = [NoCall EXCEPT !.fn = "header", !.size = s]
  BY DEF Crashes
<1>2. s \in Nat
  BY ConstantTypes
<1>3. call' \in CallSet
  BY <1>1, <1>2, NoCallType DEF CallSet, Fns
<1>4. QED
  BY <1>1, <1>3 DEF Crashes, NoCall, Fns, StageOf

LEMMA CallKeeps ==
  ASSUME VdecConstants, VdecInv, Call
  PROVE  VdecInv'
<1> USE DEF VdecInv
<1>1. ASSUME NEW fn \in Fns, NEW size \in Nat, NEW sent \in Nat, NEW off \in Int,
             Sends(fn, size, sent, off)
      PROVE  VdecInv'
  <2>1. /\ pc = "idle" /\ pc' = "poll" /\ call' \in CallSet /\ call'.fn = fn
        /\ success' \in BOOLEAN /\ retry_cnt' = 2 /\ all_retry_cnt' = 3
        /\ waiting' \in Seq(CommandSet) /\ answers' \in Seq(AnswerSet)
        /\ Len(answers') = Len(answers) /\ Len(waiting') \in {Len(waiting), Len(waiting) + 1}
        /\ fn = "close" \/ Held < MaxWaiting
        /\ UNCHANGED <<slow, mapped, replaced>>
    BY <1>1, SendFacts DEF Sends
  <2>2. /\ UNCHANGED <<stage, va, max_bitstream_size, next>> /\ decode_info' \in OutputSet
        /\ stage \in StageOf(fn) /\ (fn = "header" => Addressed)
    BY <1>1 DEF Sends
  <2>3. DataOK'
    BY <2>1, <2>2 DEF DataOK
  <2>4. Len(waiting) \in Nat /\ Len(answers) \in Nat /\ MaxWaiting \in Nat
    BY LenProperties, ConstantTypes DEF DataOK
  <2>5. fn = "close" => Held <= MaxWaiting
    BY <1>1, <2>1 DEF Sends, StageOf, CallInv
  <2>6. CallInv'
    BY <2>1, <2>2, <2>4, <2>5 DEF CallInv, Held
  <2>7. BufferInv'
    BY <2>1, <2>2 DEF BufferInv, Addressed, CrashesOnlyUninited, MappingsAccounted
  <2>8. QED
    BY <2>3, <2>6, <2>7
<1>2. CASE ClearsNothing
  <2>1. call' \in CallSet /\ UNCHANGED <<libvars, pc, cmdvars, drvvars, mapvars>> /\ pc = "idle"
    BY <1>2, NoCallType DEF ClearsNothing, CallSet, Fns
  <2>2. DataOK'
    <3>1. /\ UNCHANGED <<stage, va, max_bitstream_size, next, decode_info, pc>>
          /\ UNCHANGED <<success, retry_cnt, all_retry_cnt>>
          /\ UNCHANGED <<waiting, answers, slow, mapped, replaced>>
      BY <2>1 DEF libvars, cmdvars, drvvars, mapvars
    <3>2. QED
      BY <2>1, <3>1 DEF DataOK
  <2>3. CallInv' /\ BufferInv'
    BY <2>1 DEF CallInv, Held, BufferInv, Addressed, CrashesOnlyUninited, MappingsAccounted,
       libvars, drvvars, mapvars
  <2>4. QED
    BY <2>2, <2>3
<1>3. CASE Crashes
  <2>1. /\ call' \in CallSet /\ call'.fn = "header" /\ stage \in StageOf("header")
        /\ call'.fn \in Fns
    BY <1>3, CrashCall
  <2>2. /\ pc = "idle" /\ pc' = "crashed" /\ stage = "failed"
        /\ UNCHANGED <<stage, va, max_bitstream_size, next, decode_info>>
        /\ UNCHANGED <<success, retry_cnt, all_retry_cnt>>
        /\ UNCHANGED <<waiting, answers, slow, mapped, replaced>>
    BY <1>3 DEF Crashes, libvars, cmdvars, drvvars, mapvars
  <2>3. DataOK'
    BY <2>1, <2>2 DEF DataOK
  <2>4. CallInv' /\ BufferInv'
    BY <2>1, <2>2
       DEF CallInv, Held, BufferInv, Addressed, CrashesOnlyUninited, MappingsAccounted
  <2>5. QED
    BY <2>3, <2>4
<1>4. QED
  BY <1>1, <1>2, <1>3, CallSends

(* A mapping made, failed or made over another is accounted for.           *)
LEMMA MapAccounted ==
  ASSUME DataOK, MappingsAccounted, NEW kinds \in SUBSET Kinds, Map(kinds)
  PROVE  /\ MappingsAccounted' /\ va' \subseteq Kinds /\ va \ kinds \subseteq va'
         /\ mapped' \in [Kinds -> Int] /\ replaced' \in [Kinds -> Nat]
<1>1. PICK ok \in SUBSET kinds :
        /\ va' = (va \ kinds) \cup ok
        /\ mapped' = [k \in Kinds |-> IF k \in ok THEN mapped[k] + 1 ELSE mapped[k]]
        /\ replaced' = [k \in Kinds |-> IF k \in kinds \cap va THEN replaced[k] + 1 ELSE replaced[k]]
  BY DEF Map, Mappable
<1>2. va \subseteq Kinds /\ mapped \in [Kinds -> Int] /\ replaced \in [Kinds -> Nat]
  BY DEF DataOK
<1>3. mapped' \in [Kinds -> Int] /\ replaced' \in [Kinds -> Nat]
  BY <1>1, <1>2
<1>4. ASSUME NEW k \in Kinds
      PROVE  mapped'[k] = replaced'[k] + (IF k \in va' THEN 1 ELSE 0)
  <2>1. mapped[k] = replaced[k] + (IF k \in va THEN 1 ELSE 0)
    BY DEF MappingsAccounted
  <2>2. /\ mapped'[k] = IF k \in ok THEN mapped[k] + 1 ELSE mapped[k]
        /\ replaced'[k] = IF k \in kinds \cap va THEN replaced[k] + 1 ELSE replaced[k]
        /\ k \in va' <=> (k \in va /\ k \notin kinds) \/ k \in ok
        /\ mapped[k] \in Int /\ replaced[k] \in Nat
    BY <1>1, <1>2
  <2>3. QED
    BY <2>1, <2>2
<1>5. QED
  BY <1>1, <1>2, <1>3, <1>4 DEF MappingsAccounted

LEMMA UnmapAccounted ==
  ASSUME DataOK, MappingsAccounted, Unmap
  PROVE  /\ MappingsAccounted' /\ va' = {}
         /\ mapped' \in [Kinds -> Int] /\ replaced' \in [Kinds -> Nat]
<1>1. /\ va' = {} /\ UNCHANGED replaced
      /\ mapped' = [k \in Kinds |-> IF k \in va THEN mapped[k] - 1 ELSE mapped[k]]
      /\ mapped \in [Kinds -> Int] /\ replaced \in [Kinds -> Nat]
  BY DEF Unmap, DataOK
<1>2. mapped' \in [Kinds -> Int]
  BY <1>1
<1>3. ASSUME NEW k \in Kinds
      PROVE  mapped'[k] = replaced'[k] + (IF k \in va' THEN 1 ELSE 0)
  <2>1. mapped[k] = replaced[k] + (IF k \in va THEN 1 ELSE 0)
    BY DEF MappingsAccounted
  <2>2. /\ mapped'[k] = IF k \in va THEN mapped[k] - 1 ELSE mapped[k]
        /\ mapped[k] \in Int /\ replaced[k] \in Nat
    BY <1>1
  <2>3. QED
    BY <1>1, <2>1, <2>2
<1>4. QED
  BY <1>1, <1>2, <1>3 DEF MappingsAccounted

(* A return keeps what it must if what it leaves in the handle does.       *)
LEMMA ReturnKeeps ==
  ASSUME VdecConstants, VdecInv, NEW fn \in Fns, NEW ret \in CallRets,
         NEW pic \in Pictures \cup {None}, Return(fn, ret, pic),
         stage' \in Stages, va' \subseteq Kinds, max_bitstream_size' \in {0, BufferSize},
         next' \in [off : -1..(BufferSize - 1), size : 0..BufferSize],
         decode_info' \in OutputSet,
         mapped' \in [Kinds -> Int], replaced' \in [Kinds -> Nat],
         BufferInv', fn = "close" => stage' = "closed"
  PROVE  VdecInv'
<1> USE DEF VdecInv
<1>1. /\ Polled /\ pc' = "idle" /\ call.fn = fn /\ call' \in CallSet
      /\ answers' \in Seq(AnswerSet) /\ Len(answers') <= Len(answers)
      /\ UNCHANGED <<success, retry_cnt, all_retry_cnt, waiting, slow>>
  BY ReturnFacts
<1>2. DataOK'
  BY <1>1 DEF DataOK
<1>3. Len(waiting) \in Nat /\ Len(answers) \in Nat /\ Len(answers') \in Nat /\ MaxWaiting \in Nat
  BY <1>1, LenProperties, ConstantTypes DEF DataOK
<1>4. CallInv'
  BY <1>1, <1>3 DEF CallInv, Held, Polled
<1>5. QED
  BY <1>2, <1>4

(* What is between a call and its return leaves in the handle, a return    *)
(* that leaves the stage and the buffers does too.                         *)
LEMMA BuffersStay ==
  ASSUME BufferInv, UNCHANGED <<stage, va, max_bitstream_size, mapped, replaced>>, pc' = "idle"
  PROVE  BufferInv'
BY DEF BufferInv, Addressed, CrashesOnlyUninited, MappingsAccounted

LEMMA ReturnsKeep ==
  ASSUME VdecConstants, VdecInv,
         \/ vdec_init_Return \/ vdec_seq_header_Return \/ vdec_decode_Return
         \/ vdec_drain_Return \/ vdec_flush_Return \/ vdec_buf_clear_Return
         \/ vdec_close_Return
  PROVE  VdecInv'
<1> USE DEF VdecInv, Fns, CallRets, Stages
<1>0. /\ \A fn \in Fns, ret \in CallRets, pic \in Pictures \cup {None} :
           Return(fn, ret, pic) => pc' = "idle"
      /\ max_bitstream_size \in {0, BufferSize}
  BY DEF Return, DataOK
<1>1. /\ None \in Pictures \cup {None} /\ BufferSize \in Nat \ {0}
      /\ Filled.out \in OutputSet /\ Filled.out.next \in Places
      /\ Filled.out.pic \in Pictures \cup {None}
      /\ Places \subseteq [off : -1..(BufferSize - 1), size : 0..BufferSize]
  BY ConstantTypes, NoPlace, FetchTypes DEF OutputSet
<1>2. /\ stage \in Stages /\ va \subseteq Kinds
      /\ next \in [off : -1..(BufferSize - 1), size : 0..BufferSize]
      /\ decode_info \in OutputSet /\ decode_info.pic \in Pictures \cup {None}
      /\ mapped \in [Kinds -> Int] /\ replaced \in [Kinds -> Nat]
  BY DEF DataOK, OutputSet
<1>3. CASE vdec_init_Return
  <2>1. CASE VpuRet = "SUCCESS"
    <3>1. PICK kinds \in {{"bitstream"}, {"bitstream", "userdata"}} :
            /\ Map(kinds)
            /\ max_bitstream_size' = IF pc = "unfetched" THEN 0 ELSE BufferSize
            /\ next' = [off |-> 0, size |-> max_bitstream_size']
            /\ LET ret == IF kinds \subseteq va' THEN "SUCCESS" ELSE "FAIL"
               IN /\ Return("init", ret, None)
                  /\ stage' = IF ret = "SUCCESS" THEN "inited" ELSE "failed"
      BY <1>3, <2>1 DEF vdec_init_Return
    <3>2. kinds \in SUBSET Kinds /\ "bitstream" \in kinds
      BY DEF Kinds
    <3>3. /\ MappingsAccounted' /\ va' \subseteq Kinds
          /\ mapped' \in [Kinds -> Int] /\ replaced' \in [Kinds -> Nat]
      BY <3>1, <3>2, MapAccounted DEF BufferInv
    <3>4. next' \in [off : -1..(BufferSize - 1), size : 0..BufferSize]
      BY <1>1, <3>1
    <3>5. PICK ret \in {"SUCCESS", "FAIL"} :
            /\ Return("init", ret, None)
            /\ stage' = IF ret = "SUCCESS" THEN "inited" ELSE "failed"
            /\ ret = "SUCCESS" => kinds \subseteq va'
      BY <3>1
    <3>6. BufferInv'
      BY <1>0, <1>1, <3>2, <3>3, <3>5 DEF BufferInv, Addressed, CrashesOnlyUninited
    <3>7. decode_info' \in OutputSet
      BY <1>2, <1>3 DEF vdec_init_Return
    <3>8. QED
      BY <1>1, <3>1, <3>3, <3>4, <3>5, <3>6, <3>7, ReturnKeeps
  <2>2. CASE VpuRet # "SUCCESS"
    <3>1. /\ Return("init", "FAIL", None) /\ stage' = "failed"
          /\ UNCHANGED <<va, max_bitstream_size, next, decode_info, mapped, replaced>>
      BY <1>3, <2>2 DEF vdec_init_Return, mapvars
    <3>2. BufferInv'
      BY <1>0, <1>1, <3>1 DEF BufferInv, CrashesOnlyUninited, MappingsAccounted
    <3>3. QED
      BY <1>0, <1>1, <1>2, <3>1, <3>2, ReturnKeeps
  <2>3. QED
    BY <2>1, <2>2
<1>4. CASE vdec_seq_header_Return
  <2>1. /\ call.fn = "header" /\ stage \in {"failed", "inited", "ready"} /\ Addressed
        /\ UNCHANGED max_bitstream_size
    BY <1>4 DEF vdec_seq_header_Return, Return, Polled, CallInv, StageOf, BufferInv
  <2>2. CASE VpuRet = "SUCCESS"
    <3>1. /\ Map({"frames"})
          /\ next' = [off |-> Filled.out.next.off, size |-> max_bitstream_size]
          /\ UNCHANGED decode_info
      BY <1>4, <2>2 DEF vdec_seq_header_Return
    <3>2. PICK ret \in {"SUCCESS", "FAIL"} :
            /\ Return("header", ret, None)
            /\ stage' = IF ret = "SUCCESS" THEN "ready"
                        ELSE IF stage = "failed" THEN "failed" ELSE "inited"
      BY <1>4, <2>2 DEF vdec_seq_header_Return
    <3>3. {"frames"} \in SUBSET Kinds /\ "bitstream" \notin {"frames"}
      BY DEF Kinds
    <3>4. /\ MappingsAccounted' /\ va' \subseteq Kinds /\ va \ {"frames"} \subseteq va'
          /\ mapped' \in [Kinds -> Int] /\ replaced' \in [Kinds -> Nat]
      BY <3>1, <3>3, MapAccounted DEF BufferInv
    <3>5. next' \in [off : -1..(BufferSize - 1), size : 0..BufferSize]
      <4>1. Filled.out.next.off \in -1..(BufferSize - 1)
        BY <1>1
      <4>2. max_bitstream_size \in 0..BufferSize
        BY <1>0, <1>1
      <4>3. QED
        BY <3>1, <4>1, <4>2
    <3>6. BufferInv'
      BY <1>0, <1>1, <2>1, <3>2, <3>3, <3>4 DEF BufferInv, Addressed, CrashesOnlyUninited
    <3>7. QED
      BY <1>0, <1>1, <1>2, <2>1, <3>1, <3>2, <3>4, <3>5, <3>6, ReturnKeeps
  <2>3. CASE VpuRet # "SUCCESS"
    <3>1. /\ Return("header", "FAIL", None)
          /\ UNCHANGED <<stage, va, next, decode_info, mapped, replaced>>
      BY <1>4, <2>3 DEF vdec_seq_header_Return, mapvars
    <3>2. BufferInv'
      BY <1>0, <1>1, <2>1, <3>1, BuffersStay
    <3>3. QED
      BY <1>0, <1>1, <1>2, <2>1, <3>1, <3>2, ReturnKeeps
  <2>4. QED
    BY <2>2, <2>3
<1>5. CASE vdec_decode_Return
  <2>1. /\ Return("decode", DecodeRet, FrameOut(DecodeRet, vdec_fill_output(Filled.out)))
        /\ decode_info' = Filled.out /\ next' = Filled.out.next
        /\ UNCHANGED <<stage, va, max_bitstream_size, mapped, replaced>>
    BY <1>5 DEF vdec_decode_Return, mapvars
  <2>2. FrameOut(DecodeRet, vdec_fill_output(Filled.out)) \in Pictures \cup {None}
    BY <1>1 DEF FrameOut, vdec_fill_output
  <2>3. DecodeRet \in CallRets
    BY DEF DecodeRet
  <2>4. BufferInv'
    <3>1. pc' = "idle"
      BY <2>1 DEF Return
    <3>2. QED
      BY <2>1, <3>1, BuffersStay
  <2>5. next' \in [off : -1..(BufferSize - 1), size : 0..BufferSize]
    BY <1>1, <2>1
  <2>6. decode_info' \in OutputSet
    BY <1>1, <2>1
  <2> HIDE DEF CallRets
  <2>7. "decode" \in Fns
    OBVIOUS
  <2>8. QED
    BY <1>0, <1>2, <2>1, <2>2, <2>3, <2>4, <2>5, <2>6, <2>7, ReturnKeeps
<1>6. CASE vdec_drain_Return
  <2>1. UNCHANGED <<stage, va, max_bitstream_size, next, decode_info, mapped, replaced>>
    BY <1>6 DEF vdec_drain_Return, mapvars
  <2>2. \E ret \in {"SUCCESS", "FAIL"}, pic \in {None, decode_info.pic} : Return("drain", ret, pic)
    BY <1>6 DEF vdec_drain_Return, vdec_fill_output
  <2>3. BufferInv'
    <3>1. pc' = "idle"
      BY <2>2 DEF Return
    <3>2. QED
      BY <2>1, <3>1, BuffersStay
  <2>4. QED
    BY <1>0, <1>2, <2>1, <2>2, <2>3, ReturnKeeps
<1>7. CASE vdec_flush_Return \/ vdec_buf_clear_Return
  <2>1. UNCHANGED <<stage, va, max_bitstream_size, next, decode_info, mapped, replaced>>
    BY <1>7 DEF vdec_flush_Return, vdec_buf_clear_Return, mapvars
  <2>2. \E fn \in {"flush", "clear"}, ret \in {"SUCCESS", "FAIL"} : Return(fn, ret, None)
    BY <1>7 DEF vdec_flush_Return, vdec_buf_clear_Return
  <2>3. BufferInv'
    <3>1. pc' = "idle"
      BY <2>2 DEF Return
    <3>2. QED
      BY <2>1, <3>1, BuffersStay
  <2>4. QED
    BY <1>0, <1>1, <1>2, <2>1, <2>2, <2>3, ReturnKeeps
<1>8. CASE vdec_close_Return
  <2>1. /\ Unmap /\ stage' = "closed" /\ UNCHANGED <<max_bitstream_size, next, decode_info>>
        /\ \E ret \in {"SUCCESS", "FAIL"} : Return("close", ret, None)
    BY <1>8 DEF vdec_close_Return
  <2>2. /\ MappingsAccounted' /\ va' = {}
        /\ mapped' \in [Kinds -> Int] /\ replaced' \in [Kinds -> Nat]
    BY <2>1, UnmapAccounted DEF BufferInv
  <2>3. BufferInv'
    <3>1. pc' = "idle"
      BY <2>1 DEF Return
    <3>2. QED
      BY <2>1, <2>2, <3>1 DEF BufferInv, CrashesOnlyUninited
  <2>4. QED
    BY <1>0, <1>1, <1>2, <2>1, <2>2, <2>3, ReturnKeeps
<1>9. QED
  BY <1>3, <1>4, <1>5, <1>6, <1>7, <1>8

(* Polls move counters and no queue.                                       *)
LEMMA PollKeeps ==
  ASSUME VdecConstants, VdecInv, Poll_In \/ Poll_Timeout \/ Poll_End \/ Poll_Err
  PROVE  /\ VdecInv' /\ UNCHANGED <<libvars, call, all_retry_cnt, waiting, answers, mapvars>>
         /\ pc = "poll" /\ pc' \in {"poll", "result"}
<1> USE DEF VdecInv, Poll_In, Poll_Timeout, Poll_End, Poll_Err, cmdvars, drvvars
<1>1. /\ UNCHANGED <<libvars, call, all_retry_cnt, waiting, answers, mapvars>>
      /\ pc = "poll" /\ pc' \in {"poll", "result"}
  OBVIOUS
<1>2. success' \in BOOLEAN
  BY DEF DataOK
<1>3. retry_cnt' \in 0..2 /\ slow' \in Nat
  <2>1. retry_cnt \in 0..2 /\ slow \in Nat
    BY DEF DataOK
  <2>2. /\ retry_cnt' = retry_cnt \/ (retry_cnt > 0 /\ retry_cnt' = retry_cnt - 1)
        /\ slow' \in {slow, slow + 1}
    OBVIOUS
  <2>3. QED
    BY <2>1, <2>2
<1>4. DataOK'
  BY <1>1, <1>2, <1>3 DEF DataOK, libvars, mapvars
<1>5. CallInv' /\ BufferInv'
  BY <1>1 DEF CallInv, Held, BufferInv, Addressed, CrashesOnlyUninited, MappingsAccounted,
     libvars, mapvars
<1>6. QED
  BY <1>1, <1>4, <1>5

(* A failing *_RESULT only shows in what is fetched after it.              *)
LEMMA UnfetchedKeeps ==
  ASSUME VdecConstants, VdecInv, Result_Fails
  PROVE  /\ VdecInv' /\ UNCHANGED <<libvars, call, cmdvars, waiting, answers, slow, mapvars>>
         /\ pc = "result" /\ pc' = "unfetched" /\ erred'
<1> USE DEF VdecInv
<1>1. /\ UNCHANGED <<libvars, call, cmdvars, waiting, answers, slow, mapvars>>
      /\ pc = "result" /\ pc' = "unfetched" /\ erred'
  BY DEF Result_Fails, drvvars
<1>2. DataOK'
  BY <1>1 DEF DataOK, libvars, cmdvars, mapvars
<1>3. CallInv' /\ BufferInv'
  BY <1>1 DEF CallInv, Held, BufferInv, Addressed, CrashesOnlyUninited, MappingsAccounted,
     libvars, mapvars
<1>4. QED
  BY <1>1, <1>2, <1>3

(* Another round: what was fetched stays in the call's arguments.          *)
LEMMA RetryKeeps ==
  ASSUME VdecConstants, VdecInv, Result_Retry
  PROVE  /\ VdecInv' /\ UNCHANGED <<libvars, success, waiting, slow, mapvars>>
         /\ Polled /\ pc' = "poll" /\ NotProcessed /\ all_retry_cnt \in 2..3
         /\ all_retry_cnt' = all_retry_cnt - 1 /\ retry_cnt' = 2
         /\ answers' = Rest /\ call' \in CallSet /\ call'.fn = call.fn
         /\ call'.size = call.size /\ call'.sent = call.sent /\ call'.off = call.off
         /\ call'.answer = Filled
<1> USE DEF VdecInv
<1>1. /\ UNCHANGED <<libvars, success, waiting, slow, mapvars>>
      /\ Polled /\ pc' = "poll" /\ NotProcessed /\ all_retry_cnt \in 2..3
      /\ all_retry_cnt' = all_retry_cnt - 1 /\ retry_cnt' = 2 /\ answers' = Rest
      /\ call' = [call EXCEPT !.answer = Filled]
  BY DEF Result_Retry, DataOK
<1>2. Filled \in AnswerSet \cup {NoAnswer} /\ Rest \in Seq(AnswerSet) /\ Len(Rest) <= Len(answers)
  BY FetchTypes
<1>3. /\ call' \in CallSet /\ call'.fn = call.fn /\ call'.size = call.size
      /\ call'.sent = call.sent /\ call'.off = call.off /\ call'.answer = Filled
  BY <1>1, <1>2 DEF DataOK, CallSet
<1>4. DataOK'
  BY <1>1, <1>2, <1>3 DEF DataOK, libvars, mapvars
<1>5. Len(waiting) \in Nat /\ Len(answers) \in Nat /\ Len(Rest) \in Nat /\ MaxWaiting \in Nat
  BY <1>2, LenProperties, ConstantTypes DEF DataOK
<1>6. CallInv'
  BY <1>1, <1>2, <1>3, <1>5 DEF CallInv, Held, Polled, libvars
<1>7. BufferInv'
  BY <1>1, <1>3 DEF BufferInv, Polled, Addressed, CrashesOnlyUninited, MappingsAccounted,
     libvars, mapvars
<1>8. QED
  BY <1>1, <1>3, <1>4, <1>6, <1>7

(* The VPU ends the oldest command.                                        *)
LEMMA VpuFacts ==
  ASSUME VdecConstants, DataOK, Vpu_Answer
  PROVE  \E a \in AnswerSet :
           /\ waiting # <<>> /\ answers' = Append(answers, a) /\ waiting' = Tail(waiting)
           /\ a.fn = Head(waiting).fn /\ a.mine = Head(waiting).mine
           /\ Head(waiting) \in CommandSet
           /\ a.fn = "header" /\ a.ret = "SUCCESS" => a.out.next.off \in HeaderOffsets
           /\ slow' = 0 /\ UNCHANGED <<libvars, pc, call, cmdvars, mapvars>>
<1> DEFINE c == Head(waiting)
<1>1. c \in CommandSet
  BY HeadTailProperties DEF DataOK, Vpu_Answer
<1>2. PICK r \in Results(c.fn) : \E o \in Outputs(c.fn, r) :
        answers' = Append(answers, [fn |-> c.fn, mine |-> c.mine, ret |-> r, out |-> o])
  BY DEF Vpu_Answer
<1>3. PICK o \in Outputs(c.fn, r) :
        answers' = Append(answers, [fn |-> c.fn, mine |-> c.mine, ret |-> r, out |-> o])
  BY <1>2
<1> DEFINE a == [fn |-> c.fn, mine |-> c.mine, ret |-> r, out |-> o]
<1>4. r \in Rets
  BY DEF Results, Rets
<1>5. NextPlaces(c.fn) \subseteq Places
  BY ConstantTypes DEF NextPlaces, Places
<1>6. o \in OutputSet
  BY <1>5, NoPlace DEF Outputs, OutputSet
<1>7. c.fn = "header" /\ r = "SUCCESS" => o.next.off \in HeaderOffsets
  BY DEF Outputs, NextPlaces
<1>8. a \in AnswerSet
  BY <1>1, <1>4, <1>6 DEF AnswerSet, CommandSet
<1>9. /\ waiting # <<>> /\ waiting' = Tail(waiting) /\ slow' = 0
      /\ UNCHANGED <<libvars, pc, call, cmdvars, mapvars>>
  BY DEF Vpu_Answer
<1>10. a.fn = c.fn /\ a.mine = c.mine /\ a.ret = r /\ a.out = o
  OBVIOUS
<1> HIDE DEF a
<1>11. QED
  BY <1>1, <1>3, <1>7, <1>8, <1>9, <1>10 DEF a

LEMMA VpuKeeps ==
  ASSUME VdecConstants, VdecInv, Vpu_Answer
  PROVE  /\ VdecInv' /\ Held' = Held
<1> USE DEF VdecInv
<1>1. PICK a \in AnswerSet :
        /\ waiting # <<>> /\ answers' = Append(answers, a) /\ waiting' = Tail(waiting)
        /\ slow' = 0 /\ UNCHANGED <<libvars, pc, call, cmdvars, mapvars>>
  BY VpuFacts
<1>2. /\ waiting' \in Seq(CommandSet) /\ Len(waiting') = Len(waiting) - 1
      /\ answers' \in Seq(AnswerSet) /\ Len(answers') = Len(answers) + 1
      /\ Len(waiting) \in Nat /\ Len(answers) \in Nat
  BY <1>1, HeadTailProperties, AppendProperties, LenProperties DEF DataOK
<1>3. Held' = Held
  BY <1>2 DEF Held
<1>4. DataOK'
  BY <1>1, <1>2 DEF DataOK, libvars, cmdvars, mapvars
<1>5. CallInv' /\ BufferInv'
  BY <1>1, <1>3 DEF CallInv, BufferInv, Addressed, CrashesOnlyUninited, MappingsAccounted,
     libvars, mapvars
<1>6. QED
  BY <1>3, <1>4, <1>5

(* An instance starts with an empty handle and an idle driver, a process   *)
(* with no instance.                                                       *)
LEMMA InstanceKeeps ==
  ASSUME VdecConstants, VdecInv, vdec_alloc_instance \/ vdec_release_instance
  PROVE  VdecInv'
<1> USE DEF VdecInv
<1>1. CASE vdec_alloc_instance
  <2>1. /\ pc = "idle" /\ stage = "none" /\ stage' \in {"none", "allocated"}
        /\ va' = {} /\ max_bitstream_size' = 0 /\ next' = NoNext
        /\ decode_info' = NoOutput /\ call' = NoCall
        /\ waiting' = <<>> /\ answers' = <<>> /\ slow' = 0
        /\ UNCHANGED <<pc, success, retry_cnt, all_retry_cnt, mapped, replaced>>
    BY <1>1 DEF vdec_alloc_instance, cmdvars, mapvars
  <2>2. /\ NoNext \in [off : -1..(BufferSize - 1), size : 0..BufferSize]
        /\ NoOutput \in OutputSet /\ NoCall \in CallSet
    BY NoPlace, NoCallType
  <2>3. /\ <<>> \in Seq(CommandSet) /\ <<>> \in Seq(AnswerSet) /\ Len(<<>>) = 0
    BY EmptySeq
  <2>4. DataOK'
    BY <2>1, <2>2, <2>3 DEF DataOK, Stages
  <2>5. Held' = 0 /\ MaxWaiting \in Nat
    BY <2>1, <2>3, ConstantTypes DEF Held
  <2>6. CallInv'
    BY <2>1, <2>5 DEF CallInv
  <2>7. BufferInv'
    BY <2>1 DEF BufferInv, Addressed, CrashesOnlyUninited, MappingsAccounted
  <2>8. QED
    BY <2>4, <2>6, <2>7
<1>2. CASE vdec_release_instance
  <2>1. /\ pc = "idle" /\ stage = "closed" /\ stage' = "none"
        /\ UNCHANGED <<va, max_bitstream_size, next, decode_info>>
        /\ UNCHANGED <<pc, call, success, retry_cnt, all_retry_cnt>>
        /\ UNCHANGED <<waiting, answers, slow, mapped, replaced>>
    BY <1>2 DEF vdec_release_instance, cmdvars, drvvars, mapvars
  <2>2. DataOK'
    BY <2>1 DEF DataOK, Stages
  <2>3. CallInv' /\ BufferInv'
    BY <2>1 DEF CallInv, Held, BufferInv, Addressed, CrashesOnlyUninited, MappingsAccounted
  <2>4. QED
    BY <2>2, <2>3
<1>3. QED
  BY <1>1, <1>2

(* The process starts, or starts anew, with nothing.                       *)
LEMMA FreshVdec ==
  ASSUME VdecConstants, stage = "none", va = {}, max_bitstream_size = 0, next = NoNext,
         decode_info = NoOutput, pc = "idle", call = NoCall, success = FALSE,
         retry_cnt = 0, all_retry_cnt = 0, waiting = <<>>, answers = <<>>, slow = 0,
         mapped = [k \in Kinds |-> 0], replaced = [k \in Kinds |-> 0]
  PROVE  VdecInv /\ Held = 0
<1>1. /\ NoNext \in [off : -1..(BufferSize - 1), size : 0..BufferSize]
      /\ NoOutput \in OutputSet /\ NoCall \in CallSet
  BY NoPlace, NoCallType
<1>2. /\ <<>> \in Seq(CommandSet) /\ <<>> \in Seq(AnswerSet) /\ Len(<<>>) = 0
  BY EmptySeq
<1>3. DataOK
  <2>1. mapped \in [Kinds -> Int] /\ replaced \in [Kinds -> Nat]
    OBVIOUS
  <2>2. success \in BOOLEAN /\ stage \in Stages
    BY DEF Stages
  <2>3. retry_cnt \in 0..2 /\ all_retry_cnt \in 0..3 /\ slow \in Nat
    OBVIOUS
  <2>4. QED
    BY <1>1, <1>2, <2>1, <2>2, <2>3 DEF DataOK
<1>4. Held = 0 /\ MaxWaiting \in Nat
  BY <1>2, ConstantTypes DEF Held
<1>5. CallInv /\ BufferInv
  BY <1>4 DEF CallInv, BufferInv, CrashesOnlyUninited, MappingsAccounted
<1>6. QED
  BY <1>3, <1>4, <1>5 DEF VdecInv

LEMMA InitiallyVdec == ASSUME VdecConstants, Init PROVE VdecInv /\ Held = 0
<1>1. /\ stage = "none" /\ va = {} /\ max_bitstream_size = 0 /\ next = NoNext
      /\ decode_info = NoOutput /\ pc = "idle" /\ call = NoCall /\ success = FALSE
      /\ retry_cnt = 0 /\ all_retry_cnt = 0 /\ waiting = <<>> /\ answers = <<>> /\ slow = 0
      /\ mapped = [k \in Kinds |-> 0] /\ replaced = [k \in Kinds |-> 0]
  BY DEF Init
<1>2. QED
  BY <1>1, FreshVdec

LEMMA RestartKeeps == ASSUME VdecConstants, Restart PROVE VdecInv' /\ Held' = 0
<1>1. /\ NoNext \in [off : -1..(BufferSize - 1), size : 0..BufferSize]
      /\ NoOutput \in OutputSet /\ NoCall \in CallSet
  BY NoPlace, NoCallType
<1>2. /\ <<>> \in Seq(CommandSet) /\ <<>> \in Seq(AnswerSet) /\ Len(<<>>) = 0
  BY EmptySeq
<1>3. DataOK'
  <2>1. mapped' \in [Kinds -> Int] /\ replaced' \in [Kinds -> Nat]
    BY DEF Restart
  <2>2. success' \in BOOLEAN /\ stage' \in Stages
    BY DEF Restart, Stages
  <2>3. retry_cnt' \in 0..2 /\ all_retry_cnt' \in 0..3 /\ slow' \in Nat
    BY DEF Restart
  <2>4. /\ va' = {} /\ max_bitstream_size' = 0 /\ next' = NoNext /\ decode_info' = NoOutput
        /\ pc' = "idle" /\ call' = NoCall /\ waiting' = <<>> /\ answers' = <<>>
    BY DEF Restart
  <2>5. QED
    BY <1>1, <1>2, <2>1, <2>2, <2>3, <2>4 DEF DataOK
<1>4. Held' = 0 /\ MaxWaiting \in Nat
  BY <1>2, ConstantTypes DEF Restart, Held
<1>5. CallInv' /\ BufferInv'
  BY <1>4 DEF Restart, CallInv, BufferInv, CrashesOnlyUninited, MappingsAccounted
<1>6. QED
  BY <1>3, <1>4, <1>5 DEF VdecInv

LEMMA VdecStep ==
  ASSUME VdecConstants, VdecInv, [Next]_vars
  PROVE  VdecInv'
<1>1. CASE UNCHANGED vars
  BY <1>1 DEF vars, libvars, cmdvars, drvvars, mapvars, VdecInv, DataOK, CallInv, Held,
     BufferInv, Addressed, CrashesOnlyUninited, MappingsAccounted
<1>2. CASE Next
  BY <1>2, CallKeeps, ReturnsKeep, PollKeeps, UnfetchedKeeps, RetryKeeps, VpuKeeps,
     InstanceKeeps, RestartKeeps DEF Next, Process
<1>3. QED
  BY <1>1, <1>2

LEMMA VdecHolds == ASSUME VdecConstants PROVE Spec => []VdecInv
<1>1. Init => VdecInv
  BY InitiallyVdec
<1>2. VdecInv /\ [Next]_vars => VdecInv'
  BY VdecStep
<1>3. QED
  BY <1>1, <1>2, PTL DEF Spec

(* The variables keep their types: the driver never holds more than a      *)
(* close on top of what it may.                                            *)
THEOREM V3TypeCorrect == ASSUME VdecConstants PROVE Spec => []V3TypeOK
<1>1. ASSUME VdecInv PROVE V3TypeOK
  <2>1. ASSUME NEW k \in Kinds PROVE mapped[k] \in Nat
    <3>1. mapped[k] = replaced[k] + (IF k \in va THEN 1 ELSE 0)
      BY <1>1 DEF VdecInv, BufferInv, MappingsAccounted
    <3>2. replaced[k] \in Nat
      BY <1>1 DEF VdecInv, DataOK
    <3>3. QED
      BY <3>1, <3>2
  <2>2. next.size \in 0..BufferSize /\ next.off \in -1..(BufferSize - 1)
    BY <1>1 DEF VdecInv, DataOK
  <2>3. QED
    BY <1>1, <2>1, <2>2 DEF VdecInv, DataOK, CallInv, Held, Stages, V3TypeOK
<1>2. VdecInv => V3TypeOK
  BY <1>1
<1>3. QED
  BY VdecHolds, <1>2, PTL

------------------------------------------------------------------------------
(* Where packets are written.                                              *)

(* What a return leaves as the place for the next packet, and what a       *)
(* decode makes of its answer.                                             *)
ReturnsWith(fn, ret, pic) ==
  /\ Return(fn, ret, pic)
  /\ \/ UNCHANGED <<stage, next>>
     \/ stage' # "ready"
     \/ /\ fn = "header" /\ VpuRet = "SUCCESS" /\ pc = "result"
        /\ next' = [off |-> Filled.out.next.off, size |-> max_bitstream_size]
     \/ fn = "decode" /\ next' = Filled.out.next
  /\ fn = "decode" =>
       ret = DecodeRet /\ pic = FrameOut(DecodeRet, vdec_fill_output(Filled.out))

LEMMA ReturnsReturn ==
  ASSUME VdecConstants, DataOK,
         \/ vdec_init_Return \/ vdec_seq_header_Return \/ vdec_decode_Return
         \/ vdec_drain_Return \/ vdec_flush_Return \/ vdec_buf_clear_Return
         \/ vdec_close_Return
  PROVE  \E fn \in Fns, ret \in CallRets, pic \in Pictures \cup {None} : ReturnsWith(fn, ret, pic)
<1> USE DEF ReturnsWith
<1>1. /\ "SUCCESS" \in CallRets /\ "FAIL" \in CallRets /\ None \in Pictures \cup {None}
      /\ "init" \in Fns /\ "header" \in Fns /\ "decode" \in Fns /\ "drain" \in Fns
      /\ "flush" \in Fns /\ "clear" \in Fns /\ "close" \in Fns
  BY DEF CallRets, Fns
<1>2. CASE vdec_init_Return
  <2>1. \E ret \in {"SUCCESS", "FAIL"} : Return("init", ret, None) /\ stage' # "ready"
    BY <1>2 DEF vdec_init_Return
  <2>2. QED
    BY <1>1, <2>1
<1>3. CASE vdec_seq_header_Return
  <2>1. CASE VpuRet = "SUCCESS"
    <3>1. /\ Map({"frames"})
          /\ next' = [off |-> Filled.out.next.off, size |-> max_bitstream_size]
      BY <1>3, <2>1 DEF vdec_seq_header_Return
    <3>2. PICK ret \in {"SUCCESS", "FAIL"} :
            /\ Return("header", ret, None)
            /\ ret = "SUCCESS" => "frames" \in va'
            /\ stage' = IF ret = "SUCCESS" THEN "ready"
                        ELSE IF stage = "failed" THEN "failed" ELSE "inited"
      BY <1>3, <2>1 DEF vdec_seq_header_Return
    <3>3. stage' = "ready" => "frames" \in va'
      BY <3>2
    <3>4. pc = "unfetched" => "frames" \notin va'
      BY <3>1 DEF Map, Mappable
    <3>5. stage' = "ready" => pc = "result"
      BY <3>2, <3>3, <3>4 DEF Return, Polled
    <3>6. QED
      BY <1>1, <2>1, <3>1, <3>2, <3>5
  <2>2. CASE VpuRet # "SUCCESS"
    <3>1. Return("header", "FAIL", None) /\ UNCHANGED <<stage, next>>
      BY <1>3, <2>2 DEF vdec_seq_header_Return
    <3>2. QED
      BY <1>1, <3>1
  <2>3. QED
    BY <2>1, <2>2
<1>4. CASE vdec_decode_Return
  <2>1. /\ Return("decode", DecodeRet, FrameOut(DecodeRet, vdec_fill_output(Filled.out)))
        /\ next' = Filled.out.next
    BY <1>4 DEF vdec_decode_Return
  <2>2. DecodeRet \in CallRets
    BY DEF DecodeRet, CallRets
  <2>3. FrameOut(DecodeRet, vdec_fill_output(Filled.out)) \in Pictures \cup {None}
    BY FetchTypes DEF FrameOut, vdec_fill_output, OutputSet
  <2>4. QED
    BY <1>1, <2>1, <2>2, <2>3
<1>5. CASE vdec_drain_Return
  <2>1. decode_info.pic \in Pictures \cup {None}
    BY DEF DataOK, OutputSet
  <2>2. /\ UNCHANGED <<stage, next>>
        /\ Return("drain", "SUCCESS", decode_info.pic) \/ Return("drain", "FAIL", None)
    BY <1>5 DEF vdec_drain_Return, vdec_fill_output
  <2>3. QED
    BY <1>1, <2>1, <2>2
<1>6. CASE vdec_flush_Return \/ vdec_buf_clear_Return \/ vdec_close_Return
  <2>1. \E fn \in {"flush", "clear", "close"}, ret \in {"SUCCESS", "FAIL"} :
          /\ Return(fn, ret, None)
          /\ UNCHANGED <<stage, next>> \/ stage' # "ready"
    BY <1>6 DEF vdec_flush_Return, vdec_buf_clear_Return, vdec_close_Return
  <2>2. QED
    BY <1>1, <2>1
<1>7. QED
  BY <1>2, <1>3, <1>4, <1>5, <1>6

LEMMA CallPlaces ==
  ASSUME VdecConstants, VdecInv, PlaceInv, Call
  PROVE  PlaceInv'
<1> USE DEF VdecInv
<1>1. ASSUME NEW fn \in Fns, NEW size \in Nat, NEW sent \in Nat, NEW off \in Int,
             Sends(fn, size, sent, off)
      PROVE  PlaceInv'
  <2>1. /\ call'.fn = fn /\ call'.sent = sent /\ call'.off = off
        /\ answers' \in Seq(AnswerSet) /\ Len(answers') = Len(answers)
        /\ \A i \in DOMAIN answers : /\ answers'[i].fn = answers[i].fn
                                     /\ answers'[i].ret = answers[i].ret
                                     /\ answers'[i].out = answers[i].out
    BY <1>1, SendFacts DEF Sends
  <2>2. DOMAIN answers' = DOMAIN answers
    BY <2>1, LenProperties DEF DataOK
  <2>3. /\ UNCHANGED <<stage, max_bitstream_size, next>> /\ stage \in StageOf(fn)
        /\ fn = "decode" => size \in Sizes /\ sent = SentSize(size) /\ off = next.off
    BY <1>1 DEF Sends
  <2>4. stage' = "ready" => Fits(next)'
    BY <2>3 DEF PlaceInv, Fits
  <2>5. ASSUME fn = "decode", sent > 0
        PROVE  off >= 0 /\ off + sent <= BufferSize /\ max_bitstream_size > 0
    <3>1. /\ off = next.off /\ sent <= next.size /\ next.off \in Int /\ next.size \in Nat
          /\ BufferSize \in Nat /\ max_bitstream_size > 0
      BY <2>3, <2>5, SizesFit, ConstantTypes
    <3>2. next.off >= 0 /\ next.off + next.size <= BufferSize
      BY <2>3, <2>5, <3>1 DEF PlaceInv, Fits, StageOf
    <3>3. QED
      BY <3>1, <3>2
  <2>6. QED
    BY <2>1, <2>2, <2>3, <2>4, <2>5 DEF PlaceInv
<1>2. CASE ClearsNothing \/ Crashes
  <2>1. UNCHANGED <<stage, next, answers>> /\ call'.fn \in {"clear", "header"}
    BY <1>2 DEF ClearsNothing, Crashes, libvars, drvvars, NoCall
  <2>2. QED
    BY <2>1 DEF PlaceInv, Fits
<1>3. QED
  BY <1>1, <1>2, CallSends

LEMMA ReturnPlaces ==
  ASSUME VdecConstants, HeaderOffsets \subseteq {0}, DataOK, PlaceInv,
         NEW fn \in Fns, NEW ret \in CallRets, NEW pic \in Pictures \cup {None},
         ReturnsWith(fn, ret, pic)
  PROVE  PlaceInv'
<1>1. /\ pc' = "idle" /\ call.fn = fn /\ answers' = Rest
  BY ReturnFacts DEF ReturnsWith
<1>2. BufferSize \in Nat \ {0} /\ max_bitstream_size \in {0, BufferSize}
  BY ConstantTypes DEF DataOK
<1>3. stage' = "ready" => Fits(next)'
  <2>1. CASE UNCHANGED <<stage, next>>
    BY <2>1 DEF PlaceInv, Fits
  <2>2. CASE stage' # "ready"
    BY <2>2
  <2>3. CASE /\ fn = "header" /\ VpuRet = "SUCCESS" /\ pc = "result"
             /\ next' = [off |-> Filled.out.next.off, size |-> max_bitstream_size]
    <3>1. Filled.out.next.off \in HeaderOffsets
      BY <1>1, <2>3, ProcessedAnswer DEF PlaceInv
    <3>2. Filled.out.next.off = 0
      BY <3>1
    <3>3. QED
      BY <1>2, <2>3, <3>2 DEF Fits
  <2>4. CASE next' = Filled.out.next
    <3>1. Filled.out.next \in Places
      BY FetchTypes DEF OutputSet
    <3>2. QED
      BY <1>2, <2>4, <3>1 DEF Places, Fits, NoNext
  <2>5. QED
    BY <2>1, <2>2, <2>3, <2>4 DEF ReturnsWith
<1>4. \A j \in DOMAIN Rest : \E k \in DOMAIN answers : Rest[j] = answers[k]
  BY FetchTypes
<1>5. QED
  BY <1>1, <1>3, <1>4 DEF PlaceInv

LEMMA PlaceStep ==
  ASSUME VdecConstants, HeaderOffsets \subseteq {0}, VdecInv, PlaceInv, [Next]_vars
  PROVE  PlaceInv'
<1> USE DEF VdecInv
<1>1. CASE UNCHANGED vars
  BY <1>1 DEF vars, libvars, drvvars, PlaceInv, Fits
<1>2. CASE vdec_alloc_instance \/ vdec_release_instance \/ Restart
  <2>1. CASE vdec_alloc_instance
    <3>1. next' = NoNext /\ answers' = <<>> /\ call' = NoCall
      BY <2>1 DEF vdec_alloc_instance
    <3>2. QED
      BY <3>1 DEF PlaceInv, Fits, NoNext, NoCall, None
  <2>2. CASE vdec_release_instance
    BY <2>2 DEF vdec_release_instance, drvvars, PlaceInv, Fits
  <2>3. CASE Restart
    <3>1. stage' = "none" /\ answers' = <<>> /\ call' = NoCall
      BY <2>3 DEF Restart
    <3>2. QED
      BY <3>1 DEF PlaceInv, NoCall, None
  <2>4. QED
    BY <1>2, <2>1, <2>2, <2>3
<1>3. CASE Call
  BY <1>3, CallPlaces
<1>4. CASE Poll_In \/ Poll_Timeout \/ Poll_End \/ Poll_Err \/ Result_Fails
  BY <1>4, PollKeeps, UnfetchedKeeps DEF PlaceInv, Fits, libvars
<1>5. CASE Result_Retry
  <2>1. /\ UNCHANGED libvars /\ Polled /\ answers' = Rest /\ call'.fn = call.fn
        /\ call'.sent = call.sent /\ call'.off = call.off
    BY <1>5, RetryKeeps
  <2>2. \A j \in DOMAIN Rest : \E k \in DOMAIN answers : Rest[j] = answers[k]
    BY FetchTypes
  <2>3. QED
    BY <2>1, <2>2 DEF PlaceInv, Polled, Fits, libvars
<1>6. CASE \/ vdec_init_Return \/ vdec_seq_header_Return \/ vdec_decode_Return
           \/ vdec_drain_Return \/ vdec_flush_Return \/ vdec_buf_clear_Return
           \/ vdec_close_Return
  BY <1>6, ReturnsReturn, ReturnPlaces
<1>7. CASE Vpu_Answer
  <2>1. PICK a \in AnswerSet :
          /\ answers' = Append(answers, a)
          /\ a.fn = "header" /\ a.ret = "SUCCESS" => a.out.next.off \in HeaderOffsets
          /\ UNCHANGED <<libvars, pc, call>>
    BY <1>7, VpuFacts
  <2>2. /\ Len(answers') = Len(answers) + 1 /\ Len(answers) \in Nat
        /\ \A i \in 1..Len(answers) : answers'[i] = answers[i]
        /\ answers'[Len(answers) + 1] = a /\ answers' \in Seq(AnswerSet)
    BY <2>1, AppendProperties, LenProperties DEF DataOK
  <2>3. DOMAIN answers = 1..Len(answers) /\ DOMAIN answers' = 1..(Len(answers) + 1)
    BY <2>2, LenProperties DEF DataOK
  <2>4. ASSUME NEW i \in DOMAIN answers'
        PROVE  answers'[i].fn = "header" /\ answers'[i].ret = "SUCCESS"
                 => answers'[i].out.next.off \in HeaderOffsets
    <3>1. i \in DOMAIN answers \/ i = Len(answers) + 1
      BY <2>2, <2>3
    <3>2. QED
      BY <2>1, <2>2, <2>3, <3>1 DEF PlaceInv
  <2>5. QED
    BY <2>1, <2>4 DEF PlaceInv, Fits, libvars
<1>8. QED
  BY <1>1, <1>2, <1>3, <1>4, <1>5, <1>6, <1>7 DEF Next, Process

(* Packets are written into the mapped bitstream buffer, wherever earlier  *)
(* commands left the place and whatever failed: with a driver that wants   *)
(* the data after a sequence header at the start of the buffer, for a      *)
(* header at another place is left with the size of the whole buffer.      *)
(* What stays mapped after a close was mapped over before, and a header    *)
(* finds its buffer unless the caller went on after a failed Init.         *)
THEOREM AreasKept ==
  ASSUME VdecConstants, HeaderOffsets \subseteq {0}
  PROVE  Spec => []V3AreasKept
<1>1. Init => VdecInv /\ PlaceInv
  <2>1. Init => PlaceInv
    BY DEF Init, PlaceInv, NoCall, None
  <2>2. QED
    BY <2>1, InitiallyVdec
<1>2. VdecInv /\ PlaceInv /\ [Next]_vars => VdecInv' /\ PlaceInv'
  BY VdecStep, PlaceStep
<1>3. VdecInv /\ PlaceInv => V3AreasKept
  <2>1. ASSUME VdecInv, PlaceInv PROVE WritesInside
    <3>1. call.fn = "decode" /\ pc # "idle" => stage = "ready" /\ Addressed
      BY <2>1 DEF VdecInv, CallInv, BufferInv, StageOf
    <3>2. QED
      BY <2>1, <3>1 DEF WritesInside, PlaceInv, Addressed
  <2>2. QED
    BY <2>1 DEF V3AreasKept, VdecInv, BufferInv
<1>4. QED
  BY <1>1, <1>2, <1>3, PTL DEF Spec

------------------------------------------------------------------------------
(* What a decode returns.                                                  *)

LEMMA ConsumedStep ==
  ASSUME VdecConstants, DataOK, VdecInv, ConsumedInv, [Next]_vars
  PROVE  ConsumedInv'
<1>1. CASE UNCHANGED vars
  BY <1>1 DEF vars, ConsumedInv
<1>2. CASE vdec_alloc_instance \/ vdec_release_instance \/ Restart
  <2>1. call'.fn # "decode" \/ UNCHANGED <<call, pc>>
    BY <1>2 DEF vdec_alloc_instance, vdec_release_instance, Restart, NoCall, None
  <2>2. QED
    BY <2>1 DEF ConsumedInv
<1>3. CASE Call
  <2>1. ASSUME NEW fn \in Fns, NEW size \in Nat, NEW sent \in Nat, NEW off \in Int,
               Sends(fn, size, sent, off)
        PROVE  ConsumedInv'
    <3>1. /\ pc' = "poll" /\ call'.fn = fn /\ call'.size = size /\ call'.sent = sent
          /\ fn = "decode" => size \in Sizes /\ sent = SentSize(size)
      BY <2>1, SendFacts DEF Sends
    <3>2. fn = "decode" => sent \in {0, Smaller(size, BufferSize)}
      BY <3>1, SizesFit
    <3>3. QED
      BY <3>1, <3>2 DEF ConsumedInv, Smaller
  <2>2. CASE ClearsNothing \/ Crashes
    BY <2>2 DEF ClearsNothing, Crashes, NoCall, ConsumedInv
  <2>3. QED
    BY <1>3, <2>1, <2>2, CallSends
<1>4. CASE Poll_In \/ Poll_Timeout \/ Poll_End \/ Poll_Err \/ Result_Fails
  BY <1>4, PollKeeps, UnfetchedKeeps DEF ConsumedInv
<1>5. CASE Result_Retry
  BY <1>5, RetryKeeps DEF ConsumedInv, Smaller, Polled
<1>6. CASE \/ vdec_init_Return \/ vdec_seq_header_Return \/ vdec_decode_Return
           \/ vdec_drain_Return \/ vdec_flush_Return \/ vdec_buf_clear_Return
           \/ vdec_close_Return
  <2>1. PICK fn \in Fns, ret \in CallRets, pic \in Pictures \cup {None} : ReturnsWith(fn, ret, pic)
    BY <1>6, ReturnsReturn
  <2>2. /\ call.fn = fn /\ call'.fn = fn /\ call'.size = call.size /\ call'.sent = call.sent
        /\ call'.ret = ret /\ call'.answer = Filled /\ call'.pic = pic
    BY <2>1, ReturnFacts DEF ReturnsWith
  <2>3. SUFFICES ASSUME fn = "decode" PROVE ConsumedInv'
    BY <2>2 DEF ConsumedInv
  <2>4. ret = DecodeRet /\ pic = FrameOut(DecodeRet, Filled.out.pic)
    BY <2>1, <2>3 DEF ReturnsWith, vdec_fill_output
  <2>5. call.sent \in Nat
    BY DEF DataOK, CallSet
  <2>6. /\ ret = "SUCCESS" => call.sent > 0
        /\ ret = "BUFFER_NOT_CONSUMED" => call.sent = 0
    BY <2>4, <2>5 DEF DecodeRet
  <2>7. pic # None => ret = "SUCCESS" /\ pic = Filled.out.pic
    BY <2>4 DEF FrameOut
  <2>8. Filled.out.pic # None => Filled # NoAnswer
    BY DEF NoAnswer, NoOutput
  <2>9. call.sent \in {0, Smaller(call.size, BufferSize)}
    BY <2>2, <2>3 DEF ConsumedInv
  <2>10. QED
    BY <2>2, <2>6, <2>7, <2>8, <2>9 DEF ConsumedInv, Smaller
<1>7. CASE Vpu_Answer
  <2>1. UNCHANGED <<call, pc>>
    BY <1>7 DEF Vpu_Answer
  <2>2. QED
    BY <2>1 DEF ConsumedInv
<1>8. QED
  BY <1>1, <1>2, <1>3, <1>4, <1>5, <1>6, <1>7 DEF Next, Process

------------------------------------------------------------------------------
(* A call and its answer.                                                  *)

LEMMA Queues ==
  ASSUME DataOK
  PROVE  /\ Len(waiting) \in Nat /\ Len(answers) \in Nat /\ Held \in Nat
         /\ Len(waiting) = 0 <=> waiting = <<>>
         /\ Len(answers) = 0 <=> answers = <<>>
         /\ DOMAIN waiting = 1..Len(waiting) /\ DOMAIN answers = 1..Len(answers)
BY LenProperties, EmptySeq DEF DataOK, Held

LEMMA CallTimely ==
  ASSUME VdecConstants, VdecInv, Timely, Call
  PROVE  Timely'
<1>1. pc = "idle" /\ DataOK
  BY DEF Call, vdec_init_Call, vdec_seq_header_Call, vdec_decode_Call, vdec_buf_clear_Call,
     vdec_drain_Call, vdec_flush_Call, vdec_close_Call, Send, Crash, VdecInv
<1>2. /\ Len(waiting) = 0 /\ Len(answers) = 0 /\ slow = 0 /\ Held = 0
      /\ DOMAIN waiting = {} /\ DOMAIN answers = {}
  BY <1>1, Queues DEF Timely, Held
<1>3. MaxSlow \in Nat
  BY ConstantTypes
<1>4. ASSUME NEW fn \in Fns, NEW size \in Nat, NEW sent \in Nat, NEW off \in Int,
             Sends(fn, size, sent, off)
      PROVE  Timely'
  <2>1. /\ pc' = "poll" /\ call'.fn = fn /\ call'.answer = NoAnswer
        /\ retry_cnt' = 2 /\ all_retry_cnt' = 3 /\ slow' = 0
        /\ answers' \in Seq(AnswerSet) /\ Len(answers') = 0
        /\ Len(waiting') \in {0, 1}
        /\ \A i \in DOMAIN waiting' : waiting'[i] = [fn |-> fn, mine |-> TRUE]
    BY <1>1, <1>2, <1>4, SendFacts DEF Sends
  <2>2. DOMAIN answers' = {}
    BY <2>1, LenProperties
  <2>3. Held' <= 1
    <3>1. Held' = Len(waiting') + Len(answers')
      BY DEF Held
    <3>2. Len(answers') = 0 /\ (Len(waiting') = 0 \/ Len(waiting') = 1)
      BY <2>1
    <3>3. QED
      BY <3>1, <3>2
  <2>4. ASSUME NEW i \in DOMAIN waiting'
        PROVE  /\ waiting'[i].fn = call'.fn /\ waiting'[i].mine
               /\ slow' = 6 - PollsLeft'
    BY <2>1, <2>4 DEF PollsLeft
  <2>5. QED
    BY <1>3, <2>1, <2>2, <2>3, <2>4 DEF Timely
<1>5. CASE ClearsNothing
  <2>1. /\ UNCHANGED <<pc, retry_cnt, all_retry_cnt, waiting, answers, slow>>
        /\ call'.answer = NoAnswer
    BY <1>5 DEF ClearsNothing, cmdvars, drvvars, NoCall
  <2>2. QED
    BY <1>1, <1>2, <1>3, <2>1 DEF Timely, Held
<1>6. CASE Crashes
  <2>1. /\ UNCHANGED <<retry_cnt, all_retry_cnt, waiting, answers, slow>>
        /\ pc' = "crashed" /\ call'.answer = NoAnswer
    BY <1>6, CrashCall DEF Crashes, cmdvars, drvvars
  <2>2. QED
    BY <1>1, <1>2, <1>3, <2>1 DEF Timely, Held
<1>7. QED
  BY <1>1, <1>4, <1>5, <1>6, CallSends

LEMMA PollTimely ==
  ASSUME VdecConstants, VdecInv, Timely, Poll_In \/ Poll_Timeout \/ Poll_End
  PROVE  Timely'
<1>1. /\ UNCHANGED <<call, all_retry_cnt, waiting, answers>>
      /\ pc = "poll" /\ pc' \in {"poll", "result"}
  BY PollKeeps
<1>2. /\ retry_cnt \in 0..2 /\ all_retry_cnt \in 0..3 /\ slow \in Nat /\ MaxSlow \in Nat
  BY ConstantTypes DEF VdecInv, DataOK
<1>3. /\ Len(waiting) \in Nat /\ Len(answers) \in Nat
      /\ Len(waiting) = 0 <=> waiting = <<>>
      /\ Len(answers) = 0 <=> answers = <<>>
      /\ DOMAIN waiting = 1..Len(waiting)
  BY Queues DEF VdecInv
<1>4. /\ slow' <= MaxSlow /\ (waiting = <<>> => slow' = 0)
      /\ \A i \in DOMAIN waiting :
           slow' = 6 - PollsLeft' /\ (pc' = "result" => retry_cnt' = 0)
  <2>1. CASE Poll_In
    <3>1. answers # <<>> /\ UNCHANGED <<slow, retry_cnt, all_retry_cnt>>
      BY <2>1 DEF Poll_In, drvvars
    <3>2. Len(waiting) = 0
      BY <1>3, <3>1 DEF Timely, Held
    <3>3. QED
      BY <1>3, <3>1, <3>2 DEF Timely
  <2>2. CASE Poll_Timeout
    <3>1. /\ waiting = <<>> \/ slow < MaxSlow
          /\ slow' = IF waiting = <<>> THEN slow ELSE slow + 1
          /\ retry_cnt' = retry_cnt - 1 /\ UNCHANGED <<pc, all_retry_cnt>>
      BY <2>2 DEF Poll_Timeout
    <3>2. QED
      BY <1>1, <1>2, <1>3, <3>1 DEF Timely, PollsLeft
  <2>3. CASE Poll_End
    <3>1. retry_cnt = 0 /\ UNCHANGED <<slow, retry_cnt, all_retry_cnt>>
      BY <2>3 DEF Poll_End, cmdvars, drvvars
    <3>2. QED
      BY <1>1, <1>2, <1>3, <3>1 DEF Timely, PollsLeft
  <2>4. QED
    BY <2>1, <2>2, <2>3
<1>5. QED
  BY <1>1, <1>4 DEF Timely, Held

(* The one answer of a call is its own.                                    *)
LEMMA FilledIsOwn ==
  ASSUME VdecConstants, VdecInv, Timely
  PROVE  /\ Filled # NoAnswer => Filled.mine
         /\ \A j \in DOMAIN Rest : Rest[j].fn = call.fn /\ Rest[j].mine
<1>1. DataOK
  BY DEF VdecInv
<1>2. Answer # NoAnswer => Answer.mine
  <2>1. CASE Fetched = {}
    BY <2>1 DEF Answer
  <2>2. CASE Fetched # {}
    BY <1>1, <2>2, AnswerFetched DEF Timely
  <2>3. QED
    BY <2>1, <2>2
<1>3. \A j \in DOMAIN Rest : \E k \in DOMAIN answers : Rest[j] = answers[k]
  BY <1>1, FetchTypes
<1>4. QED
  BY <1>2, <1>3 DEF Filled, Timely

(* A call ends with its answer, or when the VPU has none to give: it would *)
(* have let six polls go by.                                               *)
LEMMA NothingLeftBehind ==
  ASSUME VdecConstants, MaxSlow <= 5, VdecInv, Timely, pc = "result",
         NotProcessed => all_retry_cnt <= 1
  PROVE  Len(waiting) = 0 /\ Len(Rest) = 0
<1>1. DataOK /\ retry_cnt \in 0..2 /\ all_retry_cnt \in 0..3 /\ slow \in Nat /\ MaxSlow \in Nat
  BY ConstantTypes DEF VdecInv, DataOK
<1>2. /\ Len(waiting) \in Nat /\ Len(answers) \in Nat /\ Len(waiting) + Len(answers) <= 1
      /\ DOMAIN waiting = 1..Len(waiting) /\ DOMAIN answers = 1..Len(answers)
  BY <1>1, Queues DEF Timely, Held
<1>3. Rest \in Seq(AnswerSet) /\ Len(Rest) <= Len(answers) /\ Len(Rest) \in Nat
  BY <1>1, FetchTypes, LenProperties
<1>4. Len(waiting) = 0
  <2>1. SUFFICES ASSUME Len(waiting) = 1 PROVE FALSE
    BY <1>2
  <2>2. Len(answers) = 0 /\ 1 \in DOMAIN waiting
    BY <1>2, <2>1
  <2>3. Fetched = {}
    BY <1>2, <2>2 DEF Fetched
  <2>4. NotProcessed
    BY <2>3 DEF NotProcessed, Answer, AnswerRet, NoAnswer
  <2>5. all_retry_cnt = 1 /\ retry_cnt = 0 /\ slow = 6 - PollsLeft
    BY <1>1, <2>2, <2>4 DEF Timely
  <2>6. slow = 6
    BY <2>5 DEF PollsLeft
  <2>7. QED
    BY <1>1, <2>6 DEF Timely
<1>5. Len(Rest) = 0
  <2>1. SUFFICES ASSUME Len(answers) = 1 PROVE Len(Rest) = 0
    BY <1>2, <1>3
  <2>2. 1 \in DOMAIN answers /\ answers[1].fn = call.fn
    BY <1>2, <2>1 DEF Timely
  <2>3. 1 \in Fetched
    BY <2>2 DEF Fetched
  <2>4. Len(Rest) = Len(answers) - 1
    BY <1>1, <2>3, AnswerFetched
  <2>5. QED
    BY <2>1, <2>4
<1>6. QED
  BY <1>4, <1>5

LEMMA ResultTimely ==
  ASSUME VdecConstants, MaxSlow <= 5, VdecInv, Timely, pc # "unfetched",
         \/ Result_Retry
         \/ \E fn \in Fns, ret \in CallRets, pic \in Pictures \cup {None} : Return(fn, ret, pic)
  PROVE  Timely'
<1>1. DataOK /\ retry_cnt \in 0..2 /\ all_retry_cnt \in 0..3 /\ slow \in Nat
  BY DEF VdecInv, DataOK
<1>2. /\ Len(waiting) \in Nat /\ Len(answers) \in Nat
      /\ DOMAIN waiting = 1..Len(waiting)
  BY <1>1, Queues
<1>3. /\ Rest \in Seq(AnswerSet) /\ Len(Rest) <= Len(answers) /\ Len(Rest) \in Nat
      /\ DOMAIN Rest = 1..Len(Rest)
  BY <1>1, FetchTypes, LenProperties
<1>4. CASE Result_Retry
  <2>1. /\ UNCHANGED <<waiting, slow>> /\ pc = "result" /\ pc' = "poll" /\ all_retry_cnt \in 2..3
        /\ all_retry_cnt' = all_retry_cnt - 1 /\ retry_cnt' = 2 /\ answers' = Rest
        /\ call'.fn = call.fn /\ call'.answer = Filled
    BY <1>4, RetryKeeps DEF Polled
  <2>2. Held' <= 1
    BY <1>2, <1>3, <2>1 DEF Timely, Held
  <2>3. ASSUME NEW i \in DOMAIN waiting PROVE slow' = 6 - PollsLeft'
    BY <1>1, <2>1 DEF Timely, PollsLeft
  <2>4. QED
    BY <2>1, <2>2, <2>3, FilledIsOwn DEF Timely
<1>5. ASSUME NEW fn \in Fns, NEW ret \in CallRets, NEW pic \in Pictures \cup {None},
             Return(fn, ret, pic)
      PROVE  Timely'
  <2>1. /\ pc = "result" /\ pc' = "idle" /\ (NotProcessed => all_retry_cnt <= 1)
        /\ call'.answer = Filled /\ answers' = Rest /\ UNCHANGED <<waiting, slow>>
    BY <1>1, <1>5, ReturnFacts DEF Polled
  <2>2. Len(waiting) = 0 /\ Len(Rest) = 0
    BY <2>1, NothingLeftBehind
  <2>3. DOMAIN waiting = {} /\ DOMAIN Rest = {} /\ Held' = 0
    BY <1>2, <1>3, <2>1, <2>2 DEF Held
  <2>4. QED
    BY <2>1, <2>3, FilledIsOwn DEF Timely
<1>6. QED
  BY <1>4, <1>5

(* Only an allocation and a new process forget that a poll or a *_RESULT   *)
(* failed.                                                                 *)
LEMMA ErredKept ==
  ASSUME [Next]_vars, ~vdec_alloc_instance, ~Restart, ~erred'
  PROVE  ~erred /\ ~Poll_Err /\ ~Result_Fails
<1>1. ~Poll_Err /\ ~Result_Fails
  BY DEF Poll_Err, Result_Fails
<1>2. CASE UNCHANGED vars
  BY <1>1, <1>2 DEF vars
<1>3. CASE Call
  <2>1. UNCHANGED erred
    BY <1>3 DEF Call, vdec_init_Call, vdec_seq_header_Call, vdec_decode_Call,
       vdec_buf_clear_Call, vdec_drain_Call, vdec_flush_Call, vdec_close_Call, Send, Crash
  <2>2. QED
    BY <1>1, <2>1
<1>4. CASE vdec_release_instance \/ Poll_In \/ Poll_Timeout \/ Poll_End \/ Result_Retry
           \/ Vpu_Answer
  <2>1. UNCHANGED erred
    BY <1>4 DEF vdec_release_instance, Poll_In, Poll_Timeout, Poll_End, Result_Retry, Vpu_Answer
  <2>2. QED
    BY <1>1, <2>1
<1>5. CASE \/ vdec_init_Return \/ vdec_seq_header_Return \/ vdec_decode_Return
           \/ vdec_drain_Return \/ vdec_flush_Return \/ vdec_buf_clear_Return
           \/ vdec_close_Return
  <2>1. UNCHANGED erred
    BY <1>5 DEF vdec_init_Return, vdec_seq_header_Return, vdec_decode_Return,
       vdec_drain_Return, vdec_flush_Return, vdec_buf_clear_Return, vdec_close_Return, Return
  <2>2. QED
    BY <1>1, <2>1
<1>6. QED
  BY <1>1, <1>2, <1>3, <1>4, <1>5 DEF Next, Process

LEMMA UnfetchedErred ==
  ASSUME VdecConstants, VdecInv, pc = "unfetched" => erred, [Next]_vars
  PROVE  pc' = "unfetched" => erred'
<1>1. CASE UNCHANGED vars
  BY <1>1 DEF vars
<1>2. CASE vdec_alloc_instance \/ vdec_release_instance \/ Restart \/ Call \/ Vpu_Answer
  BY <1>2 DEF vdec_alloc_instance, vdec_release_instance, Restart, Call, vdec_init_Call,
     vdec_seq_header_Call, vdec_decode_Call, vdec_buf_clear_Call, vdec_drain_Call,
     vdec_flush_Call, vdec_close_Call, Send, Crash, Vpu_Answer
<1>3. CASE Poll_In \/ Poll_Timeout \/ Poll_End \/ Poll_Err \/ Result_Fails \/ Result_Retry
  BY <1>3, PollKeeps, UnfetchedKeeps, RetryKeeps
<1>4. CASE \/ vdec_init_Return \/ vdec_seq_header_Return \/ vdec_decode_Return
           \/ vdec_drain_Return \/ vdec_flush_Return \/ vdec_buf_clear_Return
           \/ vdec_close_Return
  BY <1>4 DEF vdec_init_Return, vdec_seq_header_Return, vdec_decode_Return,
     vdec_drain_Return, vdec_flush_Return, vdec_buf_clear_Return, vdec_close_Return, Return
<1>5. QED
  BY <1>1, <1>2, <1>3, <1>4 DEF Next, Process

LEMMA TimelyStep ==
  ASSUME VdecConstants, MaxSlow <= 5, VdecInv, TimelyInv, [Next]_vars
  PROVE  TimelyInv'
<1> SUFFICES ASSUME ~erred' PROVE Timely'
  BY UnfetchedErred DEF TimelyInv
<1>0. ~vdec_alloc_instance /\ ~Restart =>
        Timely /\ pc # "unfetched" /\ ~Poll_Err /\ ~Result_Fails
  BY ErredKept DEF TimelyInv
<1>7. CASE Restart
  <2>1. /\ pc' = "idle" /\ waiting' = <<>> /\ answers' = <<>> /\ slow' = 0
        /\ call'.answer = NoAnswer
    BY <1>7 DEF Restart, NoCall
  <2>2. Held' = 0 /\ MaxSlow \in Nat
    BY <2>1, EmptySeq, ConstantTypes DEF Held
  <2>3. QED
    BY <2>1, <2>2 DEF Timely
<1>1. CASE UNCHANGED vars
  <2>1. CASE vdec_alloc_instance
    <3>1. stage = "none" /\ pc = "idle" /\ UNCHANGED <<waiting, answers, slow, call, pc>>
      BY <1>1, <2>1 DEF vars, drvvars, vdec_alloc_instance
    <3>2. waiting = <<>> /\ answers = <<>> /\ slow = 0 /\ call.answer = NoAnswer
      BY <2>1, <3>1 DEF vdec_alloc_instance, NoCall
    <3>3. Held' = 0 /\ MaxSlow \in Nat
      BY <3>1, <3>2, EmptySeq, ConstantTypes DEF Held
    <3>4. QED
      BY <3>1, <3>2, <3>3 DEF Timely
  <2>2. QED
    BY <1>0, <1>1, <1>7, <2>1 DEF vars, cmdvars, drvvars, Timely, Held, PollsLeft
<1>2. CASE vdec_alloc_instance
  <2>1. /\ pc = "idle" /\ pc' = "idle" /\ waiting' = <<>> /\ answers' = <<>> /\ slow' = 0
        /\ call'.answer = NoAnswer
    BY <1>2 DEF vdec_alloc_instance, NoCall
  <2>2. Held' = 0 /\ MaxSlow \in Nat
    BY <2>1, EmptySeq, ConstantTypes DEF Held
  <2>3. QED
    BY <2>1, <2>2 DEF Timely
<1> SUFFICES ASSUME Timely, pc # "unfetched", ~Poll_Err, ~Result_Fails, Next PROVE Timely'
  BY <1>0, <1>1, <1>2, <1>7
<1>3. CASE vdec_release_instance
  BY <1>3 DEF vdec_release_instance, cmdvars, drvvars, Timely, Held, PollsLeft
<1>4. CASE Vpu_Answer
  <2>1. PICK a \in AnswerSet :
          /\ waiting # <<>> /\ answers' = Append(answers, a) /\ waiting' = Tail(waiting)
          /\ a.fn = Head(waiting).fn /\ a.mine = Head(waiting).mine
          /\ slow' = 0 /\ UNCHANGED <<libvars, pc, call, cmdvars, mapvars>>
    BY <1>4, VpuFacts DEF VdecInv
  <2>2. /\ waiting \in Seq(CommandSet) /\ answers \in Seq(AnswerSet)
        /\ Len(waiting) = 1 /\ Len(answers) = 0 /\ DOMAIN waiting = 1..1
    <3>1. DataOK
      BY DEF VdecInv
    <3>2. /\ Len(waiting) \in Nat \ {0} /\ Len(answers) \in Nat
          /\ DOMAIN waiting = 1..Len(waiting)
      BY <2>1, <3>1, Queues
    <3>3. Len(waiting) + Len(answers) <= 1
      BY DEF Timely, Held
    <3>4. Len(waiting) = 1 /\ Len(answers) = 0
      BY <3>2, <3>3
    <3>5. QED
      BY <3>1, <3>2, <3>4 DEF DataOK
  <2>3. /\ Head(waiting) = waiting[1] /\ a.fn = call.fn /\ a.mine
    BY <2>1, <2>2, HeadTailProperties DEF Timely
  <2>4. waiting' \in Seq(CommandSet) /\ Len(waiting') = 0
    BY <2>1, <2>2, HeadTailProperties
  <2>5. answers' \in Seq(AnswerSet) /\ Len(answers') = 1 /\ answers'[1] = a
    BY <2>1, <2>2, AppendProperties
  <2>6. DOMAIN waiting' = {} /\ DOMAIN answers' = 1..1
    BY <2>4, <2>5, LenProperties
  <2>7. Held' = 1 /\ Held = 1 /\ MaxSlow \in Nat
    BY <2>2, <2>4, <2>5, ConstantTypes DEF Held
  <2>8. QED
    BY <2>1, <2>3, <2>5, <2>6, <2>7 DEF Timely, cmdvars
<1>5. CASE \/ vdec_init_Return \/ vdec_seq_header_Return \/ vdec_decode_Return
           \/ vdec_drain_Return \/ vdec_flush_Return \/ vdec_buf_clear_Return
           \/ vdec_close_Return
  <2>1. \E fn \in Fns, ret \in CallRets, pic \in Pictures \cup {None} : Return(fn, ret, pic)
    BY <1>5, ReturnsReturn DEF ReturnsWith, VdecInv
  <2>2. QED
    BY <2>1, ResultTimely
<1>6. QED
  BY <1>2, <1>3, <1>4, <1>5, <1>7, CallTimely, PollTimely, ResultTimely DEF Next, Process

(* As long as the VPU ends a command within the six polls of a call, what  *)
(* a call of the library answers is its own: no result of an earlier       *)
(* command is taken unless a poll or a *_RESULT failed before; a picture   *)
(* is that of the answer taken, and a packet reported decoded went to the  *)
(* VPU, with errors too.                                                   *)
THEOREM AnswersAreOwn ==
  ASSUME VdecConstants, MaxSlow <= 5
  PROVE  Spec => []V3AnswerIsOwn
<1>1. Init => VdecInv /\ ConsumedInv /\ TimelyInv
  <2>1. ASSUME Init PROVE ConsumedInv /\ TimelyInv
    <3>1. Held = 0 /\ MaxSlow \in Nat
      BY <2>1, InitiallyVdec, ConstantTypes
    <3>2. QED
      BY <2>1, <3>1 DEF Init, ConsumedInv, TimelyInv, Timely, NoCall, None
  <2>2. QED
    BY <2>1, InitiallyVdec
<1>2. VdecInv /\ ConsumedInv /\ TimelyInv /\ [Next]_vars => VdecInv' /\ ConsumedInv' /\ TimelyInv'
  BY VdecStep, ConsumedStep, TimelyStep DEF VdecInv
<1>3. VdecInv /\ ConsumedInv /\ TimelyInv => V3AnswerIsOwn
  <2>1. ASSUME VdecInv, ConsumedInv, TimelyInv
        PROVE  AnswerIsOwn /\ PictureOfThisPacket /\ ConsumedWasSent
    BY <2>1 DEF AnswerIsOwn, Answered, PictureOfThisPacket, ConsumedWasSent, ConsumedInv,
       TimelyInv, Timely
  <2>2. QED
    BY <2>1 DEF V3AnswerIsOwn
<1>4. QED
  BY <1>1, <1>2, <1>3, PTL DEF Spec

==============================================================================
