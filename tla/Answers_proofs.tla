----------------------------- MODULE Answers_proofs ------------------------------
(***************************************************************************)
(* Proofs about Answers.  Of VideoDecoderV3 in it: as long as the driver   *)
(* answers a decode with a picture, a full pool or a failure, library and  *)
(* driver agree on who owns a frame buffer, a picture that is handed out   *)
(* comes with its own record, and the decoder implements SurfaceFrames,    *)
(* for any pool, window, reordering and stream.  What the wrapper makes of *)
(* the other answers breaks all three (README, section 3).  Then of the    *)
(* loops that wait for an answer, and of frame skipping, for all their     *)
(* bounds and streams.                                                     *)
(***************************************************************************)
EXTENDS Answers, SequenceTheorems, FiniteSetTheorems, TLAPS

(* What the answers of the driver are assumed to be.                       *)
PlainAnswers == Outcomes \subseteq {"frame", "buf_full", "fail"}

------------------------------------------------------------------------------
(* The inductive invariant.                                                *)

BufferStates == {"none", "free", "writing", "decoded", "shown"}
Idx == Frames \cup {NoIdx}
OutSet == [ret : {"None", "GetOutputFrame"}, idx : Idx, ts : Nat, record : Nat]
OutputSet == [ret : {"SUCCESS", "NOT_CONSUMED", "NEED_MORE", "FINISH", "FAIL"},
              status : AllOutcomes \cup {"none"}, decoded : Idx, disp : Idx]

(* The types, and that no clock is ever queued.                            *)
DataOK ==
  /\ life \in {"created", "inited", "ready"} /\ pc \in {"idle", "wait", "done"}
  /\ pkt \in Nat /\ uiNumOutputFrames \in Nat /\ iMaxIndexCnt \in Nat
  /\ clocks = {}
  /\ decFrames \in [Frames -> Seq(Nat)] /\ listDisplay \in Seq(Frames)
  /\ out \in OutSet /\ output \in OutputSet
  /\ buf \in [Frames -> BufferStates]
  /\ job \in Idx /\ ptsOf \in [Frames -> Nat] /\ lastShown \in Nat

(* What a decoder has before its sequence header and after Deinit.         *)
LifeInv ==
  /\ life # "created" => uiNumOutputFrames \in SurfaceChoices
  /\ life = "ready" => iMaxIndexCnt = uiNumOutputFrames
  /\ life # "ready" => /\ pc = "idle" /\ listDisplay = <<>> /\ out = NoPicture
                       /\ \A f \in Frames : buf[f] = "none"

(* One command at a time, and what its answer says.                        *)
AnswerInv ==
  /\ pc # "wait" => job = NoIdx
  /\ \A f \in Frames : buf[f] = "writing" <=> f = job
  /\ pc # "idle" => out = NoPicture
  /\ pc = "done" =>
       \/ output.ret = "FAIL" /\ output.status # "frame" /\ output.disp = NoIdx
       \/ /\ output.ret = "SUCCESS"
          /\ output.status = "frame" =>
               output.decoded \in Frames /\ buf[output.decoded] \in {"decoded", "shown"}

NoDup(seq) == \A i, j \in 1..Len(seq) : seq[i] = seq[j] => i = j

(* The window has room for the picture of the command that is under way.   *)
WindowInv ==
  /\ NoDup(listDisplay)
  /\ Len(listDisplay) <= iMaxIndexCnt
  /\ pc # "idle" => Len(listDisplay) < iMaxIndexCnt

Lent ==
  /\ \A f \in Frames : buf[f] = "shown" <=> f \in Elems(listDisplay) \cup Undelivered
  /\ Undelivered \cap Elems(listDisplay) = {}

(* A decoded picture is recorded once its answer is handled.               *)
Recorded(f) ==
  /\ buf[f] \in {"decoded", "shown"}
  /\ ~(pc = "done" /\ output.status = "frame" /\ output.decoded = f)

RecordInv ==
  /\ \A f \in Frames : decFrames[f] = IF Recorded(f) THEN <<ptsOf[f]>> ELSE <<>>
  /\ OwnRecord

IndInv == DataOK /\ LifeInv /\ AnswerInv /\ WindowInv /\ Lent /\ RecordInv

------------------------------------------------------------------------------
(* Constants and lists.                                                    *)

LEMMA Numbers ==
  ASSUME V3Constants
  PROVE  /\ SurfaceChoices \subseteq Nat \ {0} /\ MaxPts \in Nat
         /\ \A f \in Frames : f \in Nat /\ f # NoIdx
BY DEF V3Constants, Frames, NoIdx

LEMMA NoPictureType == NoPicture \in OutSet /\ NoOutput \in OutputSet
BY DEF NoPicture, OutSet, NoOutput, OutputSet, Idx, AllOutcomes

LEMMA EmptyList == Elems(<<>>) = {} /\ NoDup(<<>>) /\ Len(<<>>) = 0
BY DEF Elems, NoDup

LEMMA AppendedList ==
  ASSUME NEW S, NEW s \in Seq(S), NEW e \in S
  PROVE  /\ Elems(Append(s, e)) = Elems(s) \cup {e}
         /\ Append(s, e) \in Seq(S) /\ Len(Append(s, e)) = Len(s) + 1
         /\ NoDup(s) /\ e \notin Elems(s) => NoDup(Append(s, e))
BY AppendProperties DEF Elems, NoDup

LEMMA ShortenedList ==
  ASSUME NEW S, NEW s \in Seq(S), s # <<>>
  PROVE  /\ Tail(s) \in Seq(S) /\ Len(Tail(s)) = Len(s) - 1 /\ Head(s) \in S
         /\ Elems(s) = {Head(s)} \cup Elems(Tail(s))
         /\ NoDup(s) => NoDup(Tail(s)) /\ Head(s) \notin Elems(Tail(s))
BY HeadTailProperties DEF Elems, NoDup

(* Out of a full window exactly the oldest picture leaves, and none out of *)
(* a window with room.                                                     *)
LEMMA OldestLeaves ==
  ASSUME V3Constants, IndInv, life = "ready"
  PROVE  LET left == SubSeq(listDisplay, Len(Leaving) + 1, Len(listDisplay))
         IN \/ /\ Len(listDisplay) < iMaxIndexCnt
               /\ left = listDisplay /\ \A f \in Frames : Releases(f) = 0
            \/ /\ listDisplay # <<>> /\ Len(listDisplay) = iMaxIndexCnt
               /\ left = Tail(listDisplay)
               /\ \A f \in Frames : Releases(f) = IF f = Head(listDisplay) THEN 1 ELSE 0
<1>1. /\ iMaxIndexCnt \in Nat \ {0} /\ Len(listDisplay) \in Nat
      /\ listDisplay \in Seq(Frames) /\ Len(listDisplay) <= iMaxIndexCnt
  BY Numbers, LenProperties DEF IndInv, DataOK, LifeInv, WindowInv
<1>2. CASE Len(listDisplay) < iMaxIndexCnt
  <2>1. Leaving = <<>>
    BY <1>1, <1>2 DEF Leaving
  <2>2. SubSeq(listDisplay, Len(Leaving) + 1, Len(listDisplay)) = listDisplay
    BY <1>1, <2>1, SubSeqFull, EmptyList
  <2>3. ASSUME NEW f \in Frames PROVE Releases(f) = 0
    <3>1. { i \in 1..Len(Leaving) : Leaving[i] = f } = {}
      BY <2>1, EmptyList
    <3>2. QED
      BY <3>1, FS_EmptySet DEF Releases
  <2>4. QED
    BY <1>2, <2>2, <2>3
<1>3. CASE Len(listDisplay) = iMaxIndexCnt
  <2>1. listDisplay # <<>>
    BY <1>1, <1>3, EmptyList
  <2>2. Leaving = SubSeq(listDisplay, 1, 1)
    <3>1. Len(listDisplay) - iMaxIndexCnt + 1 = 1
      BY <1>1, <1>3
    <3>2. QED
      BY <1>1, <1>3, <3>1 DEF Leaving
  <2>3. Len(Leaving) = 1 /\ Leaving[1] = listDisplay[1]
    <3>1. \A i \in 1..1 : listDisplay[i] \in Frames
      BY <1>1, <1>3, ElementOfSeq
    <3>2. QED
      BY <2>2, <3>1, SubSeqProperties
  <2>4. Head(listDisplay) = listDisplay[1]
    BY <1>1, <2>1
  <2>5. SubSeq(listDisplay, Len(Leaving) + 1, Len(listDisplay)) = Tail(listDisplay)
    <3>1. Len(Leaving) + 1 = 2
      BY <2>3
    <3>2. QED
      BY <1>1, <2>1, <3>1, TailIsSubSeq
  <2>6. ASSUME NEW f \in Frames
        PROVE  Releases(f) = IF f = Head(listDisplay) THEN 1 ELSE 0
    <3>1. CASE f = Head(listDisplay)
      <4>1. { i \in 1..Len(Leaving) : Leaving[i] = f } = {1}
        BY <2>3, <2>4, <3>1
      <4>2. QED
        BY <3>1, <4>1, FS_Singleton DEF Releases
    <3>2. CASE f # Head(listDisplay)
      <4>1. { i \in 1..Len(Leaving) : Leaving[i] = f } = {}
        BY <2>3, <2>4, <3>2
      <4>2. QED
        BY <3>2, <4>1, FS_EmptySet DEF Releases
    <3>3. QED
      BY <3>1, <3>2
  <2>7. QED
    BY <1>3, <2>1, <2>5, <2>6
<1>4. QED
  BY <1>1, <1>2, <1>3

------------------------------------------------------------------------------
(* The invariant is inductive.                                             *)

LEMMA InitInd == ASSUME V3Constants PROVE Init => IndInv
<1> SUFFICES ASSUME Init PROVE IndInv
  OBVIOUS
<1> USE DEF Init
<1>1. <<>> \in Seq(Frames) /\ <<>> \in Seq(Nat)
  BY EmptySeq
<1>2. DataOK
  <2>1. out \in OutSet /\ output \in OutputSet
    BY NoPictureType
  <2>2. decFrames \in [Frames -> Seq(Nat)] /\ listDisplay \in Seq(Frames)
    BY <1>1
  <2>3. buf \in [Frames -> BufferStates]
    BY DEF BufferStates
  <2>4. QED
    BY <2>1, <2>2, <2>3 DEF DataOK, Idx
<1>3. LifeInv /\ AnswerInv
  BY Numbers DEF LifeInv, AnswerInv
<1>4. WindowInv /\ Lent
  BY EmptyList DEF WindowInv, Lent, Undelivered
<1>5. RecordInv
  BY DEF RecordInv, Recorded, OwnRecord, NoPicture
<1>6. QED
  BY <1>2, <1>3, <1>4, <1>5 DEF IndInv

(* Init, DecodeSequenceHeader and Deinit find and leave no picture.        *)
LEMMA ApplicationInd ==
  ASSUME V3Constants, IndInv, Application
  PROVE  IndInv'
<1>1. ASSUME NEW n \in SurfaceChoices, VideoDecoder_Init(n)
      PROVE  IndInv'
  <2>1. /\ life = "created" /\ life' = "inited" /\ uiNumOutputFrames' = n /\ clocks' = {}
        /\ ptsOf' = [f \in Frames |-> 0] /\ lastShown' = 0
        /\ UNCHANGED <<pc, pkt, decFrames, out, iMaxIndexCnt, listDisplay, output, buf, job>>
    BY <1>1 DEF VideoDecoder_Init
  <2>2. n \in Nat
    BY Numbers
  <2>3. DataOK'
    BY <2>1, <2>2 DEF IndInv, DataOK
  <2>4. LifeInv' /\ AnswerInv' /\ WindowInv'
    BY <2>1 DEF IndInv, LifeInv, AnswerInv, WindowInv
  <2>5. Lent'
    BY <2>1 DEF IndInv, Lent, Undelivered
  <2>6. RecordInv'
    <3>1. \A f \in Frames : buf[f] = "none" /\ decFrames[f] = <<>>
      BY <2>1 DEF IndInv, LifeInv, RecordInv, Recorded
    <3>2. out = NoPicture
      BY <2>1 DEF IndInv, LifeInv
    <3>3. QED
      BY <2>1, <3>1, <3>2 DEF RecordInv, Recorded, OwnRecord, NoPicture
  <2>7. QED
    BY <2>3, <2>4, <2>5, <2>6 DEF IndInv
<1>2. ASSUME VideoDecoder_DecodeSequenceHeader
      PROVE  IndInv'
  <2>1. /\ life = "inited" /\ life' = "ready" /\ iMaxIndexCnt' = uiNumOutputFrames
        /\ buf' = [f \in Frames |-> IF f < PoolSize THEN "free" ELSE "none"]
        /\ UNCHANGED <<pc, pkt, uiNumOutputFrames, clocks, decFrames, out, listDisplay>>
        /\ UNCHANGED <<output, job, ptsOf, lastShown>>
    BY <1>2 DEF VideoDecoder_DecodeSequenceHeader, lists
  <2>2. /\ pc = "idle" /\ listDisplay = <<>> /\ out = NoPicture /\ job = NoIdx
        /\ uiNumOutputFrames \in Nat \ {0} /\ \A f \in Frames : buf[f] = "none"
    BY <2>1, Numbers DEF IndInv, LifeInv, AnswerInv
  <2>3. /\ buf' \in [Frames -> BufferStates]
        /\ \A f \in Frames : buf'[f] \in {"free", "none"}
    BY <2>1 DEF BufferStates
  <2>4. DataOK'
    BY <2>1, <2>2, <2>3 DEF IndInv, DataOK
  <2>5. LifeInv' /\ AnswerInv' /\ WindowInv'
    BY <2>1, <2>2, <2>3, Numbers, EmptyList DEF IndInv, LifeInv, AnswerInv, WindowInv
  <2>6. Lent'
    BY <2>1, <2>2, <2>3, EmptyList DEF Lent, Undelivered
  <2>7. RecordInv'
    BY <2>1, <2>2, <2>3 DEF IndInv, RecordInv, Recorded, OwnRecord, NoPicture
  <2>8. QED
    BY <2>4, <2>5, <2>6, <2>7 DEF IndInv
<1>3. ASSUME VideoDecoder_Deinit
      PROVE  IndInv'
  <2>1. /\ pc = "idle" /\ life' = "created" /\ listDisplay' = <<>> /\ out' = NoPicture
        /\ decFrames' = [f \in Frames |-> <<>>] /\ buf' = [f \in Frames |-> "none"]
        /\ UNCHANGED <<pc, pkt, uiNumOutputFrames, clocks, iMaxIndexCnt, output, job>>
        /\ UNCHANGED <<ptsOf, lastShown>>
    BY <1>3 DEF VideoDecoder_Deinit, EmptiedDisplay
  <2>2. job = NoIdx
    BY <2>1 DEF IndInv, AnswerInv
  <2>3. /\ buf' \in [Frames -> BufferStates] /\ \A f \in Frames : buf'[f] = "none"
        /\ decFrames' \in [Frames -> Seq(Nat)] /\ listDisplay' \in Seq(Frames)
        /\ out' \in OutSet
    BY <2>1, NoPictureType, EmptySeq DEF BufferStates
  <2>4. DataOK'
    BY <2>1, <2>3 DEF IndInv, DataOK
  <2>5. LifeInv' /\ AnswerInv'
    BY <2>1, <2>2, <2>3, Numbers DEF LifeInv, AnswerInv
  <2>6. WindowInv'
    BY <2>1, EmptyList DEF IndInv, DataOK, WindowInv
  <2>7. Lent' /\ RecordInv'
    BY <2>1, <2>3, EmptyList DEF Lent, Undelivered, RecordInv, Recorded, OwnRecord, NoPicture
  <2>8. QED
    BY <2>4, <2>5, <2>6, <2>7 DEF IndInv
<1>4. QED
  BY <1>1, <1>2, <1>3 DEF Application

(* A new packet: the picture that leaves a full window goes back with its  *)
(* record.                                                                 *)
LEMMA SendInd ==
  ASSUME V3Constants, IndInv, NEW p \in NextPackets, Decode_Send(p)
  PROVE  IndInv'
<1>1. /\ life = "ready" /\ pc = "idle" /\ pc' = "wait" /\ pkt' = p
      /\ listDisplay' = SubSeq(listDisplay, Len(Leaving) + 1, Len(listDisplay))
      /\ decFrames' = [f \in Frames |-> RecordsLeft(f)]
      /\ buf' = [f \in Frames |-> IF Releases(f) > 0 /\ buf[f] = "shown" THEN "free" ELSE buf[f]]
      /\ out' = NoPicture
      /\ UNCHANGED <<life, uiNumOutputFrames, iMaxIndexCnt, clocks, output, job, ptsOf, lastShown>>
  BY DEF Decode_Send, handle
<1>2. /\ Undelivered = {} /\ Undelivered' = {} /\ job = NoIdx
      /\ iMaxIndexCnt \in Nat \ {0} /\ listDisplay \in Seq(Frames) /\ Len(listDisplay) \in Nat
  BY <1>1, Numbers, LenProperties DEF IndInv, DataOK, LifeInv, AnswerInv, Undelivered
<1>3. /\ \A f \in Frames : buf[f] = "shown" <=> f \in Elems(listDisplay)
      /\ NoDup(listDisplay) /\ p \in Nat
      /\ buf \in [Frames -> BufferStates]
  BY <1>1, <1>2, Numbers DEF IndInv, Lent, DataOK, WindowInv, NextPackets, Pts
<1>4. \A f \in Frames : decFrames[f] = IF buf[f] \in {"decoded", "shown"} THEN <<ptsOf[f]>> ELSE <<>>
  BY <1>1 DEF IndInv, RecordInv, Recorded
<1>5. /\ listDisplay' \in Seq(Frames) /\ NoDup(listDisplay') /\ Len(listDisplay') < iMaxIndexCnt
      /\ \A f \in Frames : buf'[f] = "shown" <=> f \in Elems(listDisplay')
      /\ \A f \in Frames : buf'[f] = buf[f] \/ (buf[f] = "shown" /\ buf'[f] = "free")
      /\ \A f \in Frames : RecordsLeft(f) = IF buf'[f] \in {"decoded", "shown"}
                                            THEN <<ptsOf[f]>> ELSE <<>>
  <2>3. CASE /\ Len(listDisplay) < iMaxIndexCnt /\ listDisplay' = listDisplay
             /\ \A f \in Frames : Releases(f) = 0
    <3>1. \A f \in Frames : buf'[f] = buf[f]
      BY <1>1, <2>3
    <3>2. ASSUME NEW f \in Frames PROVE RecordsLeft(f) = decFrames[f]
      BY <2>3, SubSeqFull DEF RecordsLeft, IndInv, DataOK
    <3>3. QED
      BY <1>2, <1>3, <1>4, <2>3, <3>1, <3>2
  <2>4. CASE /\ listDisplay # <<>> /\ Len(listDisplay) = iMaxIndexCnt
             /\ listDisplay' = Tail(listDisplay)
             /\ \A f \in Frames : Releases(f) = IF f = Head(listDisplay) THEN 1 ELSE 0
    <3> DEFINE h == Head(listDisplay)
    <3>1. /\ listDisplay' \in Seq(Frames) /\ Len(listDisplay') = Len(listDisplay) - 1
          /\ h \in Frames /\ Elems(listDisplay) = {h} \cup Elems(listDisplay')
          /\ NoDup(listDisplay') /\ h \notin Elems(listDisplay')
      BY <1>2, <1>3, <2>4, ShortenedList
    <3>2. \A f \in Frames : buf'[f] = IF f = h THEN "free" ELSE buf[f]
      BY <1>1, <1>3, <2>4, <3>1
    <3>3. ASSUME NEW f \in Frames
          PROVE  RecordsLeft(f) = IF buf'[f] \in {"decoded", "shown"} THEN <<ptsOf[f]>> ELSE <<>>
      <4>1. CASE f = h
        <5>1. buf[f] = "shown" /\ decFrames[f] = <<ptsOf[f]>> /\ buf'[f] = "free"
          BY <1>3, <1>4, <3>1, <3>2, <4>1
        <5>2. RecordsLeft(f) = SubSeq(decFrames[f], 2, 1)
          <6>1. Releases(f) = 1 /\ Len(decFrames[f]) = 1
            BY <2>4, <4>1, <5>1
          <6>2. QED
            BY <6>1 DEF RecordsLeft
        <5>3. QED
          BY <5>1, <5>2, SubSeqEmpty
      <4>2. CASE f # h
        <5>1. RecordsLeft(f) = SubSeq(decFrames[f], 1, Len(decFrames[f]))
          <6>1. Releases(f) = 0
            BY <2>4, <4>2
          <6>2. QED
            BY <6>1 DEF RecordsLeft
        <5>2. RecordsLeft(f) = decFrames[f]
          BY <5>1, SubSeqFull DEF IndInv, DataOK
        <5>3. QED
          BY <1>4, <3>2, <4>2, <5>2
      <4>3. QED
        BY <4>1, <4>2
    <3> HIDE DEF h
    <3>5. QED
      BY <1>2, <1>3, <2>4, <3>1, <3>2, <3>3
  <2>5. QED
    BY <1>1, <2>3, <2>4, OldestLeaves
<1>6. decFrames' \in [Frames -> Seq(Nat)] /\ buf' \in [Frames -> BufferStates]
  <2>1. \A f \in Frames : ptsOf[f] \in Nat
    BY DEF IndInv, DataOK
  <2>2. \A n \in Nat : <<n>> \in Seq(Nat)
    OBVIOUS
  <2>3. \A f \in Frames : RecordsLeft(f) \in Seq(Nat)
    BY <1>5, <2>1, <2>2, EmptySeq
  <2>4. QED
    BY <1>1, <1>3, <2>3 DEF BufferStates
<1>7. DataOK'
  BY <1>1, <1>3, <1>5, <1>6, NoPictureType DEF IndInv, DataOK
<1>8. LifeInv' /\ AnswerInv'
  BY <1>1, <1>5 DEF IndInv, LifeInv, AnswerInv
<1>9. WindowInv' /\ Lent'
  BY <1>1, <1>2, <1>5 DEF WindowInv, Lent, IndInv, DataOK
<1>10. RecordInv'
  BY <1>1, <1>5 DEF RecordInv, Recorded, OwnRecord, NoPicture
<1>11. QED
  BY <1>7, <1>8, <1>9, <1>10 DEF IndInv

(* The answer is handled: a decoded picture gets its record, a displayed   *)
(* one goes out with it and into the window.                               *)
LEMMA ReturnInd ==
  ASSUME V3Constants, IndInv, Decode_Return
  PROVE  IndInv'
<1>1. /\ pc = "done" /\ pc' = "idle" /\ job = NoIdx
      /\ UNCHANGED <<life, uiNumOutputFrames, iMaxIndexCnt, pkt, output, buf, job, ptsOf, lastShown>>
  BY DEF Decode_Return, handle, driver, IndInv, AnswerInv
<1>2. /\ life = "ready" /\ clocks = {} /\ Undelivered' = {} /\ out = NoPicture
      /\ iMaxIndexCnt \in Nat /\ listDisplay \in Seq(Frames) /\ Len(listDisplay) < iMaxIndexCnt
      /\ Len(listDisplay) \in Nat /\ NoDup(listDisplay)
      /\ output.disp \in Idx /\ decFrames \in [Frames -> Seq(Nat)] /\ ptsOf \in [Frames -> Nat]
  BY <1>1, LenProperties
     DEF IndInv, DataOK, LifeInv, AnswerInv, WindowInv, Undelivered, OutputSet
<1>3. \A f \in Frames : decFrames[f] = IF Recorded(f) THEN <<ptsOf[f]>> ELSE <<>>
  BY DEF IndInv, RecordInv
<1>4. CASE output.ret = "FAIL"
  <2>1. UNCHANGED <<clocks, decFrames, out, listDisplay>>
    BY <1>4 DEF Decode_Return, lists
  <2>2. output.status # "frame" /\ output.disp = NoIdx /\ Undelivered = {}
    BY <1>1, <1>4 DEF IndInv, AnswerInv, Undelivered
  <2>3. DataOK'
    BY <1>1, <2>1 DEF IndInv, DataOK
  <2>4. LifeInv' /\ AnswerInv' /\ WindowInv'
    BY <1>1, <2>1 DEF IndInv, LifeInv, AnswerInv, WindowInv
  <2>5. Lent'
    BY <1>1, <1>2, <2>1, <2>2 DEF IndInv, Lent
  <2>6. RecordInv'
    BY <1>1, <2>1, <2>2 DEF IndInv, RecordInv, Recorded, OwnRecord
  <2>7. QED
    BY <2>3, <2>4, <2>5, <2>6 DEF IndInv
<1>5. CASE output.ret # "FAIL"
  <2> DEFINE r == Filled
  <2>1. /\ output.ret = "SUCCESS"
        /\ output.status = "frame" =>
             output.decoded \in Frames /\ buf[output.decoded] \in {"decoded", "shown"}
    BY <1>1, <1>5 DEF IndInv, AnswerInv
  <2>2. /\ r.frameOut <=> output.disp # NoIdx
        /\ r.insertFrame <=> output.status = "frame"
        /\ ~r.insertClock /\ r.decoded = output.decoded /\ r.disp = output.disp
    BY <2>1 DEF Filled
  <2>3. Handle(r)
    BY <1>5 DEF Decode_Return
  <2>4. /\ decFrames' = RecordsAfter(r) /\ listDisplay' = Pushed(r)
        /\ clocks' = {}
        /\ out' = IF r.frameOut THEN Picture(r, RecordsAfter(r), {}) ELSE NoPicture
    BY <1>2, <2>2, <2>3 DEF Handle
  <2> HIDE DEF r
  <2>5. ASSUME NEW f \in Frames
        PROVE  decFrames'[f] = IF buf[f] \in {"decoded", "shown"} THEN <<ptsOf[f]>> ELSE <<>>
    <3>1. CASE output.status = "frame" /\ f = output.decoded
      <4>1. decFrames[f] = <<>>
        BY <1>1, <1>3, <3>1 DEF Recorded
      <4>2. decFrames'[f] = Append(decFrames[f], ptsOf[f])
        BY <1>2, <2>2, <2>4, <3>1 DEF RecordsAfter
      <4>3. QED
        BY <2>1, <3>1, <4>1, <4>2
    <3>2. CASE ~(output.status = "frame" /\ f = output.decoded)
      <4>1. decFrames'[f] = decFrames[f]
        BY <1>2, <2>2, <2>4, <3>2 DEF RecordsAfter
      <4>2. QED
        BY <1>3, <3>2, <4>1 DEF Recorded
    <3>3. QED
      BY <3>1, <3>2
  <2>6. decFrames' \in [Frames -> Seq(Nat)]
    <3>1. CASE output.status = "frame"
      <4>1. output.decoded \in Frames /\ ptsOf[output.decoded] \in Nat
            /\ decFrames[output.decoded] \in Seq(Nat)
        BY <1>2, <2>1, <3>1
      <4>2. Append(decFrames[output.decoded], ptsOf[output.decoded]) \in Seq(Nat)
        BY <4>1, AppendProperties
      <4>3. QED
        BY <1>2, <2>2, <2>4, <3>1, <4>2 DEF RecordsAfter
    <3>2. CASE output.status # "frame"
      BY <1>2, <2>2, <2>4, <3>2 DEF RecordsAfter
    <3>3. QED
      BY <3>1, <3>2
  <2>7. CASE output.disp = NoIdx
    <3>1. out' = NoPicture /\ listDisplay' = listDisplay /\ Undelivered = {}
      BY <1>1, <2>2, <2>4, <2>7 DEF Pushed, NoIdx, Undelivered
    <3>2. DataOK'
      BY <1>1, <1>2, <2>4, <2>6, <3>1, NoPictureType DEF IndInv, DataOK
    <3>3. LifeInv' /\ AnswerInv' /\ WindowInv'
      BY <1>1, <1>2, <3>1 DEF IndInv, LifeInv, AnswerInv, WindowInv
    <3>4. Lent'
      BY <1>1, <1>2, <3>1 DEF IndInv, Lent
    <3>5. RecordInv'
      <4>1. OwnRecord'
        BY <3>1 DEF OwnRecord, NoPicture
      <4>2. \A f \in Frames : Recorded(f)' <=> buf[f] \in {"decoded", "shown"}
        BY <1>1 DEF Recorded
      <4>3. QED
        BY <1>1, <2>5, <4>1, <4>2 DEF RecordInv
    <3>6. QED
      BY <3>2, <3>3, <3>4, <3>5 DEF IndInv
  <2>8. CASE output.disp # NoIdx
    <3> DEFINE d == output.disp
    <3>1. d \in Frames /\ d \in Nat /\ Undelivered = {d}
      BY <1>1, <1>2, <2>8, Numbers DEF Idx, Undelivered
    <3>2. d \notin Elems(listDisplay) /\ buf[d] = "shown"
      BY <3>1 DEF IndInv, Lent
    <3>3. listDisplay' = Append(listDisplay, d)
      BY <2>2, <2>4, <3>1 DEF Pushed
    <3>4. /\ listDisplay' \in Seq(Frames) /\ Len(listDisplay') = Len(listDisplay) + 1
          /\ NoDup(listDisplay') /\ Elems(listDisplay') = Elems(listDisplay) \cup {d}
      BY <1>2, <3>1, <3>2, <3>3, AppendedList
    <3>5. out' = [ret |-> "None", idx |-> d, record |-> ptsOf[d], ts |-> 0]
      <4>1. RecordsAfter(r)[d] = <<ptsOf[d]>>
        BY <2>4, <2>5, <3>1, <3>2
      <4>2. RecordsAfter(r)[d] # <<>> /\ Head(RecordsAfter(r)[d]) = ptsOf[d]
        BY <4>1
      <4>3. QED
        BY <2>2, <2>4, <2>8, <4>2 DEF Picture
    <3> HIDE DEF d
    <3>6. out' \in OutSet
      <4>1. ptsOf[d] \in Nat
        BY <1>2, <3>1
      <4>2. QED
        BY <3>1, <3>5, <4>1 DEF OutSet, Idx
    <3>7. DataOK'
      BY <1>1, <2>4, <2>6, <3>4, <3>6 DEF IndInv, DataOK
    <3>8. LifeInv' /\ AnswerInv'
      BY <1>1, <1>2 DEF IndInv, LifeInv, AnswerInv
    <3>9. WindowInv'
      BY <1>1, <1>2, <3>4 DEF WindowInv
    <3>10. Lent'
      BY <1>1, <1>2, <3>1, <3>4 DEF IndInv, Lent
    <3>11. RecordInv'
      <4>1. OwnRecord'
        BY <1>1, <3>1, <3>5 DEF OwnRecord
      <4>2. \A f \in Frames : Recorded(f)' <=> buf[f] \in {"decoded", "shown"}
        BY <1>1 DEF Recorded
      <4>3. QED
        BY <1>1, <2>5, <4>1, <4>2 DEF RecordInv
    <3>12. QED
      BY <3>7, <3>8, <3>9, <3>10, <3>11 DEF IndInv
  <2>9. QED
    BY <2>7, <2>8
<1>6. QED
  BY <1>4, <1>5

(* A command completes: with the picture that was written, or with none.   *)
LEMMA CompleteInd ==
  ASSUME V3Constants, IndInv, pc = "wait",
         NEW b, NEW res, NEW status, NEW f \in Idx, NEW d \in Idx,
         Complete(b, res, status, f, d),
         \/ status = "frame" /\ res = "SUCCESS" /\ f = job /\ f # NoIdx
            /\ b = [buf EXCEPT ![f] = "decoded"]
         \/ /\ job = NoIdx /\ b = buf
            /\ \/ status = "buf_full" /\ res = "SUCCESS"
               \/ status = "fail" /\ res = "FAIL" /\ d = NoIdx,
         d # NoIdx => b[d] = "decoded"
  PROVE  IndInv'
<1>1. /\ pc' = "done" /\ job' = NoIdx
      /\ output' = [ret |-> res, status |-> status, decoded |-> f, disp |-> d]
      /\ buf' = IF d = NoIdx THEN b ELSE [b EXCEPT ![d] = "shown"]
      /\ lastShown' = IF d = NoIdx THEN lastShown ELSE ptsOf[d]
      /\ UNCHANGED <<life, uiNumOutputFrames, iMaxIndexCnt, pkt, clocks, decFrames, out>>
      /\ UNCHANGED <<listDisplay, ptsOf>>
  BY DEF Complete, handle, lists
<1>2. /\ buf \in [Frames -> BufferStates] /\ Undelivered = {} /\ life = "ready"
      /\ ptsOf \in [Frames -> Nat] /\ out = NoPicture
      /\ \A g \in Frames : buf[g] = "writing" <=> g = job
      /\ \A g \in Frames : buf[g] = "shown" <=> g \in Elems(listDisplay)
  BY DEF IndInv, DataOK, LifeInv, AnswerInv, Lent, Undelivered
<1>3. /\ b \in [Frames -> BufferStates]
      /\ \A g \in Frames : b[g] = IF status = "frame" /\ g = f THEN "decoded" ELSE buf[g]
      /\ \A g \in Frames : b[g] # "writing"
  BY <1>2, Numbers DEF BufferStates, Idx
<1>4. /\ buf' \in [Frames -> BufferStates]
      /\ \A g \in Frames : buf'[g] = IF g = d THEN "shown" ELSE b[g]
  BY <1>1, <1>3, Numbers DEF BufferStates, Idx
<1>5. Undelivered' = (IF d = NoIdx THEN {} ELSE {d})
  BY <1>1 DEF Undelivered
<1>6. DataOK'
  <2>1. output' \in OutputSet
    BY <1>1 DEF OutputSet, AllOutcomes
  <2>2. lastShown' \in Nat
    BY <1>1, <1>2 DEF IndInv, DataOK, Idx
  <2>3. QED
    BY <1>1, <1>4, <2>1, <2>2 DEF IndInv, DataOK, Idx
<1>7. LifeInv' /\ WindowInv'
  BY <1>1, <1>2 DEF IndInv, LifeInv, WindowInv
<1>8. AnswerInv'
  <2>1. \A g \in Frames : buf'[g] = "writing" <=> g = job'
    BY <1>1, <1>3, <1>4, Numbers
  <2>2. status = "frame" => f \in Frames /\ buf'[f] \in {"decoded", "shown"}
    BY <1>3, <1>4 DEF Idx
  <2>3. QED
    BY <1>1, <1>2, <2>1, <2>2 DEF AnswerInv
<1>9. Lent'
  <2>1. ASSUME d # NoIdx PROVE d \in Frames /\ d \notin Elems(listDisplay)
    BY <1>2, <1>3, <2>1 DEF Idx
  <2>2. ASSUME NEW g \in Frames
        PROVE  buf'[g] = "shown" <=> g \in Elems(listDisplay) \cup Undelivered'
    <3>1. status = "frame" /\ g = f => buf[g] = "writing"
      BY <1>2
    <3>2. QED
      BY <1>2, <1>3, <1>4, <1>5, <3>1, Numbers
  <2>3. QED
    BY <1>1, <1>5, <2>1, <2>2 DEF Lent
<1>10. RecordInv'
  <2>1. ASSUME NEW g \in Frames PROVE Recorded(g)' <=> Recorded(g)
    <3>1. status = "frame" /\ g = f => buf[g] = "writing"
      BY <1>2
    <3>2. Recorded(g) <=> buf[g] \in {"decoded", "shown"}
      BY DEF Recorded
    <3>3. Recorded(g)' <=> buf'[g] \in {"decoded", "shown"} /\ ~(status = "frame" /\ f = g)
      BY <1>1 DEF Recorded
    <3>4. g = d => buf[g] = "decoded" \/ (status = "frame" /\ g = f)
      BY <1>3, Numbers
    <3>5. QED
      BY <1>3, <1>4, <3>1, <3>2, <3>3, <3>4
  <2>2. OwnRecord'
    BY <1>1, <1>2 DEF OwnRecord, NoPicture
  <2>3. QED
    BY <1>1, <2>1, <2>2 DEF IndInv, RecordInv
<1>11. QED
  BY <1>6, <1>7, <1>8, <1>9, <1>10 DEF IndInv

LEMMA VpuInd ==
  ASSUME V3Constants, PlainAnswers, IndInv, Vpu
  PROVE  IndInv'
<1>1. NoIdx \in Idx /\ job \in Idx
  BY DEF Idx, IndInv, DataOK
<1>2. ASSUME NEW f \in Frames, Vpu_Begin(f)
      PROVE  IndInv'
  <2>1. /\ pc = "wait" /\ job = NoIdx /\ buf[f] = "free" /\ job' = f
        /\ buf' = [buf EXCEPT ![f] = "writing"] /\ ptsOf' = [ptsOf EXCEPT ![f] = pkt]
        /\ UNCHANGED <<life, uiNumOutputFrames, iMaxIndexCnt, pc, pkt, clocks, decFrames, out>>
        /\ UNCHANGED <<listDisplay, output, lastShown>>
    BY <1>2 DEF Vpu_Begin, handle, lists
  <2>2. /\ buf \in [Frames -> BufferStates] /\ pkt \in Nat /\ ptsOf \in [Frames -> Nat]
        /\ out = NoPicture
    BY <2>1 DEF IndInv, DataOK, AnswerInv
  <2>3. /\ buf' \in [Frames -> BufferStates] /\ ptsOf' \in [Frames -> Nat]
        /\ \A g \in Frames : g # f => buf'[g] = buf[g] /\ ptsOf'[g] = ptsOf[g]
        /\ buf'[f] = "writing"
    BY <2>1, <2>2 DEF BufferStates
  <2>4. DataOK'
    BY <2>1, <2>3 DEF IndInv, DataOK, Idx
  <2>5. LifeInv' /\ WindowInv'
    BY <2>1 DEF IndInv, LifeInv, WindowInv
  <2>6. AnswerInv'
    BY <2>1, <2>3, Numbers DEF IndInv, AnswerInv
  <2>7. Lent'
    <3>1. Undelivered' = Undelivered
      BY <2>1 DEF Undelivered
    <3>2. QED
      BY <2>1, <2>3, <3>1 DEF IndInv, Lent
  <2>8. RecordInv'
    <3>1. ASSUME NEW g \in Frames
          PROVE  decFrames'[g] = IF Recorded(g)' THEN <<ptsOf'[g]>> ELSE <<>>
      <4>1. CASE g = f
        BY <2>1, <2>3, <4>1 DEF IndInv, RecordInv, Recorded
      <4>2. CASE g # f
        BY <2>1, <2>3, <4>2 DEF IndInv, RecordInv, Recorded
      <4>3. QED
        BY <4>1, <4>2
    <3>2. OwnRecord'
      BY <2>1, <2>2 DEF OwnRecord, NoPicture
    <3>3. QED
      BY <3>1, <3>2 DEF RecordInv
  <2>9. QED
    BY <2>4, <2>5, <2>6, <2>7, <2>8 DEF IndInv
<1>3. CASE Vpu_Frame
  <2> DEFINE b == [buf EXCEPT ![job] = "decoded"]
  <2>1. pc = "wait" /\ job # NoIdx
    BY <1>3 DEF Vpu_Frame
  <2>2. PICK d \in Displayable(b, ptsOf) \cup {NoIdx} : Complete(b, "SUCCESS", "frame", job, d)
    BY <1>3 DEF Vpu_Frame
  <2>3. d \in Idx /\ (d # NoIdx => b[d] = "decoded")
    BY <2>2 DEF Displayable, Idx
  <2> HIDE DEF b
  <2>4. QED
    BY <1>1, <2>1, <2>2, <2>3, CompleteInd DEF b
<1>4. ASSUME NEW status \in Outcomes, Vpu_Display(status)
      PROVE  IndInv'
  <2>1. pc = "wait" /\ job = NoIdx /\ status = "buf_full"
    BY <1>4 DEF Vpu_Display, PlainAnswers
  <2>2. PICK d \in { f \in Displayable(buf, ptsOf) : ptsOf[f] < pkt } \cup {NoIdx} :
          Complete(buf, "SUCCESS", status, NoIdx, d)
    BY <1>4, <2>1 DEF Vpu_Display
  <2>3. d \in Idx /\ (d # NoIdx => buf[d] = "decoded")
    BY <2>2 DEF Displayable, Idx
  <2>4. QED
    BY <1>1, <2>1, <2>2, <2>3, CompleteInd
<1>5. ASSUME NEW status \in Outcomes, Vpu_Nothing(status)
      PROVE  IndInv'
  <2>1. pc = "wait" /\ job = NoIdx /\ status = "fail"
    BY <1>5 DEF Vpu_Nothing, PlainAnswers
  <2>2. Complete(buf, "FAIL", status, NoIdx, NoIdx)
    BY <1>5, <2>1 DEF Vpu_Nothing
  <2>3. QED
    BY <1>1, <2>1, <2>2, CompleteInd
<1>6. QED
  BY <1>2, <1>3, <1>4, <1>5 DEF Vpu

LEMMA StepInd ==
  ASSUME V3Constants, PlainAnswers, IndInv, [Next]_vars
  PROVE  IndInv'
<1>1. CASE UNCHANGED vars
  <2>1. /\ UNCHANGED <<life, uiNumOutputFrames, iMaxIndexCnt, pc, pkt, clocks, decFrames, out>>
        /\ UNCHANGED <<listDisplay, output, buf, job, ptsOf, lastShown>>
    BY <1>1 DEF vars, handle, lists, driver
  <2>2. DataOK' /\ LifeInv' /\ AnswerInv' /\ WindowInv'
    BY <2>1 DEF IndInv, DataOK, LifeInv, AnswerInv, WindowInv
  <2>3. Lent' /\ RecordInv'
    BY <2>1 DEF IndInv, Lent, Undelivered, RecordInv, Recorded, OwnRecord
  <2>4. QED
    BY <2>2, <2>3 DEF IndInv
<1>2. QED
  BY <1>1, ApplicationInd, SendInd, ReturnInd, VpuInd DEF Next, Call

LEMMA IndHolds ==
  ASSUME V3Constants, PlainAnswers
  PROVE  Spec => []IndInv
<1>1. IndInv /\ [Next]_vars => IndInv'
  BY StepInd
<1>2. QED
  BY InitInd, <1>1, PTL DEF Spec

(* Decoder, library and driver keep their types over these answers: the    *)
(* window and the records only ever hold frame buffers and their pictures. *)
THEOREM V3DecoderTypes ==
  ASSUME V3Constants, PlainAnswers
  PROVE  Spec => []V3TypeOK
<1>1. IndInv => V3TypeOK
  BY DEF IndInv, DataOK, V3TypeOK, OutSet, OutputSet, Idx, BufferStates
<1>2. QED
  BY IndHolds, <1>1, PTL

(* Library and driver agree on the owner of every buffer, and a picture    *)
(* that is handed out comes with the record made for it: over pictures,    *)
(* full pools and failures in any order, with any pool and window.         *)
THEOREM LentHeld ==
  ASSUME V3Constants, PlainAnswers
  PROVE  Spec => []LentIsHeld
<1>1. IndInv => LentIsHeld
  <2>1. ASSUME IndInv PROVE BuffersAgree /\ OwnRecord
    <3>1. listDisplay \in Seq(Frames)
      BY <2>1 DEF IndInv, DataOK
    <3>2. Elems(listDisplay) \subseteq Frames
      BY <3>1, ElementOfSeq DEF Elems
    <3>3. Undelivered \subseteq Frames
      BY <2>1 DEF IndInv, DataOK, OutputSet, Idx, Undelivered
    <3>4. QED
      BY <2>1, <3>2, <3>3 DEF IndInv, Lent, WindowInv, NoDup, RecordInv, BuffersAgree, Holding
  <2>2. QED
    BY <2>1 DEF LentIsHeld
<1>2. QED
  BY IndHolds, <1>1, PTL

------------------------------------------------------------------------------
(* The V3 path implements SurfaceFrames.                                   *)

Busy == Holding({"writing"})

(* The application configures the window while it is empty, and closes it. *)
LEMMA ApplicationImplements ==
  ASSUME V3Constants, IndInv, Application
  PROVE  Surface!Configure \/ Surface!Close \/ UNCHANGED <<listDisplay, iMaxIndexCnt, Busy>>
<1>1. ASSUME NEW n \in SurfaceChoices, VideoDecoder_Init(n)
      PROVE  UNCHANGED <<listDisplay, iMaxIndexCnt, Busy>>
  BY <1>1 DEF VideoDecoder_Init, Busy, Holding
<1>2. ASSUME VideoDecoder_DecodeSequenceHeader
      PROVE  Surface!Configure
  <2>1. /\ listDisplay = <<>> /\ UNCHANGED listDisplay
        /\ iMaxIndexCnt' \in Nat \ {0} /\ \A f \in Frames : buf[f] = "none"
    BY <1>2, Numbers DEF VideoDecoder_DecodeSequenceHeader, lists, IndInv, LifeInv
  <2>2. Holding({"writing"}) = {} /\ Holding({"writing"})' = {}
    BY <1>2, <2>1 DEF VideoDecoder_DecodeSequenceHeader, Holding
  <2>3. QED
    BY <2>1, <2>2 DEF Surface!Configure
<1>3. ASSUME VideoDecoder_Deinit
      PROVE  Surface!Close
  BY <1>3 DEF VideoDecoder_Deinit, EmptiedDisplay, Surface!Close, Holding
<1>4. QED
  BY <1>1, <1>2, <1>3 DEF Application

(* A packet that is sent lets the oldest picture out of a full window go.  *)
LEMMA SendImplements ==
  ASSUME V3Constants, IndInv, NEW p \in NextPackets, Decode_Send(p)
  PROVE  Surface!GiveBackOldest \/ UNCHANGED <<listDisplay, iMaxIndexCnt, Busy>>
<1>1. /\ life = "ready" /\ UNCHANGED iMaxIndexCnt
      /\ listDisplay' = SubSeq(listDisplay, Len(Leaving) + 1, Len(listDisplay))
      /\ buf' = [f \in Frames |-> IF Releases(f) > 0 /\ buf[f] = "shown" THEN "free" ELSE buf[f]]
  BY DEF Decode_Send, handle
<1>2. Holding({"writing"})' = Holding({"writing"})
  BY <1>1 DEF Holding
<1>3. \/ listDisplay' = listDisplay
      \/ /\ listDisplay # <<>> /\ Len(listDisplay) = iMaxIndexCnt
         /\ listDisplay' = Tail(listDisplay)
  BY <1>1, OldestLeaves
<1>4. QED
  BY <1>1, <1>2, <1>3 DEF Surface!GiveBackOldest, Busy

(* An answer that is handled brings at most one picture, for which there   *)
(* is room.                                                                *)
LEMMA ReturnImplements ==
  ASSUME V3Constants, IndInv, Decode_Return
  PROVE  \/ \E f \in Frames : Surface!Output(f)
         \/ UNCHANGED <<listDisplay, iMaxIndexCnt, Busy>>
<1>1. /\ pc = "done" /\ UNCHANGED <<iMaxIndexCnt, buf>> /\ output.disp \in Idx
      /\ Len(listDisplay) < iMaxIndexCnt
  BY DEF Decode_Return, handle, driver, IndInv, DataOK, OutputSet, WindowInv
<1>2. Holding({"writing"})' = Holding({"writing"})
  BY <1>1 DEF Holding
<1>3. CASE output.ret = "FAIL" \/ output.disp = NoIdx
  <2>1. CASE output.ret = "FAIL"
    BY <1>1, <1>2, <2>1 DEF Decode_Return, lists, Busy
  <2>2. CASE output.ret # "FAIL" /\ output.disp = NoIdx
    <3>1. output.ret = "SUCCESS"
      BY <1>1, <2>2 DEF IndInv, AnswerInv
    <3>2. listDisplay' = listDisplay
      BY <2>2, <3>1 DEF Decode_Return, Handle, Filled, Pushed, NoIdx
    <3>3. QED
      BY <1>1, <1>2, <3>2 DEF Busy
  <2>3. QED
    BY <1>3, <2>1, <2>2
<1>4. CASE output.ret # "FAIL" /\ output.disp # NoIdx
  <2> DEFINE d == output.disp
  <2>1. output.ret = "SUCCESS" /\ d \in Frames /\ d \in Nat /\ Undelivered = {d}
    BY <1>1, <1>4, Numbers DEF IndInv, AnswerInv, Idx, Undelivered
  <2>2. listDisplay' = Append(listDisplay, d)
    BY <1>4, <2>1 DEF Decode_Return, Handle, Filled, Pushed
  <2>3. d \notin Elems(listDisplay) /\ buf[d] = "shown"
    BY <2>1 DEF IndInv, Lent
  <2>4. Surface!Output(d)
    BY <1>1, <1>2, <2>2, <2>3 DEF Surface!Output, Surface!Elems, Elems, Holding
  <2>5. QED
    BY <2>1, <2>4
<1>5. QED
  BY <1>3, <1>4

(* The driver writes only where no picture of the window is.               *)
LEMMA VpuImplements ==
  ASSUME V3Constants, PlainAnswers, IndInv, Vpu
  PROVE  \/ \E f \in Frames : Surface!StartWrite(f) \/ Surface!EndWrite(f)
         \/ UNCHANGED <<listDisplay, iMaxIndexCnt, Busy>>
<1>1. ASSUME NEW f \in Frames, Vpu_Begin(f)
      PROVE  Surface!StartWrite(f)
  <2>1. /\ buf[f] = "free" /\ buf' = [buf EXCEPT ![f] = "writing"]
        /\ UNCHANGED <<listDisplay, iMaxIndexCnt>>
    BY <1>1 DEF Vpu_Begin, lists, handle
  <2>2. f \notin Elems(listDisplay)
    BY <2>1 DEF IndInv, Lent
  <2>3. Holding({"writing"})' = Holding({"writing"}) \cup {f} /\ f \notin Holding({"writing"})
    BY <2>1 DEF IndInv, DataOK, Holding
  <2>4. QED
    BY <2>1, <2>2, <2>3 DEF Surface!StartWrite, Surface!Elems, Elems
<1>2. CASE Vpu_Frame
  <2> DEFINE b == [buf EXCEPT ![job] = "decoded"]
  <2>1. PICK d \in Displayable(b, ptsOf) \cup {NoIdx} : Complete(b, "SUCCESS", "frame", job, d)
    BY <1>2 DEF Vpu_Frame
  <2>2. job \in Frames /\ \A g \in Frames : buf[g] = "writing" <=> g = job
    BY <1>2 DEF Vpu_Frame, IndInv, DataOK, AnswerInv, Idx
  <2>3. /\ buf' = IF d = NoIdx THEN b ELSE [b EXCEPT ![d] = "shown"]
        /\ UNCHANGED <<listDisplay, iMaxIndexCnt>>
    BY <2>1 DEF Complete, lists, handle
  <2>4. Holding({"writing"}) = {job} /\ Holding({"writing"})' = {}
    BY <2>2, <2>3 DEF IndInv, DataOK, Holding
  <2>5. Surface!EndWrite(job)
    BY <2>3, <2>4 DEF Surface!EndWrite
  <2>6. QED
    BY <2>2, <2>5
<1>3. ASSUME NEW status \in Outcomes, Vpu_Display(status) \/ Vpu_Nothing(status)
      PROVE  UNCHANGED <<listDisplay, iMaxIndexCnt, Busy>>
  <2>1. \E res, s, d : Complete(buf, res, s, NoIdx, d) /\ (d = NoIdx \/ d \in Displayable(buf, ptsOf))
    BY <1>3 DEF Vpu_Display, Vpu_Nothing
  <2>2. PICK d : /\ d = NoIdx \/ d \in Displayable(buf, ptsOf)
                 /\ buf' = IF d = NoIdx THEN buf ELSE [buf EXCEPT ![d] = "shown"]
                 /\ UNCHANGED <<listDisplay, iMaxIndexCnt>>
    BY <2>1 DEF Complete, lists, handle
  <2>3. Holding({"writing"})' = Holding({"writing"})
    BY <2>2 DEF Displayable, IndInv, DataOK, Holding
  <2>4. QED
    BY <2>2, <2>3 DEF Busy
<1>4. QED
  BY <1>1, <1>2, <1>3 DEF Vpu

(* What video_decoder.h:275-277 promises of surface frames holds on the V3 *)
(* path as on the legacy one: every step is a step of SurfaceFrames or     *)
(* changes nothing it sees.                                                *)
THEOREM V3Implementation ==
  ASSUME V3Constants, PlainAnswers
  PROVE  Spec => SurfaceFramesKept
<1>1. Init => Surface!SFInit
  BY DEF Init, Surface!SFInit, Holding
<1>2. IndInv /\ [Next]_vars => [Surface!SFNext]_(Surface!sfVars)
  <2>1. ASSUME IndInv, [Next]_vars
        PROVE  Surface!SFNext \/ UNCHANGED <<listDisplay, iMaxIndexCnt, Busy>>
    <3>1. CASE Application
      BY <2>1, <3>1, ApplicationImplements DEF Surface!SFNext
    <3>2. CASE Call
      BY <2>1, <3>2, SendImplements DEF Call, Surface!SFNext
    <3>3. CASE Decode_Return
      BY <2>1, <3>3, ReturnImplements DEF Surface!SFNext
    <3>4. CASE Vpu
      BY <2>1, <3>4, VpuImplements DEF Surface!SFNext
    <3>5. CASE UNCHANGED vars
      BY <3>5 DEF vars, handle, lists, driver, Busy, Holding
    <3>6. QED
      BY <2>1, <3>1, <3>2, <3>3, <3>4, <3>5 DEF Next
  <2>2. UNCHANGED <<listDisplay, iMaxIndexCnt, Busy>> => UNCHANGED Surface!sfVars
    BY DEF Surface!sfVars, Busy
  <2>3. QED
    BY <2>1, <2>2
<1>3. QED
  BY IndHolds, <1>1, <1>2, PTL DEF Spec, SurfaceFramesKept, Surface!SFSpec

------------------------------------------------------------------------------
(* What is left of a counter that is still needed; that only the 4K        *)
(* decoder's loop gives up, in a timeout, and at once; that the driver has *)
(* at most the command of this call, and none between the calls, until a   *)
(* call comes back without its answer; and that an answer that a poll      *)
(* announced is there to be fetched, and one announced in an earlier round *)
(* was "not processed", unless the device hung up.                         *)
LoopCounters ==
  /\ l_pc # "idle" => rounds >= 1
  /\ l_pc = "polling" => tries >= 1
  /\ given_up => loop = "4kd2" /\ l_pc # "polling" /\ event = "timeout"

LoopOwnCommand ==
  /\ ~missed => IF l_pc = "idle" THEN outstanding = <<>>
                ELSE \A i \in 1..Len(outstanding) : outstanding[i].mine
  /\ Loops!OlderOnlyAfterMissed

LoopAnnounced ==
  l_pc # "idle" /\ announced =>
    /\ IF loop = "poll_cmd" THEN rounds = 1 /\ l_pc = "fetching" /\ event = "in" ELSE l_success
    /\ IF l_pc = "fetching" /\ event = "in" THEN Loops!Answered \/ gone
       ELSE unprocessed \/ gone

LoopInv ==
  /\ Loops!LoopTypeOK /\ LoopCounters /\ LoopOwnCommand /\ LoopAnnounced
  /\ Loops!AnnouncedAnswerReturned /\ Loops!InvalidNeverReturned

LEMMA LoopInitInv == Loops!Init => LoopInv
<1> SUFFICES ASSUME Loops!Init PROVE LoopInv
  OBVIOUS
<1>1. Loops!LoopFlags
  BY Zenon DEF Loops!Init, Loops!LoopFlags
<1>2. Loops!LoopTypeOK
  BY <1>1, LoopAssumption DEF Loops!Init, Loops!LoopTypeOK, Loops!LoopConstants, Loops!Results,
     Loops!Nothing, Loops!Commands
<1>3. QED
  BY <1>2 DEF LoopInv, Loops!Init, LoopCounters, LoopOwnCommand, LoopAnnounced,
     Loops!OlderOnlyAfterMissed, Loops!AnnouncedAnswerReturned, Loops!InvalidNeverReturned

(* A new command goes behind those of earlier calls, which are no longer   *)
(* this call's.                                                            *)
LEMMA BeginKeeps ==
  ASSUME LoopInv, l_pc = "idle", NEW taken \in BOOLEAN, Loops!Begin(taken)
  PROVE  /\ outstanding' \in Seq(Loops!Commands)
         /\ rounds' \in 1..MaxRounds /\ tries' \in 1..MaxTries
         /\ l_success' = FALSE /\ event' = "none" /\ given_up' = FALSE
         /\ announced' = FALSE /\ fetched' = Loops!Nothing /\ unprocessed' = FALSE
         /\ missed' = missed
         /\ ~missed => \A i \in 1..Len(outstanding') : outstanding'[i].mine
         /\ ~missed /\ ~taken => outstanding' = <<>>
<1>1. outstanding \in Seq(Loops!Commands)
  BY DEF LoopInv, Loops!LoopTypeOK
<1>2. Loops!Disowned \in Seq(Loops!Commands) /\ Len(Loops!Disowned) = Len(outstanding)
  <2>1. DOMAIN outstanding = 1..Len(outstanding) /\ Len(outstanding) \in Nat
    BY <1>1
  <2>2. \A e \in Loops!Commands : [e EXCEPT !.mine = FALSE] \in Loops!Commands
    BY DEF Loops!Commands
  <2>3. \A i \in 1..Len(outstanding) : outstanding[i] \in Loops!Commands
    BY <1>1
  <2>4. QED
    BY <2>1, <2>2, <2>3 DEF Loops!Disowned
<1>3. Loops!Busy \in Loops!Commands /\ Loops!Busy.mine
  BY DEF Loops!Busy, Loops!Commands, Loops!Results
<1>4. outstanding' = IF taken THEN Append(Loops!Disowned, Loops!Busy) ELSE Loops!Disowned
  BY DEF Loops!Begin
<1>5. outstanding' \in Seq(Loops!Commands)
  BY <1>2, <1>3, <1>4
<1>6. ASSUME ~missed
      PROVE  /\ \A i \in 1..Len(outstanding') : outstanding'[i].mine
             /\ ~taken => outstanding' = <<>>
  <2>1. Len(Loops!Disowned) = 0
    BY <1>1, <1>2, <1>6 DEF LoopInv, LoopOwnCommand
  <2>2. /\ Len(Append(Loops!Disowned, Loops!Busy)) = 1
        /\ Append(Loops!Disowned, Loops!Busy)[1] = Loops!Busy
    BY <1>2, <2>1
  <2>3. Loops!Disowned = <<>>
    BY <1>2, <2>1, EmptySeq
  <2>4. CASE taken
    BY <1>3, <1>4, <2>2, <2>4
  <2>5. CASE ~taken
    BY <1>4, <2>3, <2>5
  <2>6. QED
    BY <2>4, <2>5
<1>7. rounds' \in 1..MaxRounds /\ tries' \in 1..MaxTries
  BY LoopAssumption DEF Loops!Begin, Loops!LoopConstants
<1>8. /\ l_success' = FALSE /\ given_up' = FALSE /\ announced' = FALSE /\ unprocessed' = FALSE
      /\ event' = "none" /\ fetched' = Loops!Nothing /\ missed' = missed
  BY DEF Loops!Begin
<1>9. QED
  BY <1>5, <1>6, <1>7, <1>8

LEMMA SendKeeps ==
  ASSUME LoopInv, Loops!Send_poll_cmd \/ Loops!Send_venc \/ Loops!Send_vdec
  PROVE  LoopInv'
<1>1. PICK taken \in BOOLEAN : Loops!Begin(taken) /\ (l_pc' = "idle" => ~taken)
  <2>1. CASE Loops!Send_poll_cmd
    BY <2>1 DEF Loops!Send_poll_cmd
  <2>2. CASE Loops!Send_venc \/ Loops!Send_vdec
    <3>1. l_pc' = "polling"
      BY <2>2 DEF Loops!Send_venc, Loops!Send_vdec
    <3>2. QED
      BY <2>2, <3>1 DEF Loops!Send_venc, Loops!Send_vdec
  <2>3. QED
    BY <2>1, <2>2
<1>2. /\ loop' = loop /\ param' = param /\ gone' = gone /\ l_pc = "idle"
      /\ general' \in BOOLEAN /\ brief' \in BOOLEAN
  BY Zenon DEF Loops!Send_poll_cmd, Loops!Send_venc, Loops!Send_vdec, LoopInv, Loops!LoopTypeOK,
               Loops!LoopFlags
<1>3. \/ l_pc' = "polling" /\ ret' = ret
      \/ l_pc' = "idle" /\ ret' \in {ret, "ERROR"}
  BY DEF Loops!Send_poll_cmd, Loops!Send_venc, Loops!Send_vdec
<1>4. /\ outstanding' \in Seq(Loops!Commands)
      /\ rounds' \in 1..MaxRounds /\ tries' \in 1..MaxTries
      /\ l_success' = FALSE /\ event' = "none" /\ given_up' = FALSE
      /\ announced' = FALSE /\ fetched' = Loops!Nothing /\ unprocessed' = FALSE
      /\ missed' = missed
      /\ ~missed => \A i \in 1..Len(outstanding') : outstanding'[i].mine
      /\ ~missed /\ ~taken => outstanding' = <<>>
  BY <1>1, <1>2, BeginKeeps
<1>5. (Loops!LoopTypeOK)'
  <2>1. (Loops!LoopFlags)'
    BY <1>2, <1>4, Zenon DEF Loops!LoopFlags, LoopInv, Loops!LoopTypeOK
  <2>2. Loops!Nothing \in Loops!Commands
    BY DEF Loops!Nothing, Loops!Commands
  <2>3. QED
    BY <1>2, <1>3, <1>4, <2>1, <2>2, LoopAssumption
       DEF Loops!LoopTypeOK, LoopInv, Loops!Results, Loops!LoopConstants
<1>6. LoopCounters' /\ LoopAnnounced' /\ (Loops!AnnouncedAnswerReturned)'
      /\ (Loops!InvalidNeverReturned)'
  BY <1>2, <1>3, <1>4, LoopAssumption
     DEF LoopInv, LoopCounters, LoopAnnounced, Loops!AnnouncedAnswerReturned,
         Loops!InvalidNeverReturned, Loops!LoopConstants
<1>7. LoopOwnCommand'
  BY <1>1, <1>4 DEF LoopOwnCommand, Loops!OlderOnlyAfterMissed
<1>8. QED
  BY <1>5, <1>6, <1>7 DEF LoopInv

LEMMA PollKeeps ==
  ASSUME LoopInv,
         \/ Loops!Poll_Timeout \/ Loops!Poll_Timeout_4kd2 \/ Loops!Poll_Fail_4kd2
         \/ Loops!Poll_Err \/ Loops!Poll_In
  PROVE  LoopInv'
<1> USE DEF Loops!Poll_Timeout, Loops!Poll_Timeout_4kd2, Loops!Poll_Fail_4kd2, Loops!Poll_Err,
            Loops!Poll_In, Loops!call, Loops!driver, Loops!history
<1>1. /\ l_pc = "polling" /\ l_pc' \in {"polling", "fetching"}
      /\ loop' = loop /\ general' = general /\ brief' = brief /\ missed' = missed
      /\ param' = param /\ ret' = ret /\ outstanding' = outstanding /\ gone' = gone
      /\ fetched' = fetched /\ unprocessed' = unprocessed
      /\ event' \in {"timeout", "fail", "in", "err"}
  OBVIOUS
<1>2. /\ rounds' \in {rounds, 1}
      /\ tries' \in 0..MaxTries /\ (l_pc' = "polling" => tries' >= 1)
  BY LoopAssumption DEF LoopInv, Loops!LoopTypeOK, LoopCounters, Loops!LoopConstants
<1>3. (Loops!LoopTypeOK)'
  <2>1. (Loops!LoopFlags)'
    BY <1>1, Zenon DEF Loops!LoopFlags, LoopInv, Loops!LoopTypeOK
  <2>2. QED
    BY <1>1, <1>2, <2>1, LoopAssumption
       DEF Loops!LoopTypeOK, LoopInv, Loops!Results, Loops!LoopConstants
<1>4. LoopCounters' /\ LoopOwnCommand'
  <2>1. given_up' => loop = "4kd2" /\ l_pc' # "polling" /\ event' = "timeout"
    BY <1>1 DEF LoopInv, LoopCounters
  <2>2. QED
    BY <1>1, <1>2, <2>1 DEF LoopInv, LoopCounters, LoopOwnCommand, Loops!LoopTypeOK,
       Loops!OlderOnlyAfterMissed
(* Only Poll_In announces, an answer that is there; the other polls leave  *)
(* what was announced before as it is.                                     *)
<1>5. LoopAnnounced'
  <2>1. CASE Loops!Poll_In
    BY <1>1, <2>1 DEF LoopInv, LoopAnnounced, Loops!Answered
  <2>2. CASE ~Loops!Poll_In
    <3>1. announced' = announced /\ l_success' = l_success /\ event' # "in"
      BY <2>2
    <3>2. QED
      BY <1>1, <3>1 DEF LoopInv, LoopAnnounced
  <2>3. QED
    BY <2>1, <2>2
<1>6. QED
  BY <1>1, <1>3, <1>4, <1>5
     DEF LoopInv, Loops!AnnouncedAnswerReturned, Loops!InvalidNeverReturned

(* A fetch takes the first answer there is, which is this call's own       *)
(* unless some call came back without its own.                             *)
LEMMA FetchKeeps ==
  ASSUME LoopInv, l_pc = "fetching", Loops!Fetch
  PROVE  /\ outstanding' \in Seq(Loops!Commands)
         /\ param' \in Loops!Results /\ fetched' \in Loops!Commands
         /\ unprocessed' = (unprocessed \/ fetched'.answer = "INVALID")
         /\ ~missed => /\ \A i \in 1..Len(outstanding') : outstanding'[i].mine
                       /\ fetched' = Loops!Nothing \/ fetched'.mine
         /\ IF Loops!Answered THEN fetched' # Loops!Nothing /\ param' = fetched'.answer
            ELSE fetched' = Loops!Nothing /\ outstanding' = outstanding
<1>1. /\ outstanding \in Seq(Loops!Commands) /\ param \in Loops!Results
      /\ ~missed => \A i \in 1..Len(outstanding) : outstanding[i].mine
  BY DEF LoopInv, Loops!LoopTypeOK, LoopOwnCommand
<1>2. Loops!Unwritten \in Loops!Results /\ Loops!Nothing \in Loops!Commands
  BY <1>1 DEF Loops!Unwritten, Loops!Results, Loops!Nothing, Loops!Commands
<1>3. CASE ~Loops!Answered
  BY <1>1, <1>2, <1>3 DEF Loops!Fetch
<1>4. CASE Loops!Answered
  <2>1. outstanding # <<>> /\ Head(outstanding) \in Loops!Commands
    BY <1>1, <1>4 DEF Loops!Answered
  <2>2. Head(outstanding).answer \in Loops!Results /\ Head(outstanding) # Loops!Nothing
    BY <1>4, <2>1 DEF Loops!Answered, Loops!Commands, Loops!Nothing
  <2>3. /\ Tail(outstanding) \in Seq(Loops!Commands)
        /\ Len(outstanding) \in Nat \ {0} /\ Len(Tail(outstanding)) = Len(outstanding) - 1
        /\ Head(outstanding) = outstanding[1]
        /\ \A i \in 1..Len(Tail(outstanding)) : Tail(outstanding)[i] = outstanding[i + 1]
    BY <1>1, <2>1
  <2>4. ASSUME ~missed
        PROVE  /\ \A i \in 1..Len(Tail(outstanding)) : Tail(outstanding)[i].mine
               /\ Head(outstanding).mine
    BY <1>1, <2>3, <2>4
  <2>5. /\ fetched' = Head(outstanding) /\ outstanding' = Tail(outstanding)
        /\ param' = fetched'.answer
    BY <1>4 DEF Loops!Fetch
  <2>6. QED
    BY <1>4, <2>1, <2>2, <2>3, <2>4, <2>5 DEF Loops!Fetch
<1>5. QED
  BY <1>3, <1>4

(* A result: the call is over, or it goes on polling with a round less.    *)
LEMMA ResultKeeps ==
  ASSUME LoopInv,
         Loops!Result_poll_cmd \/ Loops!Result_venc \/ Loops!Result_vdec \/ Loops!Result_4kd2
  PROVE  LoopInv'
<1> DEFINE left == \E i \in DOMAIN outstanding' : outstanding'[i].mine
<1> USE DEF Loops!Result_poll_cmd, Loops!Result_venc, Loops!Result_vdec, Loops!Result_4kd2,
            Loops!Again, Loops!Return, Loops!call
<1>1. /\ l_pc = "fetching" /\ Loops!Fetch
      /\ loop' = loop /\ general' = general /\ brief' = brief
      /\ l_success' = l_success /\ event' = event /\ given_up' = given_up
      /\ gone' = gone /\ announced' = announced
  OBVIOUS
<1>2. /\ outstanding' \in Seq(Loops!Commands)
      /\ param' \in Loops!Results /\ fetched' \in Loops!Commands
      /\ unprocessed' = (unprocessed \/ fetched'.answer = "INVALID")
      /\ ~missed => /\ \A i \in 1..Len(outstanding') : outstanding'[i].mine
                    /\ fetched' = Loops!Nothing \/ fetched'.mine
      /\ IF Loops!Answered THEN fetched' # Loops!Nothing /\ param' = fetched'.answer
         ELSE fetched' = Loops!Nothing /\ outstanding' = outstanding
  BY <1>1, FetchKeeps
<1>3. /\ rounds \in 1..MaxRounds
      /\ announced => IF loop = "poll_cmd" THEN rounds = 1 ELSE l_success
      /\ given_up => loop # "poll_cmd"
  BY <1>1, LoopAssumption
     DEF LoopInv, Loops!LoopTypeOK, LoopCounters, LoopAnnounced, Loops!LoopConstants
<1>4. \/ /\ l_pc' = "polling" /\ tries' = MaxTries /\ rounds' = rounds - 1 /\ rounds' >= 1
         /\ ret' = ret /\ missed' = missed /\ ~given_up
         /\ announced => loop # "poll_cmd" /\ param' = "INVALID"
      \/ /\ l_pc' = "idle" /\ tries' = tries /\ rounds' \in {rounds, rounds - 1}
         /\ missed' = (missed \/ left)
         /\ ret' \in {param', "CODEC_EXIT"} /\ ret' # "INVALID"
         /\ announced => ret' = IF given_up \/ param' = "INVALID" THEN "CODEC_EXIT" ELSE param'
  <2>1. CASE Loops!Result_poll_cmd
    BY <1>3, <2>1
  <2>2. CASE Loops!Result_venc \/ Loops!Result_vdec \/ Loops!Result_4kd2
    BY <1>1, <1>3, <2>2 DEF LoopInv, Loops!LoopTypeOK, Loops!LoopFlags
  <2>3. QED
    BY <2>1, <2>2
<1>5. (Loops!LoopTypeOK)'
  <2>1. missed' \in BOOLEAN /\ unprocessed' \in BOOLEAN
    BY <1>2, <1>4 DEF LoopInv, Loops!LoopTypeOK, Loops!LoopFlags
  <2>2. (Loops!LoopFlags)'
    BY <1>1, <2>1, Zenon DEF Loops!LoopFlags, LoopInv, Loops!LoopTypeOK
  <2>3. rounds' \in 0..MaxRounds /\ tries' \in 0..MaxTries
    BY <1>1, <1>4, LoopAssumption
       DEF LoopInv, Loops!LoopTypeOK, LoopCounters, Loops!LoopConstants
  <2>4. QED
    BY <1>1, <1>2, <1>4, <2>2, <2>3
       DEF Loops!LoopTypeOK, LoopInv, Loops!Results
<1>6. LoopCounters'
  BY <1>1, <1>4, LoopAssumption DEF LoopInv, LoopCounters, Loops!LoopConstants
<1>7. LoopOwnCommand'
  <2>1. ASSUME ~missed', l_pc' = "idle" PROVE outstanding' = <<>>
    <3>1. ~missed /\ ~left
      BY <1>4, <2>1
    <3>2. DOMAIN outstanding' = 1..Len(outstanding') /\ Len(outstanding') \in Nat
      BY <1>2
    <3>3. 1 \notin 1..Len(outstanding')
      BY <1>2, <3>1, <3>2
    <3>4. Len(outstanding') = 0
      BY <3>2, <3>3
    <3>5. QED
      BY <1>2, <3>4, EmptySeq
  <2>2. ~missed' => ~missed
    BY <1>4
  <2>3. QED
    BY <1>2, <2>1, <2>2 DEF LoopOwnCommand, Loops!OlderOnlyAfterMissed
(* An answer that was announced is fetched now, or the device has gone.    *)
<1>8. announced => \/ Loops!Answered
                   \/ gone
                   \/ unprocessed
  BY <1>1 DEF LoopInv, LoopAnnounced
<1>9. LoopAnnounced'
  <2>1. SUFFICES ASSUME l_pc' = "polling", announced
                 PROVE  l_success /\ loop # "poll_cmd" /\ (unprocessed' \/ gone)
    BY <1>1, <1>4 DEF LoopAnnounced
  <2>2. QED
    BY <1>2, <1>3, <1>4, <1>8, <2>1
<1>10. (Loops!AnnouncedAnswerReturned)'
  <2>1. SUFFICES ASSUME l_pc' = "idle", announced
                 PROVE  IF fetched' = Loops!Nothing THEN gone \/ unprocessed'
                        ELSE ret' = IF given_up \/ fetched'.answer = "INVALID"
                                    THEN "CODEC_EXIT" ELSE fetched'.answer
    BY <1>1 DEF Loops!AnnouncedAnswerReturned
  <2>2. QED
    BY <1>2, <1>4, <1>8, <2>1
<1>11. (Loops!InvalidNeverReturned)'
  BY <1>4 DEF LoopInv, Loops!InvalidNeverReturned
<1>12. QED
  BY <1>5, <1>6, <1>7, <1>9, <1>10, <1>11 DEF LoopInv

LEMMA DriverKeeps ==
  ASSUME LoopInv, Loops!Driver_Answer \/ Loops!Driver_HangUp
  PROVE  LoopInv'
<1>1. /\ l_pc' = l_pc /\ rounds' = rounds /\ tries' = tries /\ l_success' = l_success
      /\ loop' = loop /\ general' = general /\ brief' = brief /\ missed' = missed
      /\ event' = event /\ given_up' = given_up /\ param' = param /\ ret' = ret
      /\ announced' = announced /\ fetched' = fetched /\ unprocessed' = unprocessed
  BY DEF Loops!Driver_Answer, Loops!Driver_HangUp, Loops!call, Loops!history
<1>2. gone' = gone \/ gone' = TRUE
  BY DEF Loops!Driver_Answer, Loops!Driver_HangUp
<1>3. outstanding \in Seq(Loops!Commands)
  BY DEF LoopInv, Loops!LoopTypeOK
<1>4. CASE Loops!Driver_HangUp
  <2>1. gone' = TRUE /\ outstanding' = <<>>
    BY <1>4 DEF Loops!Driver_HangUp
  <2>2. (Loops!LoopFlags)'
    BY <1>1, <2>1, Zenon DEF Loops!LoopFlags, LoopInv, Loops!LoopTypeOK
  <2>3. (Loops!LoopTypeOK)'
    BY <1>1, <2>1, <2>2 DEF LoopInv, Loops!LoopTypeOK
  <2>4. LoopOwnCommand'
    BY <1>1, <2>1 DEF LoopInv, LoopOwnCommand, Loops!OlderOnlyAfterMissed
  <2>5. QED
    BY <1>1, <2>1, <2>3, <2>4 DEF LoopInv, LoopCounters, LoopAnnounced,
       Loops!AnnouncedAnswerReturned, Loops!InvalidNeverReturned
<1>5. CASE Loops!Driver_Answer
  <2>1. gone' = gone
    BY <1>5 DEF Loops!Driver_Answer
  <2>2. PICK i \in DOMAIN outstanding, a \in Loops!Results :
          /\ outstanding[i].answer = "none"
          /\ outstanding' = [outstanding EXCEPT ![i].answer = a]
    BY <1>5, Zenon DEF Loops!Driver_Answer
  <2>3. /\ i \in 1..Len(outstanding)
        /\ [outstanding[i] EXCEPT !.answer = a] \in Loops!Commands
        /\ [outstanding[i] EXCEPT !.answer = a].mine = outstanding[i].mine
        /\ [outstanding[i] EXCEPT !.answer = a].answer # "none"
    <3>1. i \in 1..Len(outstanding) /\ outstanding[i] \in Loops!Commands
      BY <1>3, <2>2
    <3>2. \A e \in Loops!Commands :
            /\ [e EXCEPT !.answer = a] \in Loops!Commands
            /\ [e EXCEPT !.answer = a].mine = e.mine
            /\ [e EXCEPT !.answer = a].answer = a
      BY DEF Loops!Commands
    <3>3. a # "none"
      BY DEF Loops!Results
    <3>4. QED
      BY <3>1, <3>2, <3>3
  <2>4. /\ outstanding' \in Seq(Loops!Commands) /\ Len(outstanding') = Len(outstanding)
        /\ \A j \in 1..Len(outstanding) :
             outstanding'[j] = IF j = i THEN [outstanding[i] EXCEPT !.answer = a]
                               ELSE outstanding[j]
    BY <1>3, <2>2, <2>3, ExceptSeq
  <2>5. (Loops!LoopTypeOK)'
    <3>1. (Loops!LoopFlags)'
      BY <1>1, <2>1, Zenon DEF Loops!LoopFlags, LoopInv, Loops!LoopTypeOK
    <3>2. QED
      BY <1>1, <2>1, <2>4, <3>1 DEF LoopInv, Loops!LoopTypeOK
  <2>6. LoopOwnCommand'
    <3>1. ASSUME ~missed, l_pc # "idle"
          PROVE  \A j \in 1..Len(outstanding') : outstanding'[j].mine
      BY <2>3, <2>4, <3>1 DEF LoopInv, LoopOwnCommand
    <3>2. ASSUME ~missed, l_pc = "idle" PROVE FALSE
      BY <2>3, <3>2 DEF LoopInv, LoopOwnCommand
    <3>3. QED
      BY <1>1, <3>1, <3>2 DEF LoopInv, LoopOwnCommand, Loops!OlderOnlyAfterMissed
  <2>7. LoopAnnounced'
    <3>1. Loops!Answered => Head(outstanding').answer # "none" /\ outstanding' # <<>>
      <4>1. SUFFICES ASSUME outstanding # <<>>, Head(outstanding).answer # "none"
                     PROVE  Head(outstanding').answer # "none" /\ outstanding' # <<>>
        BY DEF Loops!Answered
      <4>2. Head(outstanding) = outstanding[1] /\ 1 \in 1..Len(outstanding)
        BY <1>3, <4>1
      <4>3. Head(outstanding') = outstanding'[1] /\ outstanding' # <<>>
        BY <1>3, <2>4, <4>1
      <4>4. QED
        BY <2>3, <2>4, <4>1, <4>2, <4>3
    <3>2. Loops!Answered => (Loops!Answered)'
      BY <3>1 DEF Loops!Answered
    <3>3. QED
      BY <1>1, <2>1, <3>2 DEF LoopInv, LoopAnnounced
  <2>8. QED
    BY <1>1, <2>1, <2>5, <2>6, <2>7
       DEF LoopInv, LoopCounters, Loops!AnnouncedAnswerReturned, Loops!InvalidNeverReturned
<1>6. QED
  BY <1>4, <1>5

LEMMA LoopStep == LoopInv /\ [Loops!Next]_(Loops!vars) => LoopInv'
<1> SUFFICES ASSUME LoopInv, [Loops!Next]_(Loops!vars) PROVE LoopInv'
  OBVIOUS
<1>1. CASE Loops!Send_poll_cmd \/ Loops!Send_venc \/ Loops!Send_vdec
  BY <1>1, SendKeeps
<1>2. CASE \/ Loops!Poll_Timeout \/ Loops!Poll_Timeout_4kd2 \/ Loops!Poll_Fail_4kd2
           \/ Loops!Poll_Err \/ Loops!Poll_In
  BY <1>2, PollKeeps
<1>3. CASE \/ Loops!Result_poll_cmd \/ Loops!Result_venc \/ Loops!Result_vdec
           \/ Loops!Result_4kd2
  BY <1>3, ResultKeeps
<1>4. CASE Loops!Driver_Answer \/ Loops!Driver_HangUp
  BY <1>4, DriverKeeps
<1>5. CASE Loops!Poll_Unknown \/ UNCHANGED Loops!vars
  <2>1. UNCHANGED Loops!vars
    BY <1>5 DEF Loops!Poll_Unknown
  <2>2. QED
    BY <2>1 DEF Loops!vars, LoopInv, Loops!LoopTypeOK, Loops!LoopFlags, LoopCounters,
       LoopOwnCommand, LoopAnnounced, Loops!Answered, Loops!OlderOnlyAfterMissed,
       Loops!AnnouncedAnswerReturned, Loops!InvalidNeverReturned
<1>6. QED
  BY <1>1, <1>2, <1>3, <1>4, <1>5 DEF Loops!Next, Loops!Loop
------------------------------------------------------------------------------
(* How many references there are in each mode, and which field comes next: *)
(* none while the search goes on, one while B pictures are skipped, and    *)
(* two wherever a B picture will be decoded.                               *)
SkipReferences ==
  /\ skip.eFrameSkipMode = "I_SEARCH" => refs = 0 /\ second \notin {"I", "IDR"}
  /\ skip.eFrameSkipMode = "NEXT_B_SKIP" =>
       fields /\ second # "none" /\ refs = 0 /\ gop[pos] \in {"I", "IDR"}
  /\ skip.eFrameSkipMode = "B_SKIP" => codec # "h265" /\ refs = 1 /\ second \in {"none", "B"}
  /\ skip.eFrameSkipMode = "B_WAIT" => codec = "h265" /\ refs \in {1, 2}
  /\ skip.eFrameSkipMode = "NONE" =>
       refs \in {1, 2} /\ (codec # "h265" /\ gop[pos] = "B" => refs = 2)

SkipStream ==
  /\ fields \in BOOLEAN
  /\ fields => plugin = "vdec" /\ codec # "h265"
  /\ ~fields => second = "none"

SkipInv ==
  Skip!SkipTypeOK /\ SkipStream /\ SkipReferences /\ Skip!NoneBroken /\ Skip!NoneLost
(* A mode and what it asks the driver to skip.                             *)
LEMMA SkipModes ==
  ASSUME Skip!SkipTypeOK
  PROVE  /\ skip.eFrameSkipMode \in {"NONE", "NEXT_B_SKIP", "B_WAIT", "B_SKIP", "I_SEARCH"}
         /\ Skip!Request = CASE skip.eFrameSkipMode = "I_SEARCH" -> "except_i"
                             [] skip.eFrameSkipMode = "B_SKIP"   -> "only_b"
                             [] OTHER                            -> "disable"
<1>1. CASE skip = Skip!FirstMode(plugin, codec)
  <2>1. skip.eFrameSkipMode = "I_SEARCH" /\ Skip!Request = "except_i"
    BY <1>1 DEF Skip!SkipTypeOK, Skip!FirstMode, Skip!SetFrameSkipMode, Skip!Parameters,
                Skip!Request
  <2>. QED  BY <2>1
<1>2. CASE \E m \in {"NONE", "NEXT_B_SKIP", "B_WAIT", "B_SKIP"} :
             skip = Skip!SetFrameSkipMode(m, codec)
  <2>1. PICK m \in {"NONE", "NEXT_B_SKIP", "B_WAIT", "B_SKIP"} :
          skip = Skip!SetFrameSkipMode(m, codec)
    BY <1>2
  <2>2. skip.eFrameSkipMode = m
    BY <2>1 DEF Skip!SetFrameSkipMode, Skip!Parameters
  <2>3. Skip!Request = IF m = "B_SKIP" THEN "only_b" ELSE "disable"
    BY <2>1 DEF Skip!SetFrameSkipMode, Skip!Parameters, Skip!Request
  <2>. QED  BY <2>2, <2>3
<1>. QED  BY <1>1, <1>2 DEF Skip!SkipTypeOK

(* A result leaves the mode as it is, or moves it on.                      *)
LEMMA ResultMovesMode ==
  ASSUME Skip!SkipTypeOK, NEW r, Skip!FillDecodingResult(r)
  PROVE  LET next_mode == Skip!NextMode(skip.eFrameSkipMode, codec,
                            Skip!DecodingStatus(plugin, r), Skip!GetFrameType(codec, r))
         IN  IF skip.eFrameSkipMode # "NONE" /\ r.idx >= 0
             THEN /\ skip'.eFrameSkipMode = next_mode
                  /\ skip' \in {Skip!SetFrameSkipMode(m, codec) :
                                  m \in {"NONE", "NEXT_B_SKIP", "B_WAIT", "B_SKIP"}}
             ELSE skip' = skip
<1>. DEFINE next_mode == Skip!NextMode(skip.eFrameSkipMode, codec,
                            Skip!DecodingStatus(plugin, r), Skip!GetFrameType(codec, r))
<1>1. CASE skip.eFrameSkipMode # "NONE" /\ r.idx >= 0
  <2>1. skip' = Skip!SetFrameSkipMode(next_mode, codec)
    BY <1>1 DEF Skip!FillDecodingResult
  <2>2. next_mode \in {"NONE", "NEXT_B_SKIP", "B_WAIT", "B_SKIP"}
    BY <1>1, SkipModes DEF Skip!NextMode
  <2>3. skip'.eFrameSkipMode = next_mode
    <3>. HIDE DEF next_mode
    <3>. QED  BY <2>1, <2>2 DEF Skip!SetFrameSkipMode, Skip!Parameters
  <2>. QED  BY <1>1, <2>1, <2>2, <2>3
<1>2. CASE ~(skip.eFrameSkipMode # "NONE" /\ r.idx >= 0)
  BY <1>2 DEF Skip!FillDecodingResult
<1>. QED  BY <1>1, <1>2

LEMMA SkipInitInv ==
  ASSUME FieldPlugins \subseteq {"vdec"}, Skip!Init
  PROVE  SkipInv
<1>1. /\ plugin \in {"legacy", "vdec"} /\ codec \in SkipCodecs /\ gop \in Gops
      /\ pos \in 1..Len(gop) /\ refs = 0 /\ second = "none"
  BY SkipAssumption DEF Skip!Init, Skip!SkipConstants
<1>2. skip = Skip!FirstMode(plugin, codec) /\ skip.eFrameSkipMode = "I_SEARCH"
  BY DEF Skip!Init, Skip!FirstMode, Skip!SetFrameSkipMode, Skip!Parameters
<1>3. Skip!SkipTypeOK
  BY <1>1, <1>2 DEF Skip!SkipTypeOK
<1>4. fields \in BOOLEAN /\ (fields => plugin = "vdec" /\ codec # "h265")
  BY Zenon DEF Skip!Init
<1>5. Skip!NoneBroken /\ Skip!NoneLost
  BY Zenon DEF Skip!Init, Skip!NoneBroken, Skip!NoneLost
<1>. QED  BY <1>1, <1>2, <1>3, <1>4, <1>5 DEF SkipInv, SkipStream, SkipReferences

(* What every step of the stream leaves as it is, and what the next        *)
(* picture is.                                                             *)
LEMMA PictureTypes ==
  ASSUME Skip!SkipTypeOK
  PROVE  /\ Skip!IsGop(gop) /\ Len(gop) \in Nat \ {0}
         /\ gop[pos] \in {"I", "IDR", "P", "B"}
         /\ (pos % Len(gop)) + 1 \in 1..Len(gop)
         /\ gop[pos] = "IDR" => gop[(pos % Len(gop)) + 1] # "B"
         /\ Skip!Type \in {"I", "IDR", "P", "B"}
<1>1. Skip!IsGop(gop)
  BY SkipAssumption DEF Skip!SkipConstants, Skip!SkipTypeOK
<1>2. gop \in Seq({"IDR", "I", "P", "B"}) /\ pos \in 1..Len(gop) /\ Len(gop) \in Nat
  BY <1>1 DEF Skip!IsGop, Skip!SkipTypeOK
<1>3. gop[pos] \in {"I", "IDR", "P", "B"} /\ Len(gop) \in Nat \ {0}
  BY <1>2
<1>4. (pos % Len(gop)) + 1 \in 1..Len(gop)
  BY <1>2, <1>3
<1>5. gop[pos] = "IDR" => gop[(pos % Len(gop)) + 1] # "B"
  BY <1>1, <1>2 DEF Skip!IsGop
<1>6. Skip!Type \in {"I", "IDR", "P", "B"}
  BY <1>3 DEF Skip!Type, Skip!SkipTypeOK
<1>. QED  BY <1>1, <1>3, <1>4, <1>5, <1>6

(* A full driver changes nothing.                                          *)
LEMMA FullKeeps ==
  ASSUME SkipInv, Skip!DriverFull
  PROVE  SkipInv'
<1>1. skip' = skip
  <2>1. Skip!FillDecodingResult(Skip!Result("full", "fail", -1, "none"))
    BY DEF Skip!DriverFull
  <2>2. ~(Skip!Result("full", "fail", -1, "none").idx >= 0)
    BY DEF Skip!Result
  <2>. QED  BY <2>1, <2>2 DEF Skip!FillDecodingResult
<1>. QED
  BY <1>1 DEF Skip!DriverFull, Skip!stream, SkipInv, Skip!SkipTypeOK, SkipStream, SkipReferences,
       Skip!NoneBroken, Skip!NoneLost

(* A picture that is skipped has not got its references: the search and    *)
(* the skipping of B pictures have found fewer.                            *)
LEMMA SkippedNotDecodable ==
  ASSUME SkipInv, Skip!Skipped \/ Skip!Dropped, second = "none"
  PROVE  ~Skip!Decodable
<1>1. CASE Skip!Dropped
  BY <1>1 DEF Skip!Dropped
<1>2. CASE Skip!Skipped
  <2>1. \/ skip.eFrameSkipMode = "I_SEARCH" /\ Skip!Type \notin {"I", "IDR"}
        \/ skip.eFrameSkipMode = "B_SKIP" /\ Skip!Type = "B"
    BY <1>2, SkipModes DEF SkipInv, Skip!Skipped
  <2>. QED  BY <2>1 DEF SkipInv, SkipReferences, Skip!Decodable
<1>. QED  BY <1>1, <1>2
LEMMA SkipsKeep ==
  ASSUME SkipInv, Skip!DriverSkips
  PROVE  SkipInv'
<1>. USE DEF SkipInv
<1>1. /\ skip' = skip /\ plugin' = plugin /\ codec' = codec /\ gop' = gop /\ fields' = fields
      /\ refs' = refs /\ broken' = broken
  <2>1. PICK o \in {"success", "fail"} :
          Skip!FillDecodingResult(Skip!Result("success", o, -2, "none"))
    BY Zenon DEF Skip!DriverSkips
  <2>2. ~(Skip!Result("success", o, -2, "none").idx >= 0)
    BY DEF Skip!Result
  <2>3. skip' = skip
    BY <2>1, <2>2 DEF Skip!FillDecodingResult
  <2>. QED  BY <2>3, Zenon DEF Skip!DriverSkips, Skip!stream
<1>2. Skip!NoneBroken' /\ Skip!NoneLost'
  <2>1. second = "none" => ~Skip!Decodable
    BY SkippedNotDecodable DEF Skip!DriverSkips
  <2>2. lost' = (lost \/ (Skip!Decodable /\ second = "none"))
    BY Zenon DEF Skip!DriverSkips
  <2>. QED  BY <1>1, <2>1, <2>2, Zenon DEF Skip!NoneBroken, Skip!NoneLost
<1>3. SkipStream'
  BY <1>1 DEF SkipStream, Skip!DriverSkips, Skip!NextPicture
<1>4. CASE fields /\ second = "none"
  <2>1. second' = gop[pos] /\ pos' = pos
    BY <1>4, Zenon DEF Skip!DriverSkips
  <2>2. Skip!SkipTypeOK'
    BY <1>1, <2>1, PictureTypes DEF Skip!SkipTypeOK
  <2>3. \/ skip.eFrameSkipMode = "I_SEARCH" /\ gop[pos] \notin {"I", "IDR"}
        \/ skip.eFrameSkipMode = "B_SKIP" /\ gop[pos] = "B"
    <3>1. Skip!Skipped /\ Skip!Type = gop[pos]
      BY <1>4 DEF Skip!DriverSkips, Skip!Dropped, SkipStream, Skip!Type
    <3>. QED  BY <3>1, SkipModes DEF Skip!Skipped
  <2>4. SkipReferences'
    BY <1>1, <2>1, <2>3 DEF SkipReferences
  <2>. QED  BY <1>2, <1>3, <2>2, <2>4
<1>5. CASE ~(fields /\ second = "none")
  <2>1. second' = "none" /\ pos' = (pos % Len(gop)) + 1
    BY <1>5, Zenon DEF Skip!DriverSkips, Skip!NextPicture
  <2>2. Skip!SkipTypeOK'
    BY <1>1, <2>1, PictureTypes DEF Skip!SkipTypeOK
  <2>3. \/ skip.eFrameSkipMode \in {"I_SEARCH", "B_SKIP"}
        \/ codec = "h265"
    BY SkipModes DEF Skip!DriverSkips, Skip!Skipped, Skip!Dropped
  <2>4. SkipReferences'
    BY <1>1, <2>1, <2>3 DEF SkipReferences, SkipStream
  <2>. QED  BY <1>2, <1>3, <2>2, <2>4
<1>. QED  BY <1>4, <1>5

(* A picture that is decoded has got its references.                       *)
LEMMA DecodedDecodable ==
  ASSUME SkipInv, ~Skip!Skipped, ~Skip!Dropped
  PROVE  /\ Skip!Decodable
         /\ skip.eFrameSkipMode = "I_SEARCH" => Skip!Type \in {"I", "IDR"} /\ second = "none"
         /\ skip.eFrameSkipMode = "B_SKIP" => Skip!Type # "B"
<1>. USE DEF SkipInv
<1>1. skip.eFrameSkipMode = "I_SEARCH" => Skip!Type \in {"I", "IDR"}
  BY SkipModes DEF Skip!Skipped
<1>2. skip.eFrameSkipMode = "I_SEARCH" => second = "none"
  BY <1>1 DEF Skip!Type, SkipReferences
<1>3. skip.eFrameSkipMode = "B_SKIP" => Skip!Type # "B"
  BY SkipModes DEF Skip!Skipped
<1>4. Skip!Decodable
  <2>. SUFFICES ASSUME Skip!Type \notin {"I", "IDR"}, second = "none"
                PROVE  Skip!Decodable
    BY DEF Skip!Decodable
  <2>1. CASE skip.eFrameSkipMode = "B_SKIP"
    BY <1>3, <2>1, PictureTypes DEF SkipReferences, Skip!Decodable
  <2>2. CASE skip.eFrameSkipMode = "B_WAIT"
    BY <2>2, PictureTypes DEF SkipReferences, Skip!Decodable, Skip!Dropped
  <2>3. CASE skip.eFrameSkipMode = "NONE"
    BY <2>3, PictureTypes DEF SkipReferences, Skip!Decodable, Skip!Dropped, Skip!Type
  <2>4. CASE skip.eFrameSkipMode = "NEXT_B_SKIP"
    BY <2>4 DEF SkipReferences
  <2>. QED  BY <1>1, <2>1, <2>2, <2>3, <2>4, SkipModes
<1>. QED  BY <1>1, <1>2, <1>3, <1>4

(* What a decoded picture is, whichever field of it was decoded, and       *)
(* where it leaves the mode: the first field of a reference picture is     *)
(* enough to end the skipping of B pictures.                               *)
LEMMA DecodesMovesMode ==
  ASSUME SkipInv, NEW r, Skip!FillDecodingResult(r), r.idx >= 0,
         Skip!GetFrameType(codec, r) \in {"I", "IDR", "P", "B"}
  PROVE  /\ skip' \in {Skip!SetFrameSkipMode(m, codec) :
                         m \in {"NONE", "NEXT_B_SKIP", "B_WAIT", "B_SKIP"}}
                      \union {Skip!FirstMode(plugin, codec)}
         /\ skip.eFrameSkipMode = "NONE" => skip'.eFrameSkipMode = "NONE"
         /\ skip.eFrameSkipMode = "I_SEARCH" =>
              skip'.eFrameSkipMode =
                IF codec = "h265" THEN "B_WAIT"
                ELSE IF Skip!DecodingStatus(plugin, r) = "field" THEN "NEXT_B_SKIP" ELSE "B_SKIP"
         /\ skip.eFrameSkipMode = "NEXT_B_SKIP" => skip'.eFrameSkipMode = "B_SKIP"
         /\ skip.eFrameSkipMode = "B_SKIP" =>
              skip'.eFrameSkipMode =
                IF Skip!GetFrameType(codec, r) # "B" THEN "NONE" ELSE "B_SKIP"
         /\ skip.eFrameSkipMode = "B_WAIT" =>
              skip'.eFrameSkipMode =
                IF Skip!GetFrameType(codec, r) = "B" THEN "NONE" ELSE "B_WAIT"
<1>. USE DEF SkipInv
<1>1. CASE skip.eFrameSkipMode = "NONE"
  BY <1>1, ResultMovesMode DEF Skip!SkipTypeOK
<1>2. CASE skip.eFrameSkipMode # "NONE"
  <2>1. /\ skip'.eFrameSkipMode = Skip!NextMode(skip.eFrameSkipMode, codec,
                            Skip!DecodingStatus(plugin, r), Skip!GetFrameType(codec, r))
        /\ skip' \in {Skip!SetFrameSkipMode(m, codec) :
                         m \in {"NONE", "NEXT_B_SKIP", "B_WAIT", "B_SKIP"}}
    BY <1>2, ResultMovesMode
  <2>. QED  BY <1>2, <2>1 DEF Skip!NextMode
<1>. QED  BY <1>1, <1>2

LEMMA DecodesKeep ==
  ASSUME SkipInv, Skip!DriverDecodes
  PROVE  SkipInv'
<1>. USE DEF SkipInv
<1>1. ~Skip!Skipped /\ ~Skip!Dropped /\ Skip!Decodable
  BY DecodedDecodable DEF Skip!DriverDecodes
<1>2. plugin' = plugin /\ codec' = codec /\ gop' = gop /\ fields' = fields
  BY DEF Skip!DriverDecodes, Skip!stream
<1>3. Skip!NoneBroken' /\ Skip!NoneLost'
  <2>1. broken' = (broken \/ ~Skip!Decodable) /\ lost' = lost
    BY Zenon DEF Skip!DriverDecodes
  <2>. QED  BY <1>1, <2>1, Zenon DEF Skip!NoneBroken, Skip!NoneLost
<1>4. CASE fields /\ second = "none"
  <2>1. PICK o \in {"success", "fail"}, t \in Skip!SecondTypes,
             lower \in Skip!SecondTypes \union {"none"} :
          /\ lower \in {t, "none"} /\ second' = t /\ pos' = pos /\ refs' = refs
          /\ Skip!FillDecodingResult(Skip!Result("field", o, 0, lower))
    BY <1>4, Zenon DEF Skip!DriverDecodes
  <2>. DEFINE r == Skip!Result("field", o, 0, lower)
  <2>2. /\ r.idx = 0 /\ r.status = "field" /\ r.upper = gop[pos] /\ r.lower = lower
        /\ Skip!Type = gop[pos]
    BY <1>4 DEF Skip!Result, Skip!Type
  <2>3. /\ t \in {"I", "IDR", "P", "B"} /\ t \in {"I", "P"} \union {gop[pos]}
        /\ gop[pos] \in {"I", "IDR"} => t \in {"I", "P"}
        /\ gop[pos] \notin {"I", "IDR"} => t = gop[pos]
    BY PictureTypes DEF Skip!SecondTypes
  <2>4. /\ Skip!GetFrameType(codec, r) \in {gop[pos], t}
        /\ Skip!GetFrameType(codec, r) \in {"I", "IDR", "P", "B"}
        /\ Skip!DecodingStatus(plugin, r) = "field"
    <3>. HIDE DEF r
    <3>. QED
      BY <1>4, <2>1, <2>2, <2>3, PictureTypes
      DEF Skip!GetFrameType, Skip!DecodingStatus, SkipStream
  <2>5. Skip!FillDecodingResult(r) /\ r.idx >= 0
    BY <2>1, <2>2
  <2>. HIDE DEF r
  <2>6. Skip!SkipTypeOK'
    BY <1>2, <2>1, <2>3, <2>4, <2>5, DecodesMovesMode DEF Skip!SkipTypeOK
  <2>7. SkipStream'
    BY <1>2, <1>4 DEF SkipStream
  <2>8. SkipReferences'
    <3>1. CASE skip.eFrameSkipMode = "I_SEARCH"
      <4>1. skip'.eFrameSkipMode = "NEXT_B_SKIP" /\ gop[pos] \in {"I", "IDR"} /\ refs = 0
        BY <1>1, <1>4, <2>2, <2>4, <2>5, <3>1, DecodesMovesMode, DecodedDecodable
        DEF SkipReferences, SkipStream
      <4>. QED  BY <1>2, <1>4, <2>1, <2>3, <4>1 DEF SkipReferences
    <3>2. CASE skip.eFrameSkipMode = "NEXT_B_SKIP"
      BY <1>4, <3>2 DEF SkipReferences
    <3>3. CASE skip.eFrameSkipMode = "B_SKIP"
      <4>1. gop[pos] # "B" /\ refs = 1
        BY <1>1, <2>2, <3>3, DecodedDecodable DEF SkipReferences
      <4>2. skip'.eFrameSkipMode = "NONE"
        BY <2>3, <2>4, <2>5, <3>3, <4>1, DecodesMovesMode
      <4>. QED  BY <1>2, <2>1, <4>1, <4>2 DEF SkipReferences
    <3>4. CASE skip.eFrameSkipMode = "B_WAIT"
      BY <1>4, <3>4 DEF SkipReferences, SkipStream
    <3>5. CASE skip.eFrameSkipMode = "NONE"
      <4>1. skip'.eFrameSkipMode = "NONE"
        BY <2>4, <2>5, <3>5, DecodesMovesMode
      <4>. QED  BY <1>2, <2>1, <3>5, <4>1 DEF SkipReferences
    <3>. QED  BY <3>1, <3>2, <3>3, <3>4, <3>5, SkipModes
  <2>. QED  BY <1>3, <2>6, <2>7, <2>8
<1>5. CASE ~(fields /\ second = "none")
  <2>1. PICK o \in {"success", "fail"} :
          /\ Skip!FillDecodingResult(Skip!Result("success", o, 0, Skip!Type))
          /\ refs' = CASE gop[pos] = "IDR" -> 1
                       [] gop[pos] = "B"   -> refs
                       [] OTHER            -> IF refs < 2 THEN refs + 1 ELSE 2
          /\ second' = "none" /\ pos' = (pos % Len(gop)) + 1
    BY <1>5, Zenon DEF Skip!DriverDecodes, Skip!NextPicture
  <2>. DEFINE r == Skip!Result("success", o, 0, Skip!Type)
  <2>2. /\ r.idx = 0 /\ r.status = "success" /\ r.upper = gop[pos] /\ r.lower = Skip!Type
        /\ r.output \in {"success", "fail"}
    BY DEF Skip!Result
  <2>3. /\ Skip!GetFrameType(codec, r) = Skip!Type \/ Skip!GetFrameType(codec, r) = gop[pos]
        /\ Skip!GetFrameType(codec, r) \in {"I", "IDR", "P", "B"}
        /\ Skip!DecodingStatus(plugin, r) # "field"
    <3>. HIDE DEF r
    <3>. QED  BY <2>2, PictureTypes DEF Skip!GetFrameType, Skip!DecodingStatus
  <2>4. Skip!FillDecodingResult(r) /\ r.idx >= 0
    BY <2>1, <2>2
  <2>. HIDE DEF r
  <2>5. refs \in 0..2 /\ refs' \in 0..2
    <3>1. refs \in 0..2
      BY DEF Skip!SkipTypeOK
    <3>. QED  BY <2>1, <3>1
  <2>6. Skip!SkipTypeOK'
    BY <1>2, <2>1, <2>3, <2>4, <2>5, DecodesMovesMode, PictureTypes DEF Skip!SkipTypeOK
  <2>7. SkipStream'
    BY <1>2, <2>1 DEF SkipStream
  <2>8. SkipReferences'
    <3>1. CASE skip.eFrameSkipMode = "I_SEARCH"
      <4>1. /\ skip'.eFrameSkipMode = IF codec = "h265" THEN "B_WAIT" ELSE "B_SKIP"
            /\ gop[pos] \in {"I", "IDR"} /\ refs = 0
        BY <1>1, <2>3, <2>4, <3>1, DecodesMovesMode, DecodedDecodable
        DEF SkipReferences, Skip!Type
      <4>2. refs' = 1
        BY <2>1, <4>1
      <4>. QED  BY <1>2, <2>1, <4>1, <4>2 DEF SkipReferences
    <3>2. CASE skip.eFrameSkipMode = "NEXT_B_SKIP"
      <4>1. skip'.eFrameSkipMode = "B_SKIP" /\ codec # "h265"
        BY <2>3, <2>4, <3>2, DecodesMovesMode DEF SkipReferences, SkipStream
      <4>2. refs' = 1
        BY <2>1, <3>2 DEF SkipReferences
      <4>. QED  BY <1>2, <2>1, <4>1, <4>2 DEF SkipReferences
    <3>3. CASE skip.eFrameSkipMode = "B_SKIP"
      <4>1. /\ Skip!Type # "B" /\ second = "none" /\ gop[pos] # "B" /\ refs = 1
            /\ codec # "h265"
        BY <1>1, <3>3, DecodedDecodable DEF SkipReferences, Skip!Type
      <4>2. skip'.eFrameSkipMode = "NONE"
        BY <2>3, <2>4, <3>3, <4>1, DecodesMovesMode
      <4>3. refs' = (IF gop[pos] = "IDR" THEN 1 ELSE 2) /\ (gop[pos] = "IDR" => gop[pos'] # "B")
        BY <2>1, <4>1, PictureTypes
      <4>. QED  BY <1>2, <2>1, <4>1, <4>2, <4>3 DEF SkipReferences
    <3>4. CASE skip.eFrameSkipMode = "B_WAIT"
      <4>1. skip'.eFrameSkipMode \in {"NONE", "B_WAIT"} /\ codec = "h265" /\ refs \in {1, 2}
        BY <2>3, <2>4, <3>4, DecodesMovesMode DEF SkipReferences
      <4>2. refs' \in {1, 2}
        BY <2>1, <4>1
      <4>. QED  BY <1>2, <4>1, <4>2 DEF SkipReferences
    <3>5. CASE skip.eFrameSkipMode = "NONE"
      <4>1. skip'.eFrameSkipMode = "NONE" /\ refs \in {1, 2}
        BY <2>3, <2>4, <3>5, DecodesMovesMode DEF SkipReferences
      <4>2. refs' \in {1, 2}
        BY <2>1, <4>1
      <4>3. codec # "h265" /\ gop'[pos'] = "B" => refs' = 2
        BY <1>2, <2>1, <3>5, <4>1, PictureTypes DEF SkipReferences
      <4>. QED  BY <1>2, <4>1, <4>2, <4>3 DEF SkipReferences
    <3>. QED  BY <3>1, <3>2, <3>3, <3>4, <3>5, SkipModes
  <2>. QED  BY <1>3, <2>6, <2>7, <2>8
<1>. QED  BY <1>4, <1>5

LEMMA SkipStep ==
  ASSUME SkipInv, Skip!Next
  PROVE  SkipInv'
BY FullKeeps, SkipsKeep, DecodesKeep DEF Skip!Next
------------------------------------------------------------------------------
(* The composition: a behaviour keeps to its part.                         *)

LEMMA LoopsOfAnswers ==
  /\ AnswersInit => (part = "loops" => LoopInv)
  /\ (part = "loops" => LoopInv) /\ [AnswersNext]_allVars => (part = "loops" => LoopInv)'
<1>1. ASSUME AnswersInit, part = "loops"
      PROVE  LoopInv
  BY <1>1, LoopInitInv DEF AnswersInit
<1>2. ASSUME part = "loops" => LoopInv, [AnswersNext]_allVars, part' = "loops"
      PROVE  LoopInv'
  <2>1. CASE UNCHANGED allVars
    <3>1. LoopInv /\ UNCHANGED loopVars
      BY <1>2, <2>1 DEF allVars
    <3>. QED
      BY <3>1 DEF loopVars, LoopInv, Loops!LoopTypeOK, Loops!LoopFlags, LoopCounters, LoopOwnCommand,
                  LoopAnnounced, Loops!Answered, Loops!OlderOnlyAfterMissed, Loops!AnnouncedAnswerReturned,
                  Loops!InvalidNeverReturned
  <2>2. CASE AnswersNext
    <3>1. part = "loops" /\ Loops!Next
      BY <1>2, <2>2
      DEF AnswersNext, InV3, InLoops, InReturns, InLegacy, InClock, InSkip, ClockEnds
    <3>. QED  BY <1>2, <3>1, LoopStep
  <2>. QED  BY <1>2, <2>1, <2>2
<1>. QED  BY <1>1, <1>2

LEMMA SkipOfAnswers ==
  ASSUME FieldPlugins \subseteq {"vdec"}
  PROVE  /\ AnswersInit => (part = "skip" => SkipInv)
         /\ (part = "skip" => SkipInv) /\ [AnswersNext]_allVars => (part = "skip" => SkipInv)'
<1>1. ASSUME AnswersInit, part = "skip"
      PROVE  SkipInv
  BY <1>1, SkipInitInv DEF AnswersInit
<1>2. ASSUME part = "skip" => SkipInv, [AnswersNext]_allVars, part' = "skip"
      PROVE  SkipInv'
  <2>1. CASE UNCHANGED allVars
    <3>1. SkipInv /\ UNCHANGED skipVars
      BY <1>2, <2>1 DEF allVars
    <3>. QED
      BY <3>1 DEF skipVars, SkipInv, Skip!SkipTypeOK, SkipStream, SkipReferences,
                  Skip!NoneBroken, Skip!NoneLost
  <2>2. CASE AnswersNext
    <3>1. part = "skip" /\ Skip!Next
      BY <1>2, <2>2
      DEF AnswersNext, InV3, InLoops, InReturns, InLegacy, InClock, InSkip, ClockEnds
    <3>. QED  BY <1>2, <3>1, SkipStep
  <2>. QED  BY <1>2, <2>1, <2>2
<1>. QED  BY <1>1, <1>2

(* For the four loops of CommandLoops, whatever the driver answers,        *)
(* refuses, announces or takes its time with and when the device hangs up, *)
(* for any number of rounds, of polls and of commands in flight: a loop    *)
(* that was told of an answer returns the one it fetched last, never one   *)
(* made up and never "not processed"; and it takes the answer to an older  *)
(* command only after a call that came back without its own.               *)
THEOREM AnswersMatched ==
  AnswersSpec => []AnswersMatch
<1>1. (part = "loops" => LoopInv) => AnswersMatch
  BY DEF LoopInv, LoopOwnCommand, AnswersMatch
<1>2. QED
  BY LoopsOfAnswers, <1>1, PTL DEF AnswersSpec

(* The plugins' frame skipping (FrameSkip): entered anywhere in any stream *)
(* of whole groups of pictures, no picture is decoded without those it     *)
(* refers to and none that has them is skipped.  Field pictures only of    *)
(* the old vdec plugin: the legacy plugins never report a field            *)
(* (README, section 3).                                                    *)
THEOREM SkipReferencesKept ==
  ASSUME FieldPlugins \subseteq {"vdec"}
  PROVE  AnswersSpec => []SkipKeepsReferences
<1>1. (part = "skip" => SkipInv) => SkipKeepsReferences
  BY DEF SkipInv, SkipKeepsReferences
<1>2. QED
  BY SkipOfAnswers, <1>1, PTL DEF AnswersSpec

==============================================================================
