-------------------------- MODULE VideoDecoder_proofs -------------------------
(***************************************************************************)
(* Proofs about VideoDecoder: the type invariant in general and, when      *)
(* the driver takes and answers every command in time, the agreement on    *)
(* buffers between library and driver, the protocol of commands, the bound *)
(* of the window and the records of pictures.  It follows that a picture   *)
(* in the window of surface frames is never overwritten, that the decoder  *)
(* implements SurfaceFrames, and that Decode fails to find an output only  *)
(* before a stream's first picture is displayed.                           *)
(***************************************************************************)
EXTENDS VideoDecoder, SequenceTheorems, TLAPS

------------------------------------------------------------------------------
(* The elements of a list.                                                 *)

(* What a list holds, and that it holds it once, when it is empty. *)
LEMMA EmptyList == Elems(<<>>) = {} /\ NoDup(<<>>)
BY DEF Elems, NoDup

(* Pushing onto a list adds the pushed element and nothing else. *)
LEMMA ElemsAppend ==
  ASSUME NEW S, NEW s \in Seq(S), NEW e \in S
  PROVE  Elems(Append(s, e)) = Elems(s) \cup {e}
BY AppendProperties DEF Elems

(* Pushing an element that is not on a list keeps the list free of         *)
(* repetitions.                                                            *)
LEMMA NoDupAppend ==
  ASSUME NEW S, NEW s \in Seq(S), NEW e \in S, NoDup(s), e \notin Elems(s)
  PROVE  NoDup(Append(s, e))
BY AppendProperties DEF Elems, NoDup

(* Popping a list removes its head and nothing else. *)
LEMMA ElemsTail ==
  ASSUME NEW S, NEW s \in Seq(S), s # <<>>
  PROVE  Elems(s) = {Head(s)} \cup Elems(Tail(s))
BY HeadTailProperties DEF Elems

(* Popping a list without repetitions removes its head for good. *)
LEMMA NoDupTail ==
  ASSUME NEW S, NEW s \in Seq(S), s # <<>>, NoDup(s)
  PROVE  NoDup(Tail(s)) /\ Head(s) \notin Elems(Tail(s))
BY HeadTailProperties DEF Elems, NoDup

------------------------------------------------------------------------------
(* Type correctness.                                                       *)

(* A command that completes leaves every variable in its type. *)
LEMMA CompleteType ==
  ASSUME TypeOK, NEW b \in [Frames -> BufferStates], NEW status \in Statuses,
         NEW decoded \in Idx, NEW d \in Idx,
         Complete(b, status, decoded, d)
  PROVE  TypeOK'
<1>1. d # NoIdx => d \in Frames
  BY DEF Idx
<1>2. /\ buf' \in [Frames -> BufferStates]
      /\ lastShown' \in Nat
  BY <1>1 DEF Complete, TypeOK, BufferStates
<1>3. result' \in [status : Statuses, decoded : Idx, disp : Idx, shown : BOOLEAN]
  BY DEF Complete
<1>4. queue' \in Seq(Nat)
  BY DEF Complete, TypeOK
<1>5. job' \in [frame : Idx, second : BOOLEAN]
  BY DEF Complete, NoJob, Idx
<1>6. QED
  BY <1>2, <1>3, <1>4, <1>5 DEF Complete, TypeOK, coreVars, indexVars

(* The first buffers a decoder has are typed. *)
LEMMA InitType == Init => TypeOK
<1> SUFFICES ASSUME Init PROVE TypeOK
  OBVIOUS
<1>1. 0 \in Frames /\ NoIdx \in Idx /\ 0 \in Idx
  BY DecoderConstants DEF Frames, Idx
<1>2. result \in [status : Statuses, decoded : Idx, disp : Idx, shown : BOOLEAN]
  BY <1>1 DEF Init, ZeroResult, Statuses
<1>3. job \in [frame : Idx, second : BOOLEAN]
  BY <1>1 DEF Init, NoJob
<1>4. /\ decFrames \in [Frames -> Seq(Nat)]
      /\ buf \in [Frames -> BufferStates]
      /\ ptsOf \in [Frames -> Nat]
  BY DEF Init, BufferStates
<1>5. /\ listDisplay \in Seq(Frames) /\ listClear \in Seq(Frames)
      /\ queue \in Seq(Nat)
  BY DEF Init
<1>6. anyDisplayed \in BOOLEAN /\ completed \in BOOLEAN
  BY DEF Init
<1>7. failedCommands \in 0..MaxFailedCommands
  BY DecoderConstants DEF Init
<1>8. /\ life \in {"created", "inited", "ready"}
      /\ pc \in {"idle", "update", "clear", "wait"}
      /\ pkt \in Nat /\ uiNumOutputFrames \in Nat /\ uiFrameID \in Nat
      /\ iMaxIndexCnt \in Nat /\ lastShown \in Nat
  BY DEF Init
<1> QED
  BY <1>2, <1>3, <1>4, <1>5, <1>6, <1>7, <1>8 DEF TypeOK

(* The window has room for at least one picture, whichever parameter sets  *)
(* its size.                                                               *)
LEMMA WindowSizePositive ==
  ASSUME NEW m \in Nat, NEW n \in Nat
  PROVE  WindowSize(m, n) \in Nat \ {0}
BY DecoderConstants DEF WindowSize

(* Opening and closing a stream keeps every variable in its type. *)
LEMMA ApplicationType ==
  ASSUME TypeOK, Application
  PROVE  TypeOK'
<1>1. ASSUME NEW n \in SurfaceChoices, VideoDecoder_Init(n)
      PROVE  TypeOK'
  <2>1. n \in Nat /\ 0 \in Idx
    BY DecoderConstants DEF Idx, Frames
  <2>2. result' \in [status : Statuses, decoded : Idx, disp : Idx, shown : BOOLEAN]
    BY <1>1, <2>1 DEF VideoDecoder_Init, ZeroResult, Statuses
  <2>3. anyDisplayed' \in BOOLEAN /\ ptsOf' \in [Frames -> Nat]
    BY <1>1 DEF VideoDecoder_Init
  <2>4. QED
    BY <1>1, <2>1, <2>2, <2>3 DEF VideoDecoder_Init, TypeOK, indexVars
<1>2. ASSUME NEW n \in OutputChoices, VideoDecoder_DecodeSequenceHeader(n)
      PROVE  TypeOK'
  <2>1. iMaxIndexCnt' \in Nat
    BY <1>2, WindowSizePositive, DecoderConstants
       DEF VideoDecoder_DecodeSequenceHeader, TypeOK
  <2>2. buf' \in [Frames -> BufferStates]
    BY <1>2 DEF VideoDecoder_DecodeSequenceHeader, BufferStates
  <2>3. QED
    BY <1>2, <2>1, <2>2 DEF VideoDecoder_DecodeSequenceHeader, TypeOK
<1>3. ASSUME VideoDecoder_Deinit
      PROVE  TypeOK'
  <2>1. job' \in [frame : Idx, second : BOOLEAN]
    BY <1>3 DEF VideoDecoder_Deinit, NoJob, Idx
  <2>2. /\ decFrames' \in [Frames -> Seq(Nat)]
        /\ buf' \in [Frames -> BufferStates]
    BY <1>3 DEF VideoDecoder_Deinit, BufferStates
  <2>3. /\ listDisplay' \in Seq(Frames) /\ listClear' \in Seq(Frames)
        /\ queue' \in Seq(Nat)
    BY <1>3 DEF VideoDecoder_Deinit
  <2>4. completed' \in BOOLEAN
    BY <1>3 DEF VideoDecoder_Deinit
  <2>5. QED
    BY <1>3, <2>1, <2>2, <2>3, <2>4 DEF VideoDecoder_Deinit, TypeOK
<1>4. QED
  BY <1>1, <1>2, <1>3 DEF Application

(* A command that fails is counted within its bound. *)
LEMMA FailureType ==
  ASSUME TypeOK, CommandFails \/ UNCHANGED failedCommands
  PROVE  failedCommands' \in 0..MaxFailedCommands
BY DecoderConstants DEF CommandFails, TypeOK

(* Handling a result keeps the lists of the decoder lists of frames. *)
LEMMA HandleType ==
  ASSUME TypeOK, Handle(result)
  PROVE  /\ uiFrameID' \in Nat /\ decFrames' \in [Frames -> Seq(Nat)]
         /\ listDisplay' \in Seq(Frames) /\ anyDisplayed' \in BOOLEAN
<1>1. /\ result.disp \in Idx /\ result.decoded \in Idx
      /\ uiFrameID \in Nat /\ decFrames \in [Frames -> Seq(Nat)]
      /\ listDisplay \in Seq(Frames) /\ anyDisplayed \in BOOLEAN
      /\ result.shown \in BOOLEAN
  BY DEF TypeOK
<1>2. DecFramesAfter(result) \in [Frames -> Seq(Nat)]
  <2>1. ASSUME NEW f \in Frames
        PROVE  Append(decFrames[f], uiFrameID) \in Seq(Nat)
    BY <1>1
  <2>2. QED
    BY <1>1, <2>1 DEF DecFramesAfter
<1>3. listDisplay' \in Seq(Frames)
  BY <1>1 DEF Handle, PushDisplay, Idx
<1>4. uiFrameID' \in Nat /\ decFrames' \in [Frames -> Seq(Nat)]
  BY <1>1, <1>2 DEF Handle
<1>5. anyDisplayed' \in BOOLEAN
  BY <1>1 DEF Handle, IsFrameOut
<1>6. QED
  BY <1>3, <1>4, <1>5

(* The end of a Decode keeps every variable in its type. *)
LEMMA ReturnType ==
  ASSUME TypeOK, Decode_Return
  PROVE  TypeOK'
<1>1. failedCommands' \in 0..MaxFailedCommands
  BY FailureType DEF Decode_Return, PollReturns
<1>2. CASE result.status = "exit"
  BY <1>1, <1>2 DEF Decode_Return, HandleExit, TypeOK
<1>3. CASE result.status # "exit"
  BY <1>1, <1>3, HandleType DEF Decode_Return, TypeOK
<1>4. QED
  BY <1>2, <1>3

(* A command sent, or refused, keeps every variable in its type. *)
LEMMA IssueType ==
  ASSUME TypeOK, Decode_Issue
  PROVE  TypeOK'
<1>1. failedCommands' \in 0..MaxFailedCommands
  BY FailureType DEF Decode_Issue
<1>2. CASE pc' = "wait"
  <2>1. /\ queue' = Append(queue, pkt)
        /\ UNCHANGED <<uiFrameID, decFrames, listDisplay, anyDisplayed>>
    BY <1>2 DEF Decode_Issue
  <2>2. queue' \in Seq(Nat)
    BY <2>1 DEF TypeOK
  <2>3. QED
    BY <1>1, <1>2, <2>1, <2>2 DEF Decode_Issue, TypeOK
<1>3. CASE pc' = "idle"
  BY <1>1, <1>3, HandleType DEF Decode_Issue, TypeOK
<1>4. QED
  BY <1>2, <1>3 DEF Decode_Issue

(* What the VPU does keeps every variable in its type. *)
LEMMA VpuType ==
  ASSUME TypeOK, Vpu
  PROVE  TypeOK'
<1>1. ASSUME NEW f \in Frames, Vpu_BeginFrame(f)
      PROVE  TypeOK'
  <2>1. Head(queue) \in Nat
    BY <1>1 DEF Vpu_BeginFrame, TypeOK
  <2>2. QED
    BY <1>1, <2>1
       DEF Vpu_BeginFrame, TypeOK, coreVars, indexVars, Idx, BufferStates
<1>2. ASSUME NEW f \in Frames, Vpu_BeginSecondField(f)
      PROVE  TypeOK'
  BY <1>2 DEF Vpu_BeginSecondField, TypeOK, coreVars, indexVars, Idx, BufferStates
<1>3. ASSUME NEW status \in Outcomes, Vpu_EndFrame(status)
      PROVE  TypeOK'
  <2> DEFINE b == [buf EXCEPT ![job.frame] = IF status = "frame" THEN "decoded" ELSE "field"]
  <2>1. PICK d \in Displayable(b) \cup {NoIdx} : Complete(b, status, job.frame, d)
    BY <1>3 DEF Vpu_EndFrame
  <2>2. b \in [Frames -> BufferStates]
    BY DEF TypeOK, BufferStates
  <2>3. d \in Idx /\ job.frame \in Idx /\ status \in Statuses
    BY <1>3 DEF Displayable, Holding, Idx, TypeOK, Vpu_EndFrame, Statuses
  <2>4. QED
    BY <2>1, <2>2, <2>3, CompleteType
<1>4. ASSUME NEW status \in Outcomes, Vpu_Refuse(status)
      PROVE  TypeOK'
  <2>1. PICK d \in Displayable(buf) \cup {NoIdx} : Complete(buf, status, NoIdx, d)
    BY <1>4 DEF Vpu_Refuse
  <2>2. /\ buf \in [Frames -> BufferStates]
        /\ d \in Idx /\ NoIdx \in Idx /\ status \in Statuses
    BY <1>4 DEF Displayable, Holding, Idx, TypeOK, Vpu_Refuse, Statuses
  <2>3. QED
    BY <2>1, <2>2, CompleteType
<1>5. QED
  BY <1>1, <1>2, <1>3, <1>4 DEF Vpu

(* The steps of a Decode keep every variable in its type. *)
LEMMA DecodeType ==
  ASSUME TypeOK, Decode
  PROVE  TypeOK'
<1>1. CASE Update_Pop
  BY <1>1 DEF Update_Pop, TypeOK, coreVars, driverVars
<1>2. CASE Update_Done
  BY <1>2 DEF Update_Done, TypeOK, indexVars, driverVars
<1>3. CASE Clear_Release
  <2>1. Head(listClear) \in Frames /\ listClear' \in Seq(Frames)
    BY <1>3 DEF Clear_Release, TypeOK
  <2>2. decFrames' \in [Frames -> Seq(Nat)]
    BY <1>3, <2>1 DEF Clear_Release, ForgetPicture, TypeOK
  <2>3. buf' \in [Frames -> BufferStates]
    BY <1>3, <2>1 DEF Clear_Release, Clears, ClearBuffer, TypeOK, BufferStates
  <2>4. failedCommands' \in 0..MaxFailedCommands
    BY <1>3, FailureType DEF Clear_Release, Clears
  <2>5. QED
    BY <1>3, <2>1, <2>2, <2>3, <2>4 DEF Clear_Release, TypeOK
<1>4. CASE Decode_Issue
  BY <1>4, IssueType
<1>5. CASE Decode_Return
  BY <1>5, ReturnType
<1>6. QED
  BY <1>1, <1>2, <1>3, <1>4, <1>5 DEF Decode

(* Type correctness of the decoder, its index control and the driver's     *)
(* view of the buffers, also when commands fail: in particular the two     *)
(* lists of VideoIndexCtrl only ever hold indices of frame buffers.        *)
THEOREM TypeCorrect == Spec => []TypeOK
<1>1. TypeOK /\ [Next]_vars => TypeOK'
  <2> SUFFICES ASSUME TypeOK, [Next]_vars
               PROVE  TypeOK'
    OBVIOUS
  <2>1. CASE Application
    BY <2>1, ApplicationType
  <2>2. ASSUME NEW p \in NextPackets, Decode_Call(p)
        PROVE  TypeOK'
    BY <2>2 DEF Decode_Call, NextPackets, Pts, TypeOK, indexVars, driverVars
  <2>3. CASE Decode
    BY <2>3, DecodeType
  <2>4. CASE Vpu
    BY <2>4, VpuType
  <2>5. CASE UNCHANGED vars
    BY <2>5 DEF vars, coreVars, indexVars, driverVars, TypeOK
  <2>6. QED
    BY <2>1, <2>2, <2>3, <2>4, <2>5 DEF Next, Call
<1>2. QED
  BY InitType, <1>1, PTL DEF Spec

------------------------------------------------------------------------------
(* Who owns which buffer, when no command fails.                           *)

IndInv == TypeOK /\ CommandProtocol /\ WindowBound /\ OwnershipAgreement

Agreement == CommandProtocol /\ WindowBound /\ OwnershipAgreement

(* With no failures allowed the driver takes every command, ... *)
LEMMA Issued ==
  ASSUME TypeOK, MaxFailedCommands = 0, Decode_Issue
  PROVE  /\ pc = "clear" /\ listClear = <<>>
         /\ queue' = Append(queue, pkt) /\ pc' = "wait"
         /\ UNCHANGED <<life, pkt, uiNumOutputFrames, uiFrameID, clk, decFrames, out,
                        indexVars, anyDisplayed, result, buf, job, completed,
                        failedCommands, ptsOf, lastShown>>
BY DEF Decode_Issue, CommandFails, TypeOK, indexVars

(* ... frees every buffer it is told to clear, ... *)
LEMMA Cleared ==
  ASSUME TypeOK, MaxFailedCommands = 0, Clear_Release
  PROVE  buf' = ClearBuffer(Head(listClear)) /\ UNCHANGED failedCommands
BY DEF Clear_Release, Clears, CommandFails, TypeOK

(* ... and Decode goes on only behind its answer. *)
LEMMA Answered ==
  ASSUME TypeOK, MaxFailedCommands = 0, Decode_Return
  PROVE  completed /\ UNCHANGED failedCommands
BY DEF Decode_Return, PollReturns, CommandFails, TypeOK

(* No picture is displayed under the index that stands for none. *)
LEMMA NoIdxNotAFrame == NoIdx \notin Frames
BY DecoderConstants DEF NoIdx, Frames

(* At the start nothing is lent out. *)
LEMMA InitAgreement == Init => Agreement
<1> SUFFICES ASSUME Init PROVE Agreement
  OBVIOUS
<1>1. CommandProtocol
  BY NoIdxNotAFrame DEF Init, CommandProtocol, NoJob
<1>2. WindowBound
  BY DEF Init, WindowBound
<1>3. OwnershipAgreement
  BY EmptyList DEF Init, OwnershipAgreement, Undelivered, Holding
<1> QED
  BY <1>1, <1>2, <1>3 DEF Agreement

(* A step that leaves the lists, the lent buffers and the pending result   *)
(* alone leaves the agreement alone.                                       *)
LEMMA UnchangedOwnership ==
  ASSUME OwnershipAgreement,
         UNCHANGED <<listDisplay, listClear, completed, result>>,
         Holding(buf', {"shown"}) = Holding(buf, {"shown"})
  PROVE  OwnershipAgreement'
BY DEF OwnershipAgreement, Undelivered, Holding

(* Opening a stream lends nothing out, closing one takes everything back. *)
LEMMA ApplicationAgreement ==
  ASSUME IndInv, Application
  PROVE  Agreement'
<1>1. ASSUME NEW n \in SurfaceChoices, VideoDecoder_Init(n)
      PROVE  Agreement'
  <2>1. ~completed /\ ~completed'
    BY <1>1 DEF VideoDecoder_Init, IndInv, CommandProtocol
  <2>2. CommandProtocol'
    BY <1>1 DEF VideoDecoder_Init, IndInv, CommandProtocol, indexVars
  <2>3. WindowBound'
    BY <1>1 DEF VideoDecoder_Init, IndInv, CommandProtocol, WindowBound, indexVars
  <2>4. OwnershipAgreement'
    BY <1>1, <2>1
       DEF VideoDecoder_Init, IndInv, OwnershipAgreement, Undelivered, Holding, indexVars
  <2>5. QED
    BY <2>2, <2>3, <2>4 DEF Agreement
<1>2. ASSUME NEW n \in OutputChoices, VideoDecoder_DecodeSequenceHeader(n)
      PROVE  Agreement'
  <2>1. /\ listDisplay = <<>> /\ listClear = <<>>
        /\ ~completed /\ pc = "idle" /\ job = NoJob /\ Undelivered = {}
    BY <1>2 DEF VideoDecoder_DecodeSequenceHeader, IndInv, TypeOK, CommandProtocol,
                Undelivered
  <2>2. iMaxIndexCnt' \in Nat \ {0}
    BY <1>2, WindowSizePositive, DecoderConstants
       DEF VideoDecoder_DecodeSequenceHeader, IndInv, TypeOK
  <2>3. CommandProtocol'
    BY <1>2, <2>1
       DEF VideoDecoder_DecodeSequenceHeader, IndInv, CommandProtocol
  <2>4. WindowBound'
    BY <1>2, <2>1, <2>2 DEF VideoDecoder_DecodeSequenceHeader, WindowBound
  <2>5. Holding(buf', {"shown"}) = Holding(buf, {"shown"})
    BY <1>2, <2>1, EmptyList
       DEF VideoDecoder_DecodeSequenceHeader, IndInv, OwnershipAgreement, Holding
  <2>6. OwnershipAgreement'
    BY <1>2, <2>5, UnchangedOwnership
       DEF VideoDecoder_DecodeSequenceHeader, IndInv
  <2>7. QED
    BY <2>3, <2>4, <2>6 DEF Agreement
<1>3. ASSUME VideoDecoder_Deinit
      PROVE  Agreement'
  <2>1. CommandProtocol'
    BY <1>3, NoIdxNotAFrame DEF VideoDecoder_Deinit, CommandProtocol, NoJob
  <2>2. WindowBound'
    BY <1>3 DEF VideoDecoder_Deinit, WindowBound
  <2>3. OwnershipAgreement'
    BY <1>3, EmptyList
       DEF VideoDecoder_Deinit, OwnershipAgreement, Undelivered, Holding
  <2>4. QED
    BY <2>1, <2>2, <2>3 DEF Agreement
<1>4. QED
  BY <1>1, <1>2, <1>3 DEF Application

(* Calling Decode, and the steps of Update, move buffers from list to list *)
(* and hand none over.                                                     *)
LEMMA UpdateAgreement ==
  ASSUME IndInv,
         \/ \E p \in NextPackets : Decode_Call(p)
         \/ Update_Pop \/ Update_Done
  PROVE  Agreement'
<1>1. ASSUME NEW p \in NextPackets, Decode_Call(p)
      PROVE  Agreement'
  <2>1. CommandProtocol'
    BY <1>1 DEF Decode_Call, IndInv, CommandProtocol, indexVars, driverVars
  <2>2. WindowBound'
    BY <1>1 DEF Decode_Call, IndInv, WindowBound, indexVars
  <2>3. OwnershipAgreement'
    BY <1>1, UnchangedOwnership DEF Decode_Call, IndInv, indexVars, driverVars
  <2>4. QED
    BY <2>1, <2>2, <2>3 DEF Agreement
<1>2. CASE Update_Pop
  <2> DEFINE f == Head(listDisplay)
  <2>1. /\ listDisplay \in Seq(Frames) /\ listClear \in Seq(Frames)
        /\ listDisplay # <<>> /\ f \in Frames
        /\ iMaxIndexCnt \in Nat
    BY <1>2 DEF IndInv, TypeOK, Update_Pop
  <2>2. /\ Elems(listDisplay) = {f} \cup Elems(listDisplay')
        /\ f \notin Elems(listDisplay') /\ NoDup(listDisplay')
    BY <1>2, <2>1, ElemsTail, NoDupTail DEF IndInv, OwnershipAgreement, Update_Pop
  <2>3. Elems(listClear') = Elems(listClear) \cup {f}
    BY <1>2, <2>1, ElemsAppend DEF Update_Pop
  <2>4. NoDup(listClear')
    BY <1>2, <2>1, <2>2, NoDupAppend DEF IndInv, OwnershipAgreement, Update_Pop
  <2>5. OwnershipAgreement'
    <3>1. UNCHANGED <<buf, completed, result>>
      BY <1>2 DEF Update_Pop, driverVars
    <3>2. Holding(buf, {"shown"})' = Holding(buf, {"shown"}) /\ Undelivered' = Undelivered
      BY <3>1 DEF Holding, Undelivered
    <3> QED
      BY <2>2, <2>3, <2>4, <3>2 DEF IndInv, OwnershipAgreement
  <2>6. CommandProtocol'
    BY <1>2, <2>1 DEF Update_Pop, IndInv, CommandProtocol, coreVars, driverVars
  <2>7. WindowBound'
    <3>1. Len(listDisplay') = Len(listDisplay) - 1 /\ Len(listDisplay) \in Nat
      BY <1>2, <2>1, HeadTailProperties DEF Update_Pop
    <3>2. UNCHANGED <<life, pc, iMaxIndexCnt>> /\ pc = "update"
      BY <1>2 DEF Update_Pop, coreVars
    <3> QED
      BY <2>1, <3>1, <3>2 DEF IndInv, WindowBound
  <2>8. QED
    BY <2>5, <2>6, <2>7 DEF Agreement
<1>3. CASE Update_Done
  <2>1. CommandProtocol'
    BY <1>3 DEF Update_Done, IndInv, CommandProtocol, indexVars, driverVars
  <2>2. WindowBound'
    BY <1>3 DEF Update_Done, IndInv, WindowBound, indexVars
  <2>3. OwnershipAgreement'
    BY <1>3, UnchangedOwnership DEF Update_Done, IndInv, indexVars, driverVars
  <2>4. QED
    BY <2>1, <2>2, <2>3 DEF Agreement
<1>4. QED
  BY <1>1, <1>2, <1>3

(* Clearing gives exactly the head of the clear list back to the driver,   *)
(* which had lent it out; then one command is issued.                      *)
LEMMA ClearAgreement ==
  ASSUME IndInv, MaxFailedCommands = 0, Clear_Release \/ Decode_Issue
  PROVE  Agreement'
<1>1. CASE Clear_Release
  <2> DEFINE f == Head(listClear)
  <2>1. /\ listClear \in Seq(Frames) /\ listClear # <<>> /\ f \in Frames
        /\ buf \in [Frames -> BufferStates]
    BY <1>1 DEF IndInv, TypeOK, Clear_Release
  <2>2. /\ Elems(listClear) = {f} \cup Elems(listClear')
        /\ f \notin Elems(listClear') /\ NoDup(listClear')
    BY <1>1, <2>1, ElemsTail, NoDupTail DEF IndInv, OwnershipAgreement, Clear_Release
  <2>3. buf[f] = "shown"
    BY <2>1, <2>2 DEF IndInv, OwnershipAgreement, Holding
  <2>4. buf' = [buf EXCEPT ![f] = "free"]
    BY <1>1, <2>1, <2>3, Cleared DEF IndInv, ClearBuffer
  <2>5. Holding(buf, {"shown"})' = Holding(buf, {"shown"}) \ {f}
    BY <2>1, <2>4 DEF Holding
  <2>6. UNCHANGED <<life, pc, queue, job, completed, result, listDisplay, iMaxIndexCnt>>
    BY <1>1 DEF Clear_Release
  <2>7. OwnershipAgreement'
    <3>1. Undelivered' = Undelivered
      BY <2>6 DEF Undelivered
    <3>2. f \notin Elems(listDisplay) \cup Undelivered
      BY <2>2 DEF IndInv, OwnershipAgreement
    <3> QED
      BY <2>2, <2>5, <2>6, <3>1, <3>2 DEF IndInv, OwnershipAgreement
  <2>8. CommandProtocol'
    <3>1. \A g \in Frames : buf'[g] = "writing" <=> buf[g] = "writing"
      BY <2>1, <2>3, <2>4
    <3>2. life = "ready"
      BY <1>1 DEF Clear_Release, IndInv, CommandProtocol
    <3> QED
      BY <2>6, <3>1, <3>2 DEF IndInv, CommandProtocol
  <2>9. WindowBound'
    BY <2>6 DEF IndInv, WindowBound
  <2>10. QED
    BY <2>7, <2>8, <2>9 DEF Agreement
<1>2. CASE Decode_Issue
  <2>1. /\ queue' = Append(queue, pkt) /\ pc = "clear" /\ pc' = "wait"
        /\ UNCHANGED <<life, iMaxIndexCnt, listDisplay, listClear, result, buf, job, completed>>
    BY <1>2, Issued DEF IndInv, indexVars
  <2>2. queue \in Seq(Nat) /\ pkt \in Nat /\ Len(queue) = 0 /\ ~completed
    BY <2>1 DEF IndInv, TypeOK, CommandProtocol
  <2>3. Len(queue') = 1 /\ queue' # <<>>
    BY <2>1, <2>2
  <2>4. CommandProtocol'
    BY <2>1, <2>2, <2>3 DEF IndInv, CommandProtocol
  <2>5. WindowBound'
    BY <2>1 DEF IndInv, WindowBound
  <2>6. OwnershipAgreement'
    BY <2>1, UnchangedOwnership DEF IndInv
  <2>7. QED
    BY <2>4, <2>5, <2>6 DEF Agreement
<1>3. QED
  BY <1>1, <1>2

(* Decode takes exactly the buffer the driver lent with its result: with   *)
(* no failures there always is  a new result, and room in the window.       *)
LEMMA ReturnAgreement ==
  ASSUME IndInv, MaxFailedCommands = 0, Decode_Return
  PROVE  Agreement'
<1>1. /\ completed /\ pc = "wait" /\ life = "ready" /\ queue \in Seq(Nat) /\ Len(queue) = 0
      /\ result.status = "exit" => result.disp = NoIdx
  BY Answered DEF Decode_Return, IndInv, TypeOK, CommandProtocol
<1>2. /\ completed' = FALSE /\ pc' = "idle"
      /\ UNCHANGED <<life, iMaxIndexCnt, listClear, result, buf, queue, job>>
  BY DEF Decode_Return
<1>3. /\ listDisplay \in Seq(Frames) /\ iMaxIndexCnt \in Nat
      /\ result.disp \in Idx
      /\ Len(listDisplay) \in Nat /\ Len(listDisplay) < iMaxIndexCnt
  BY <1>1 DEF IndInv, TypeOK, WindowBound
<1>4. listDisplay' = PushDisplay(result)
  BY <1>1 DEF Decode_Return, HandleExit, Handle, PushDisplay
<1>5. /\ Elems(listDisplay') = Elems(listDisplay) \cup Undelivered
      /\ NoDup(listDisplay')
      /\ Len(listDisplay') <= iMaxIndexCnt
  <2>1. CASE result.disp = NoIdx
    BY <1>3, <1>4, <2>1 DEF PushDisplay, Undelivered, IndInv, OwnershipAgreement
  <2>2. CASE result.disp # NoIdx
    <3>1. /\ result.disp \in Frames
          /\ Undelivered = {result.disp}
          /\ listDisplay' = Append(listDisplay, result.disp)
      BY <1>1, <1>3, <1>4, <2>2 DEF PushDisplay, Undelivered, Idx
    <3>2. result.disp \notin Elems(listDisplay) /\ NoDup(listDisplay)
      BY <3>1 DEF IndInv, OwnershipAgreement
    <3>3. Len(listDisplay') = Len(listDisplay) + 1
      BY <1>3, <3>1
    <3>4. QED
      BY <1>3, <3>1, <3>2, <3>3, ElemsAppend, NoDupAppend
  <2>3. QED
    BY <2>1, <2>2
<1>6. OwnershipAgreement'
  <2>1. Undelivered' = {}
    BY <1>2 DEF Undelivered
  <2>2. Holding(buf, {"shown"})' = Holding(buf, {"shown"})
    BY <1>2 DEF Holding
  <2>3. QED
    BY <1>2, <1>5, <2>1, <2>2 DEF IndInv, OwnershipAgreement
<1>7. CommandProtocol'
  BY <1>1, <1>2 DEF IndInv, CommandProtocol
<1>8. WindowBound'
  BY <1>1, <1>2, <1>3, <1>5 DEF WindowBound
<1>9. QED
  BY <1>6, <1>7, <1>8 DEF Agreement

(* A command completes while Decode waits for it; the one buffer it may    *)
(* lend was not lent before.                                               *)
LEMMA CompleteAgreement ==
  ASSUME IndInv, NEW b \in [Frames -> BufferStates], NEW status, NEW decoded,
         Holding(b, {"shown"}) = Holding(buf, {"shown"}),
         Holding(b, {"writing"}) = {},
         NEW d \in Displayable(b) \cup {NoIdx},
         status = "exit" => d = NoIdx,
         Complete(b, status, decoded, d)
  PROVE  Agreement'
<1>1. /\ queue \in Seq(Nat) /\ queue # <<>> /\ Len(queue) \in Nat /\ Len(queue) # 0
  BY DEF Complete, IndInv, TypeOK
<1>2. Len(queue) = 1 /\ pc = "wait" /\ ~completed /\ life = "ready"
  BY <1>1 DEF IndInv, CommandProtocol
<1>3. /\ queue' = Tail(queue) /\ job' = NoJob /\ completed' = TRUE
      /\ result' = [status |-> status, decoded |-> decoded, disp |-> d, shown |-> d # NoIdx]
      /\ UNCHANGED <<life, pc, listDisplay, listClear, iMaxIndexCnt>>
      /\ buf' = IF d = NoIdx THEN b ELSE [b EXCEPT ![d] = "shown"]
  BY DEF Complete, coreVars, indexVars
<1>4. Len(queue') = 0
  BY <1>1, <1>2, <1>3
<1>5. d # NoIdx => d \in Frames /\ b[d] = "decoded"
  BY DEF Displayable, Holding
<1>6. /\ Undelivered = {}
      /\ Undelivered' = (IF d = NoIdx THEN {} ELSE {d})
  BY <1>2, <1>3 DEF Undelivered
<1>7. Undelivered' \cap Holding(buf, {"shown"}) = {}
  <2>1. d # NoIdx => d \notin Holding(b, {"shown"})
    BY <1>5 DEF Holding
  <2>2. QED
    BY <1>6, <2>1
<1>8. Holding(buf', {"shown"}) = Holding(buf, {"shown"}) \cup Undelivered'
  <2>1. Holding(buf', {"shown"}) = Holding(b, {"shown"}) \cup Undelivered'
    BY <1>3, <1>5, <1>6 DEF Holding
  <2>2. QED
    BY <2>1
<1>9. CommandProtocol'
  <2>1. \A f \in Frames : buf'[f] # "writing"
    BY <1>3, <1>5 DEF Holding
  <2>2. result'.status = "exit" => result'.disp = NoIdx
    BY <1>3
  <2>3. QED
    BY <1>2, <1>3, <1>4, <2>1, <2>2 DEF CommandProtocol
<1>10. WindowBound'
  BY <1>3 DEF IndInv, WindowBound
<1>11. OwnershipAgreement'
  BY <1>3, <1>6, <1>7, <1>8 DEF IndInv, OwnershipAgreement, Holding
<1>12. QED
  BY <1>9, <1>10, <1>11 DEF Agreement

(* The VPU takes buffers that are free and lends out decoded ones.         *)
LEMMA VpuAgreement ==
  ASSUME IndInv, Vpu
  PROVE  Agreement'
<1> USE DEF IndInv
<1>1. ASSUME NEW f \in Frames, Vpu_BeginFrame(f) \/ Vpu_BeginSecondField(f)
      PROVE  Agreement'
  <2>1. /\ queue # <<>> /\ job = NoJob
        /\ buf[f] \in {"free", "field"}
        /\ job'.frame = f /\ job' # NoJob
        /\ buf' = [buf EXCEPT ![f] = "writing"]
        /\ UNCHANGED <<life, pc, queue, completed, result, indexVars>>
    BY <1>1, NoIdxNotAFrame
       DEF Vpu_BeginFrame, Vpu_BeginSecondField, coreVars, NoJob
  <2>2. Holding(buf', {"shown"}) = Holding(buf, {"shown"})
    BY <2>1 DEF TypeOK, Holding
  <2>3. CommandProtocol'
    <3>1. \A g \in Frames : buf[g] # "writing"
      BY <2>1 DEF CommandProtocol
    <3>2. \A g \in Frames : buf'[g] = "writing" <=> g = f
      BY <2>1, <3>1 DEF TypeOK
    <3>3. QED
      BY <2>1, <3>2 DEF CommandProtocol, indexVars
  <2>4. WindowBound'
    BY <2>1 DEF WindowBound, indexVars
  <2>5. OwnershipAgreement'
    BY <2>1, <2>2, UnchangedOwnership DEF indexVars
  <2>6. QED
    BY <2>3, <2>4, <2>5 DEF Agreement
<1>2. ASSUME NEW status \in Outcomes, Vpu_EndFrame(status)
      PROVE  Agreement'
  <2> DEFINE b == [buf EXCEPT ![job.frame] = IF status = "frame" THEN "decoded" ELSE "field"]
  <2>1. PICK d \in Displayable(b) \cup {NoIdx} : Complete(b, status, job.frame, d)
    BY <1>2 DEF Vpu_EndFrame
  <2>2. job.frame \in Frames /\ \A g \in Frames : buf[g] = "writing" <=> g = job.frame
    BY <1>2 DEF Vpu_EndFrame, CommandProtocol
  <2>3. b \in [Frames -> BufferStates]
    BY DEF TypeOK, BufferStates
  <2>4. /\ Holding(b, {"shown"}) = Holding(buf, {"shown"})
        /\ Holding(b, {"writing"}) = {}
    BY <2>2 DEF TypeOK, Holding
  <2>5. status # "exit"
    BY <1>2 DEF Vpu_EndFrame
  <2> HIDE DEF b
  <2>6. QED
    BY <2>1, <2>3, <2>4, <2>5, CompleteAgreement
<1>3. ASSUME NEW status \in Outcomes, Vpu_Refuse(status)
      PROVE  Agreement'
  <2>1. PICK d \in Displayable(buf) \cup {NoIdx} :
          (status = "exit" => d = NoIdx) /\ Complete(buf, status, NoIdx, d)
    BY <1>3 DEF Vpu_Refuse
  <2>2. Holding(buf, {"writing"}) = {} /\ buf \in [Frames -> BufferStates]
    BY <1>3 DEF Vpu_Refuse, CommandProtocol, TypeOK, Holding
  <2>3. QED
    BY <2>1, <2>2, CompleteAgreement
<1>4. QED
  BY <1>1, <1>2, <1>3 DEF Vpu

(* The agreement is inductive as long as no command fails.                 *)
LEMMA Inductive ==
  ASSUME MaxFailedCommands = 0, IndInv, [Next]_vars
  PROVE  Agreement'
<1>1. CASE Application
  BY <1>1, ApplicationAgreement
<1>2. CASE Call
  BY <1>2, UpdateAgreement DEF Call
<1>3. CASE Decode
  BY <1>3, UpdateAgreement, ClearAgreement, ReturnAgreement DEF Decode
<1>4. CASE Vpu
  BY <1>4, VpuAgreement
<1>5. CASE UNCHANGED vars
  <2>1. CommandProtocol'
    BY <1>5 DEF IndInv, CommandProtocol, vars, coreVars, indexVars, driverVars
  <2>2. WindowBound'
    BY <1>5 DEF IndInv, WindowBound, vars, coreVars, indexVars
  <2>3. OwnershipAgreement'
    BY <1>5, UnchangedOwnership DEF IndInv, vars, indexVars, driverVars
  <2>4. QED
    BY <2>1, <2>2, <2>3 DEF Agreement
<1>6. QED
  BY <1>1, <1>2, <1>3, <1>4, <1>5 DEF Next

(* While no command fails, VideoDecoder and the driver agree on who owns   *)
(* which buffer, on the one command in flight, and on the window.          *)
THEOREM AgreementHolds ==
  ASSUME MaxFailedCommands = 0
  PROVE  Spec => []Agreement
<1>1. IndInv /\ [Next]_vars => Agreement'
  BY Inductive
<1>2. TypeOK /\ Agreement <=> IndInv
  BY DEF IndInv, Agreement
<1>3. QED
  BY InitAgreement, TypeCorrect, <1>1, <1>2, PTL DEF Spec

(* OwnershipAgreement: a buffer the driver has lent out is on exactly one  *)
(* list, once, or about to be pushed.                                      *)
THEOREM OwnershipCorrect ==
  ASSUME MaxFailedCommands = 0
  PROVE  Spec => []OwnershipAgreement
<1>1. Agreement => OwnershipAgreement
  BY DEF Agreement
<1>2. QED
  BY AgreementHolds, <1>1, PTL

(* NoOverwrite: the VPU never writes into a picture of the window, the     *)
(* promise of video_decoder.h:276.                                         *)
THEOREM NeverOverwritten ==
  ASSUME MaxFailedCommands = 0
  PROVE  Spec => []NoOverwrite
<1>1. Agreement => NoOverwrite
  BY DEF Agreement, OwnershipAgreement, NoOverwrite, Holding
<1>2. QED
  BY AgreementHolds, <1>1, PTL

------------------------------------------------------------------------------
(* Implementation of SurfaceFrames.                                        *)

Busy == Holding(buf, {"writing"})

(* Which step of SurfaceFrames the application's steps take. *)
LEMMA ApplicationImplements ==
  ASSUME IndInv, Application
  PROVE  Surface!Configure \/ Surface!Close \/ UNCHANGED <<listDisplay, iMaxIndexCnt, Busy>>
<1>1. ASSUME NEW n \in SurfaceChoices, VideoDecoder_Init(n)
      PROVE  UNCHANGED <<listDisplay, iMaxIndexCnt, Busy>>
  BY <1>1 DEF VideoDecoder_Init, indexVars, Busy, Holding
<1>2. ASSUME NEW n \in OutputChoices, VideoDecoder_DecodeSequenceHeader(n)
      PROVE  Surface!Configure
  <2>1. /\ listDisplay = <<>> /\ UNCHANGED listDisplay
        /\ Busy = {} /\ Busy' = {}
    BY <1>2 DEF VideoDecoder_DecodeSequenceHeader, IndInv, TypeOK, CommandProtocol,
                Busy, Holding
  <2>2. iMaxIndexCnt' \in Nat \ {0}
    BY <1>2, WindowSizePositive, DecoderConstants
       DEF VideoDecoder_DecodeSequenceHeader, IndInv, TypeOK
  <2>3. QED
    BY <2>1, <2>2 DEF Surface!Configure, Busy
<1>3. ASSUME VideoDecoder_Deinit
      PROVE  Surface!Close
  BY <1>3 DEF VideoDecoder_Deinit, Surface!Close, Holding
<1>4. QED
  BY <1>1, <1>2, <1>3 DEF Application

(* Which step of SurfaceFrames the steps of a Decode take: only the oldest *)
(* picture leaves a full window, and a new one comes when there is room.   *)
LEMMA DecodeImplements ==
  ASSUME IndInv, MaxFailedCommands = 0, Decode
  PROVE  \/ Surface!GiveBackOldest
         \/ \E f \in Frames : Surface!Output(f)
         \/ UNCHANGED <<listDisplay, iMaxIndexCnt, Busy>>
<1>1. CASE Update_Pop
  <2>1. Len(listDisplay) = iMaxIndexCnt
    <3>1. Len(listDisplay) \in Nat /\ iMaxIndexCnt \in Nat
      BY DEF IndInv, TypeOK
    <3>2. life = "ready"
      BY <1>1 DEF Update_Pop, IndInv, CommandProtocol
    <3>3. QED
      BY <1>1, <3>1, <3>2 DEF Update_Pop, IndInv, WindowBound
  <2>2. QED
    BY <1>1, <2>1 DEF Update_Pop, Surface!GiveBackOldest, driverVars, Holding
<1>2. CASE Update_Done \/ Decode_Issue
  BY <1>2, Issued DEF Update_Done, IndInv, indexVars, driverVars, Busy, Holding
<1>3. CASE Clear_Release
  <2>1. Busy' = Busy
    BY <1>3, Cleared DEF ClearBuffer, IndInv, TypeOK, Busy, Holding
  <2>2. QED
    BY <1>3, <2>1 DEF Clear_Release
<1>4. CASE Decode_Return
  <2>1. /\ completed /\ pc = "wait"
        /\ result.disp \in Idx
        /\ result.status = "exit" => result.disp = NoIdx
    BY <1>4, Answered DEF Decode_Return, IndInv, TypeOK, CommandProtocol
  <2>2. /\ listDisplay' = PushDisplay(result)
        /\ UNCHANGED <<iMaxIndexCnt, buf>>
    BY <1>4, <2>1 DEF Decode_Return, HandleExit, Handle, PushDisplay
  <2>3. CASE result.disp = NoIdx
    BY <2>2, <2>3 DEF PushDisplay, Busy, Holding
  <2>4. CASE result.disp # NoIdx
    <3> DEFINE f == result.disp
    <3>1. f \in Frames /\ Undelivered = {f} /\ listDisplay' = Append(listDisplay, f)
      BY <2>1, <2>2, <2>4 DEF Idx, Undelivered, PushDisplay
    <3>2. f \notin Elems(listDisplay) /\ buf[f] = "shown"
      BY <3>1 DEF IndInv, OwnershipAgreement, Holding
    <3>3. Len(listDisplay) < iMaxIndexCnt
      BY <2>1 DEF IndInv, WindowBound
    <3>4. Surface!Output(f)
      BY <2>2, <3>1, <3>2, <3>3 DEF Surface!Output, Surface!Elems, Elems, Holding
    <3>5. QED
      BY <3>1, <3>4
  <2>5. QED
    BY <2>3, <2>4
<1>5. QED
  BY <1>1, <1>2, <1>3, <1>4 DEF Decode

(* Which step of SurfaceFrames the VPU takes: it starts writing a buffer   *)
(* that is not in the window, and it ends the write it started.            *)
LEMMA VpuImplements ==
  ASSUME IndInv, Vpu
  PROVE  \/ \E f \in Frames : Surface!StartWrite(f) \/ Surface!EndWrite(f)
         \/ UNCHANGED <<listDisplay, iMaxIndexCnt, Busy>>
<1>1. ASSUME NEW f \in Frames, Vpu_BeginFrame(f) \/ Vpu_BeginSecondField(f)
      PROVE  Surface!StartWrite(f)
  <2>1. /\ buf[f] \in {"free", "field"}
        /\ buf' = [buf EXCEPT ![f] = "writing"]
        /\ UNCHANGED <<listDisplay, iMaxIndexCnt>>
    BY <1>1 DEF Vpu_BeginFrame, Vpu_BeginSecondField, indexVars
  <2>2. f \notin Elems(listDisplay)
    BY <2>1 DEF IndInv, OwnershipAgreement, Holding
  <2>3. Holding(buf', {"writing"}) = Holding(buf, {"writing"}) \cup {f}
    BY <2>1 DEF IndInv, TypeOK, Holding
  <2>4. f \notin Holding(buf, {"writing"})
    BY <2>1 DEF Holding
  <2>5. QED
    BY <2>1, <2>2, <2>3, <2>4 DEF Surface!StartWrite, Surface!Elems, Elems, Holding
<1>2. ASSUME NEW status \in Outcomes, Vpu_EndFrame(status)
      PROVE  \E f \in Frames : Surface!EndWrite(f)
  <2> DEFINE b == [buf EXCEPT ![job.frame] = IF status = "frame" THEN "decoded" ELSE "field"]
  <2>1. PICK d \in Displayable(b) \cup {NoIdx} : Complete(b, status, job.frame, d)
    BY <1>2 DEF Vpu_EndFrame
  <2>2. job.frame \in Frames /\ \A g \in Frames : buf[g] = "writing" <=> g = job.frame
    BY <1>2 DEF Vpu_EndFrame, IndInv, CommandProtocol
  <2>3. Holding(buf, {"writing"}) = {job.frame} /\ Holding(b, {"writing"}) = {}
    BY <2>2 DEF IndInv, TypeOK, Holding
  <2>4. b \in [Frames -> BufferStates]
    BY DEF IndInv, TypeOK, BufferStates
  <2>5. Holding(buf', {"writing"}) = {}
    BY <2>1, <2>3, <2>4 DEF Complete, Displayable, Holding
  <2>6. UNCHANGED <<listDisplay, iMaxIndexCnt>>
    BY <2>1 DEF Complete, indexVars
  <2>7. Surface!EndWrite(job.frame)
    BY <2>3, <2>5, <2>6 DEF Surface!EndWrite, Holding
  <2>8. QED
    BY <2>2, <2>7
<1>3. ASSUME NEW status \in Outcomes, Vpu_Refuse(status)
      PROVE  UNCHANGED <<listDisplay, iMaxIndexCnt, Busy>>
  <2>1. PICK d \in Displayable(buf) \cup {NoIdx} : Complete(buf, status, NoIdx, d)
    BY <1>3 DEF Vpu_Refuse
  <2>2. Busy' = Busy
    BY <2>1 DEF Complete, Displayable, IndInv, TypeOK, Busy, Holding
  <2>3. QED
    BY <2>1, <2>2 DEF Complete, indexVars
<1>4. QED
  BY <1>1, <1>2, <1>3 DEF Vpu

(* Every step of the decoder is a step of SurfaceFrames or changes nothing *)
(* SurfaceFrames sees.                                                     *)
LEMMA StepImplements ==
  ASSUME IndInv, MaxFailedCommands = 0, [Next]_vars
  PROVE  Surface!SFNext \/ UNCHANGED <<listDisplay, iMaxIndexCnt, Busy>>
<1>1. CASE Application
  BY <1>1, ApplicationImplements DEF Surface!SFNext
<1>2. CASE Call
  BY <1>2 DEF Call, Decode_Call, indexVars, driverVars, Busy, Holding
<1>3. CASE Decode
  BY <1>3, DecodeImplements DEF Surface!SFNext
<1>4. CASE Vpu
  BY <1>4, VpuImplements DEF Surface!SFNext
<1>5. CASE UNCHANGED vars
  BY <1>5 DEF vars, indexVars, driverVars, Busy, Holding
<1>6. QED
  BY <1>1, <1>2, <1>3, <1>4, <1>5 DEF Next

(* The decoder implements SurfaceFrames: what video_decoder.h:275-277      *)
(* promises of surface frames is kept for every pool and window size,      *)
(* reordering and stream, while no command fails.                          *)
THEOREM Implementation ==
  ASSUME MaxFailedCommands = 0
  PROVE  Spec => SurfaceFramesKept
<1>1. Init => Surface!SFInit
  BY DEF Init, Surface!SFInit, Holding
<1>2. IndInv /\ [Next]_vars => [Surface!SFNext]_(Surface!sfVars)
  <2>1. ASSUME IndInv, [Next]_vars
        PROVE  Surface!SFNext \/ UNCHANGED <<listDisplay, iMaxIndexCnt, Busy>>
    BY <2>1, StepImplements
  <2>2. UNCHANGED <<listDisplay, iMaxIndexCnt, Busy>> => UNCHANGED Surface!sfVars
    BY DEF Surface!sfVars, Busy
  <2>3. QED
    BY <2>1, <2>2
<1>3. TypeOK /\ Agreement => IndInv
  BY DEF IndInv, Agreement
<1>4. QED
  BY TypeCorrect, AgreementHolds, <1>1, <1>2, <1>3, PTL
     DEF Spec, SurfaceFramesKept, Surface!SFSpec

------------------------------------------------------------------------------
(* The protocol and the window.                                            *)

(* CommandProtocol: one command at a time, answered before the next one,   *)
(* and no result left over for a later Decode.                             *)
THEOREM ProtocolCorrect ==
  ASSUME MaxFailedCommands = 0
  PROVE  Spec => []CommandProtocol
<1>1. Agreement => CommandProtocol
  BY DEF Agreement
<1>2. QED
  BY AgreementHolds, <1>1, PTL

(* WindowBound: the window of surface frames never overflows, and has room *)
(* for the picture of the running Decode.                                  *)
THEOREM WindowCorrect ==
  ASSUME MaxFailedCommands = 0
  PROVE  Spec => []WindowBound
<1>1. Agreement => WindowBound
  BY DEF Agreement
<1>2. QED
  BY AgreementHolds, <1>1, PTL

------------------------------------------------------------------------------
(* The records of decoded pictures, when no command fails.                 *)

(* The result Decode is about to handle is that of a picture the driver    *)
(* still holds or shows; a stream that is not open has no buffers.         *)
Unhandled(f) == completed /\ result.status = "frame" /\ result.decoded = f

ResultOfBuffer ==
  /\ completed /\ result.status = "frame" =>
       result.decoded \in Frames /\ buf[result.decoded] \in {"decoded", "shown"}
  /\ life # "ready" => \A f \in Frames : buf[f] = "none"

RecordInv == RecordsFollowBuffers /\ ResultOfBuffer

(* A step that leaves the records, the pending result and the decoded      *)
(* buffers alone leaves the records right.                                 *)
LEMMA UnchangedRecords ==
  ASSUME RecordsFollowBuffers,
         UNCHANGED <<decFrames, completed, result>>,
         \A f \in Frames :
           buf'[f] \in {"decoded", "shown"} <=> buf[f] \in {"decoded", "shown"}
  PROVE  RecordsFollowBuffers'
BY DEF RecordsFollowBuffers

(* At the start there are neither buffers nor records. *)
LEMMA InitRecords == Init => RecordInv
<1> SUFFICES ASSUME Init PROVE RecordInv
  OBVIOUS
<1>1. \A f \in Frames : Len(decFrames[f]) = 0 /\ buf[f] = "none"
  BY DEF Init
<1>2. QED
  BY <1>1 DEF Init, RecordInv, RecordsFollowBuffers, ResultOfBuffer

(* A stream is opened with free buffers and no records; closing it drops   *)
(* the records with the buffers.                                           *)
LEMMA ApplicationRecords ==
  ASSUME IndInv, RecordInv, Application
  PROVE  RecordInv'
<1>1. ASSUME NEW n \in SurfaceChoices, VideoDecoder_Init(n)
      PROVE  RecordInv'
  <2>1. ~completed /\ ~completed' /\ UNCHANGED <<buf, decFrames>>
        /\ \A f \in Frames : buf[f] = "none"
    BY <1>1 DEF VideoDecoder_Init, IndInv, CommandProtocol, RecordInv, ResultOfBuffer
  <2>2. QED
    BY <2>1 DEF RecordInv, RecordsFollowBuffers, ResultOfBuffer
<1>2. ASSUME NEW n \in OutputChoices, VideoDecoder_DecodeSequenceHeader(n)
      PROVE  RecordInv'
  <2>1. /\ life = "inited" /\ life' = "ready" /\ ~completed
        /\ UNCHANGED <<decFrames, completed, result>>
        /\ \A f \in Frames : buf[f] = "none" /\ buf'[f] \in {"free", "none"}
    BY <1>2 DEF VideoDecoder_DecodeSequenceHeader, IndInv, CommandProtocol, RecordInv,
                ResultOfBuffer
  <2>2. RecordsFollowBuffers'
    BY <2>1, UnchangedRecords DEF RecordInv
  <2>3. QED
    BY <2>1, <2>2 DEF RecordInv, ResultOfBuffer
<1>3. ASSUME VideoDecoder_Deinit
      PROVE  RecordInv'
  <2>1. /\ ~completed'
        /\ \A f \in Frames : Len(decFrames'[f]) = 0 /\ buf'[f] = "none"
    BY <1>3 DEF VideoDecoder_Deinit
  <2>2. QED
    BY <2>1 DEF RecordInv, RecordsFollowBuffers, ResultOfBuffer
<1>4. QED
  BY <1>1, <1>2, <1>3 DEF Application

(* Clearing forgets the record of the picture whose buffer goes back.      *)
LEMMA ClearRecords ==
  ASSUME IndInv, RecordInv, MaxFailedCommands = 0, Clear_Release
  PROVE  RecordInv'
<1> DEFINE f == Head(listClear)
<1>1. /\ listClear \in Seq(Frames) /\ listClear # <<>> /\ f \in Frames
      /\ buf \in [Frames -> BufferStates] /\ decFrames \in [Frames -> Seq(Nat)]
  BY DEF IndInv, TypeOK, Clear_Release
<1>2. buf[f] = "shown" /\ ~completed /\ life = "ready"
  <2>1. f \in Elems(listClear)
    BY <1>1, ElemsTail
  <2>2. QED
    BY <1>1, <2>1
       DEF IndInv, OwnershipAgreement, Holding, CommandProtocol, Clear_Release
<1>3. /\ buf' = [buf EXCEPT ![f] = "free"]
      /\ decFrames' = [decFrames EXCEPT ![f] = IF @ = <<>> THEN @ ELSE Tail(@)]
      /\ UNCHANGED <<life, completed, result>>
  BY <1>1, <1>2, Cleared DEF IndInv, Clear_Release, ClearBuffer, ForgetPicture
<1>4. Len(decFrames[f]) = 1
  BY <1>1, <1>2 DEF RecordInv, RecordsFollowBuffers
<1>5. Len(decFrames'[f]) = 0
  BY <1>1, <1>3, <1>4
<1>6. RecordsFollowBuffers'
  BY <1>1, <1>2, <1>3, <1>5 DEF RecordInv, RecordsFollowBuffers
<1>7. QED
  BY <1>2, <1>3, <1>6 DEF RecordInv, ResultOfBuffer

(* Decode makes the record of the picture decoded, and of this one only,   *)
(* with the result that told of it.                                        *)
LEMMA ReturnRecords ==
  ASSUME IndInv, RecordInv, MaxFailedCommands = 0, Decode_Return
  PROVE  RecordInv'
<1>1. completed /\ ~completed' /\ UNCHANGED <<life, buf>> /\ life = "ready"
  BY Answered DEF Decode_Return, IndInv, TypeOK, CommandProtocol
<1>2. ResultOfBuffer'
  BY <1>1 DEF ResultOfBuffer
<1>3. CASE result.status = "frame"
  <2> DEFINE f == result.decoded
  <2>1. /\ f \in Frames /\ buf[f] \in {"decoded", "shown"}
        /\ decFrames \in [Frames -> Seq(Nat)] /\ uiFrameID \in Nat
    BY <1>1, <1>3 DEF RecordInv, ResultOfBuffer, IndInv, TypeOK
  <2>2. decFrames' = [decFrames EXCEPT ![f] = Append(@, uiFrameID)]
    BY <1>3 DEF Decode_Return, Handle, DecFramesAfter, InsertsFrame
  <2>3. Len(decFrames[f]) = 0
    BY <1>1, <1>3, <2>1 DEF RecordInv, RecordsFollowBuffers
  <2>4. Len(decFrames'[f]) = 1
    BY <2>1, <2>2, <2>3
  <2>5. RecordsFollowBuffers'
    BY <1>1, <2>1, <2>2, <2>4 DEF RecordInv, RecordsFollowBuffers
  <2>6. QED
    BY <1>2, <2>5 DEF RecordInv
<1>4. CASE result.status # "frame"
  <2>1. UNCHANGED decFrames
    BY <1>4 DEF Decode_Return, HandleExit, Handle, DecFramesAfter, InsertsFrame
  <2>2. RecordsFollowBuffers'
    BY <1>1, <1>4, <2>1 DEF RecordInv, RecordsFollowBuffers
  <2>3. QED
    BY <1>2, <2>2 DEF RecordInv
<1>5. QED
  BY <1>3, <1>4

(* A command that completes: the picture decoded with it has no record     *)
(* yet and is the one the result names.                                    *)
LEMMA CompleteRecords ==
  ASSUME IndInv, RecordInv, NEW b \in [Frames -> BufferStates],
         NEW status, NEW decoded,
         \A f \in Frames :
           IF status = "frame" /\ f = decoded
           THEN buf[f] \notin {"decoded", "shown"} /\ b[f] = "decoded"
           ELSE b[f] \in {"decoded", "shown"} <=> buf[f] \in {"decoded", "shown"},
         status = "frame" => decoded \in Frames,
         NEW d \in Displayable(b) \cup {NoIdx},
         Complete(b, status, decoded, d)
  PROVE  RecordInv'
<1>1. ~completed /\ life = "ready"
  <2>1. Len(queue) # 0
    BY DEF Complete, IndInv, TypeOK
  <2>2. QED
    BY <2>1 DEF IndInv, CommandProtocol
<1>2. /\ completed' = TRUE
      /\ result' = [status |-> status, decoded |-> decoded, disp |-> d, shown |-> d # NoIdx]
      /\ UNCHANGED <<life, decFrames>>
      /\ buf' = IF d = NoIdx THEN b ELSE [b EXCEPT ![d] = "shown"]
  BY DEF Complete, coreVars
<1>3. d # NoIdx => d \in Frames /\ b[d] = "decoded"
  BY DEF Displayable, Holding
<1>4. \A f \in Frames : buf'[f] \in {"decoded", "shown"} <=> b[f] \in {"decoded", "shown"}
  BY <1>2, <1>3
<1>5. ResultOfBuffer'
  BY <1>1, <1>2, <1>4 DEF ResultOfBuffer
<1>6. RecordsFollowBuffers'
  BY <1>1, <1>2, <1>4 DEF RecordInv, RecordsFollowBuffers
<1>7. QED
  BY <1>5, <1>6 DEF RecordInv

(* The VPU decodes a picture into the buffer of its command.               *)
LEMMA VpuRecords ==
  ASSUME IndInv, RecordInv, Vpu
  PROVE  RecordInv'
<1>1. ASSUME NEW f \in Frames, Vpu_BeginFrame(f) \/ Vpu_BeginSecondField(f)
      PROVE  RecordInv'
  <2>1. /\ buf[f] \in {"free", "field"} /\ queue # <<>>
        /\ buf' = [buf EXCEPT ![f] = "writing"]
        /\ buf \in [Frames -> BufferStates]
        /\ UNCHANGED <<life, decFrames, completed, result>>
    BY <1>1 DEF Vpu_BeginFrame, Vpu_BeginSecondField, coreVars, IndInv, TypeOK
  <2>2. ~completed /\ life = "ready"
    <3>1. Len(queue) # 0
      BY <2>1 DEF IndInv, TypeOK
    <3>2. QED
      BY <3>1 DEF IndInv, CommandProtocol
  <2>3. RecordsFollowBuffers'
    BY <2>1, UnchangedRecords DEF RecordInv
  <2>4. QED
    BY <2>1, <2>2, <2>3 DEF RecordInv, ResultOfBuffer
<1>2. ASSUME NEW status \in Outcomes, Vpu_EndFrame(status)
      PROVE  RecordInv'
  <2> DEFINE b == [buf EXCEPT ![job.frame] = IF status = "frame" THEN "decoded" ELSE "field"]
  <2>1. PICK d \in Displayable(b) \cup {NoIdx} : Complete(b, status, job.frame, d)
    BY <1>2 DEF Vpu_EndFrame
  <2>2. job.frame \in Frames /\ buf[job.frame] = "writing"
        /\ buf \in [Frames -> BufferStates]
    BY <1>2 DEF Vpu_EndFrame, IndInv, CommandProtocol, TypeOK
  <2>3. b \in [Frames -> BufferStates]
    BY <2>2 DEF BufferStates
  <2>4. \A f \in Frames :
           IF status = "frame" /\ f = job.frame
           THEN buf[f] \notin {"decoded", "shown"} /\ b[f] = "decoded"
           ELSE b[f] \in {"decoded", "shown"} <=> buf[f] \in {"decoded", "shown"}
    BY <2>2
  <2> HIDE DEF b
  <2>5. QED
    BY <2>1, <2>2, <2>3, <2>4, CompleteRecords
<1>3. ASSUME NEW status \in Outcomes, Vpu_Refuse(status)
      PROVE  RecordInv'
  <2>1. PICK d \in Displayable(buf) \cup {NoIdx} : Complete(buf, status, NoIdx, d)
    BY <1>3 DEF Vpu_Refuse
  <2>2. buf \in [Frames -> BufferStates] /\ status # "frame"
    BY <1>3 DEF Vpu_Refuse, IndInv, TypeOK
  <2>3. QED
    BY <2>1, <2>2, CompleteRecords
<1>4. QED
  BY <1>1, <1>2, <1>3 DEF Vpu

(* The other steps touch neither buffers nor records.                      *)
LEMMA OtherRecords ==
  ASSUME RecordInv,
         UNCHANGED <<decFrames, completed, result, buf, life>>
  PROVE  RecordInv'
BY DEF RecordInv, RecordsFollowBuffers, ResultOfBuffer

LEMMA RecordsInductive ==
  ASSUME MaxFailedCommands = 0, IndInv, RecordInv, [Next]_vars
  PROVE  RecordInv'
<1>1. CASE Application
  BY <1>1, ApplicationRecords
<1>2. CASE Call
  BY <1>2, OtherRecords DEF Call, Decode_Call, driverVars
<1>3. CASE Decode
  <2>1. CASE Update_Pop \/ Update_Done \/ Decode_Issue
    BY <2>1, OtherRecords, Issued
       DEF Update_Pop, Update_Done, IndInv, coreVars, driverVars
  <2>2. QED
    BY <1>3, <2>1, ClearRecords, ReturnRecords DEF Decode
<1>4. CASE Vpu
  BY <1>4, VpuRecords
<1>5. CASE UNCHANGED vars
  BY <1>5, OtherRecords DEF vars, coreVars, driverVars
<1>6. QED
  BY <1>1, <1>2, <1>3, <1>4, <1>5 DEF Next

LEMMA RecordsHold ==
  ASSUME MaxFailedCommands = 0
  PROVE  Spec => []RecordInv
<1>1. IndInv /\ RecordInv /\ [Next]_vars => RecordInv'
  BY RecordsInductive
<1>2. TypeOK /\ Agreement <=> IndInv
  BY DEF IndInv, Agreement
<1>3. QED
  BY InitRecords, TypeCorrect, AgreementHolds, <1>1, <1>2, PTL DEF Spec

(* RecordsFollowBuffers: ptListDecFrame holds one record for each picture  *)
(* that is decoded and not yet given back, and no stale one.               *)
THEOREM RecordsCorrect ==
  ASSUME MaxFailedCommands = 0
  PROVE  Spec => []RecordsFollowBuffers
<1>1. RecordInv => RecordsFollowBuffers
  BY DEF RecordInv
<1>2. QED
  BY RecordsHold, <1>1, PTL

------------------------------------------------------------------------------
(* Output once a stream has started, when no command fails.                *)

(* A picture was displayed only if get_video_decode_result has seen one or *)
(* is about to; while a Decode runs no error of an earlier one is left.    *)
StartInv ==
  /\ completed => (result.shown <=> result.disp # NoIdx)
  /\ lastShown # 0 => anyDisplayed \/ (completed /\ result.shown)
  /\ pc # "idle" => out.ret = "None"
  /\ GetOutputFailsOnlyBeforeFirst

LEMMA InitStart == Init => StartInv
BY DEF Init, StartInv, NoOutput, GetOutputFailsOnlyBeforeFirst

(* The picture of a result that displays one has its record by the time it *)
(* is looked up, be it the picture just decoded or an earlier one.         *)
LEMMA DisplayedIsFound ==
  ASSUME IndInv, RecordInv, RecordInv', StartInv, MaxFailedCommands = 0, Decode_Return,
         result.status # "exit", result.shown
  PROVE  FindsOutput(result, DecFramesAfter(result))
<1> DEFINE f == result.disp
<1>1. completed /\ ~completed' /\ UNCHANGED buf /\ decFrames' = DecFramesAfter(result)
  BY Answered DEF Decode_Return, IndInv, TypeOK, Handle
<1>2. f \in Frames /\ f # NoIdx /\ Undelivered = {f}
  BY <1>1 DEF StartInv, IndInv, TypeOK, Idx, Undelivered
<1>3. buf[f] = "shown"
  BY <1>2 DEF IndInv, OwnershipAgreement, Holding
<1>4. Len(decFrames'[f]) = 1
  BY <1>1, <1>2, <1>3 DEF RecordInv, RecordsFollowBuffers
<1>5. decFrames'[f] # <<>>
  BY <1>4
<1>6. QED
  BY <1>1, <1>2, <1>5 DEF FindsOutput, IsFrameOut

(* Only a first picture, taken as displayed on its own, is not found.      *)
LEMMA ReturnStart ==
  ASSUME IndInv, RecordInv, RecordInv', StartInv, MaxFailedCommands = 0, Decode_Return
  PROVE  StartInv'
<1>1. /\ completed /\ ~completed' /\ pc = "wait" /\ pc' = "idle"
      /\ out.ret = "None"
      /\ UNCHANGED <<lastShown, result>>
      /\ result.shown \in BOOLEAN /\ anyDisplayed \in BOOLEAN
  BY Answered DEF Decode_Return, IndInv, TypeOK, StartInv
<1>2. CASE result.status = "exit"
  <2>1. ~result.shown /\ UNCHANGED <<out, anyDisplayed>>
    BY <1>1, <1>2 DEF Decode_Return, HandleExit, IndInv, CommandProtocol, StartInv
  <2>2. QED
    BY <1>1, <2>1 DEF StartInv, GetOutputFailsOnlyBeforeFirst
<1>3. CASE result.status # "exit"
  <2>1. /\ Handle(result)
        /\ anyDisplayed' = (anyDisplayed \/ IsFrameOut(result))
    BY <1>3 DEF Decode_Return, Handle
  <2>2. CASE result.shown
    <3>1. FindsOutput(result, DecFramesAfter(result))
      BY <1>3, <2>2, DisplayedIsFound
    <3>2. out'.ret = "None" /\ anyDisplayed'
      BY <2>1, <2>2, <3>1 DEF Handle, IsFrameOut
    <3>3. QED
      BY <1>1, <3>2 DEF StartInv, GetOutputFailsOnlyBeforeFirst
  <2>3. CASE ~result.shown
    <3>1. lastShown # 0 => anyDisplayed
      BY <2>3 DEF StartInv
    <3>2. out'.ret = "GetOutputFrame" => IsFrameOut(result)
      BY <2>1 DEF Handle, NoOutput
    <3>3. IsFrameOut(result) => ~anyDisplayed
      BY <2>3 DEF IsFrameOut
    <3>4. QED
      BY <1>1, <2>1, <3>1, <3>2, <3>3 DEF StartInv, GetOutputFailsOnlyBeforeFirst
  <2>4. QED
    BY <2>2, <2>3
<1>4. QED
  BY <1>2, <1>3

(* A picture is displayed with a command, while a Decode waits for it.     *)
LEMMA CompleteStart ==
  ASSUME IndInv, StartInv, NEW b, NEW status, NEW decoded, NEW d,
         Complete(b, status, decoded, d)
  PROVE  StartInv'
<1>1. pc # "idle" /\ ~completed
  <2>1. Len(queue) # 0
    BY DEF Complete, IndInv, TypeOK
  <2>2. QED
    BY <2>1 DEF IndInv, CommandProtocol
<1>2. /\ UNCHANGED <<pc, out, anyDisplayed>>
      /\ completed'
      /\ lastShown' = IF d = NoIdx THEN lastShown ELSE ptsOf[d]
      /\ result' = [status |-> status, decoded |-> decoded, disp |-> d, shown |-> d # NoIdx]
  BY DEF Complete, coreVars
<1>3. out.ret = "None"
  BY <1>1 DEF StartInv
<1>4. QED
  BY <1>1, <1>2, <1>3 DEF StartInv, GetOutputFailsOnlyBeforeFirst

(* A step that leaves the displayed pictures and the answer alone.         *)
LEMMA OtherStart ==
  ASSUME StartInv,
         UNCHANGED <<completed, result, lastShown, anyDisplayed, out>>,
         pc' # "idle" => pc # "idle"
  PROVE  StartInv'
BY DEF StartInv, GetOutputFailsOnlyBeforeFirst

LEMMA StartInductive ==
  ASSUME MaxFailedCommands = 0, IndInv, RecordInv, RecordInv', StartInv, [Next]_vars
  PROVE  StartInv'
<1>1. ASSUME NEW n \in SurfaceChoices, VideoDecoder_Init(n)
      PROVE  StartInv'
  <2>1. pc' = "idle" /\ ~completed' /\ lastShown' = 0
    BY <1>1 DEF VideoDecoder_Init, IndInv, CommandProtocol
  <2>2. QED
    BY <2>1 DEF StartInv, GetOutputFailsOnlyBeforeFirst
<1>2. ASSUME NEW n \in OutputChoices, VideoDecoder_DecodeSequenceHeader(n)
      PROVE  StartInv'
  BY <1>2, OtherStart DEF VideoDecoder_DecodeSequenceHeader
<1>3. CASE VideoDecoder_Deinit
  <2>1. /\ ~completed /\ ~completed' /\ out'.ret = "None"
        /\ UNCHANGED <<lastShown, anyDisplayed>>
    BY <1>3 DEF VideoDecoder_Deinit, NoOutput, IndInv, CommandProtocol
  <2>2. QED
    BY <2>1 DEF StartInv, GetOutputFailsOnlyBeforeFirst
<1>4. ASSUME NEW p \in NextPackets, Decode_Call(p)
      PROVE  StartInv'
  <2>1. out'.ret = "None" /\ UNCHANGED <<lastShown, anyDisplayed, completed, result>>
    BY <1>4 DEF Decode_Call, NoOutput, driverVars
  <2>2. QED
    BY <2>1 DEF StartInv, GetOutputFailsOnlyBeforeFirst
<1>5. CASE Update_Pop \/ Update_Done \/ Clear_Release \/ Decode_Issue
  BY <1>5, OtherStart, Issued
     DEF Update_Pop, Update_Done, Clear_Release, IndInv, coreVars, driverVars
<1>6. CASE Decode_Return
  BY <1>6, ReturnStart
<1>7. ASSUME NEW f \in Frames, Vpu_BeginFrame(f) \/ Vpu_BeginSecondField(f)
      PROVE  StartInv'
  BY <1>7, OtherStart DEF Vpu_BeginFrame, Vpu_BeginSecondField, coreVars
<1>8. ASSUME NEW status \in Outcomes, Vpu_EndFrame(status) \/ Vpu_Refuse(status)
      PROVE  StartInv'
  <2>1. PICK b, decoded, d : Complete(b, status, decoded, d)
    BY <1>8 DEF Vpu_EndFrame, Vpu_Refuse
  <2>2. QED
    BY <2>1, CompleteStart
<1>9. CASE UNCHANGED vars
  BY <1>9, OtherStart DEF vars, coreVars, driverVars
<1>10. QED
  BY <1>1, <1>2, <1>3, <1>4, <1>5, <1>6, <1>7, <1>8, <1>9
     DEF Next, Application, Call, Decode, Vpu

(* GetOutputFailsOnlyBeforeFirst: once a picture of a stream was           *)
(* displayed, VideoDecoder_Decode never fails to find the picture of a     *)
(* result.                                                                 *)
THEOREM StartedStreamFindsOutput ==
  ASSUME MaxFailedCommands = 0
  PROVE  Spec => []GetOutputFailsOnlyBeforeFirst
<1>1. IndInv /\ RecordInv /\ RecordInv' /\ StartInv /\ [Next]_vars => StartInv'
  BY StartInductive
<1>2. TypeOK /\ Agreement <=> IndInv
  BY DEF IndInv, Agreement
<1>3. StartInv => GetOutputFailsOnlyBeforeFirst
  BY DEF StartInv
<1>4. QED
  BY InitStart, TypeCorrect, AgreementHolds, RecordsHold, <1>1, <1>2, <1>3, PTL DEF Spec

==============================================================================
