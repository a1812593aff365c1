--------------------------------- MODULE VpuTest ---------------------------------
(***************************************************************************)
(* The VPU test application (vpu_test_main.c): the main thread creates the *)
(* encoders and decoders of its command line, starts a thread for each,    *)
(* waits for a 'q', stops and joins them and frees what they worked on     *)
(* (vpu_test_encoder.c, vpu_test_decoder.c).  isRun is the only thing the  *)
(* threads share, and it is not protected.                                 *)
(*                                                                         *)
(* A decoder's file is a sequence of elements, the headers of its codec    *)
(* and then the pictures; the parser cuts it at the start codes it knows.  *)
(* In MPEG-4 it knows the pictures' only.  What the codecs do is left to   *)
(* VideoDecoder and VideoEncoder: here a call succeeds or fails.  Output   *)
(* files are opened and closed, not filled.                                *)
(***************************************************************************)
EXTENDS Integers, Sequences

CONSTANTS
  Kinds,        \* of the command line, the encoders first
  Codecs,       \* of the decoders: "h264", "h263", "mpeg4", "mjpeg"
  Pictures,     \* pictures in each file
  StopCounts,   \* values of -stopCount
  Iterations,   \* values of -n
  Faults        \* what may fail, see Opened and Frame

VpuTestConstants ==
  /\ Kinds \in Seq({"encoder", "decoder"}) /\ Len(Kinds) > 0
  /\ \A i, j \in DOMAIN Kinds : i < j /\ Kinds[i] = "decoder" => Kinds[j] = "decoder"
  /\ Codecs \subseteq {"h264", "h263", "mpeg4", "mjpeg"}
  /\ Pictures \in Nat \ {0} /\ StopCounts \subseteq Nat /\ Iterations \subseteq Nat
  /\ Faults \subseteq {"context", "file", "create", "init", "memory", "mem", "map",
                       "size", "header", "encode"}

N == Len(Kinds)
Tests == DOMAIN Kinds
Decoders == {w \in Tests : Kinds[w] = "decoder"}
Encoders == Tests \ Decoders

VARIABLES
  main,     \* "creating", "starting", "waiting", "stopping", "joining", "destroying", "ended"
  k,        \* the next handle of that loop
  ctx,      \* of each test: "none", "allocated", "freed"
  config,   \* codec, numDecIterations, stopCount
  isRun,
  thread,   \* "none", "opening", "reading", "failing", "finishing", "ended"
  coder,    \* video_decoder or video_encoder: "none", "created", "inited"
  files,    \* a file is open
  memory,   \* readBuffer or the YUV buffer: "garbage", "null", "mapped"
  found,    \* found_seqheader
  pos,      \* elements or frames read from the file
  fed,      \* history: the first and last elements of what was decoded, until the end of the file
  frames,   \* framecount, up to the largest stopCount
  repeats   \* repeat_decoding

mainvars == <<main, k, ctx, config, isRun>>
workvars == <<thread, coder, files, memory, found, pos, fed, frames, repeats>>
vars == <<mainvars, workvars>>

NoConfig == [codec |-> "none", numDecIterations |-> 0, stopCount |-> 0]

Init ==
  /\ main = "creating" /\ k = 1
  /\ ctx = [w \in Tests |-> "none"] /\ config = [w \in Tests |-> NoConfig]
  /\ isRun = [w \in Tests |-> FALSE] /\ thread = [w \in Tests |-> "none"]
  /\ coder = [w \in Tests |-> "none"] /\ files = [w \in Tests |-> FALSE]
  /\ memory = [w \in Tests |-> "null"] /\ found = [w \in Tests |-> FALSE]
  /\ pos = [w \in Tests |-> 0] /\ fed = [w \in Tests |-> <<>>]
  /\ frames = [w \in Tests |-> 0] /\ repeats = [w \in Tests |-> 0]
-----------------------------------------------------------------------------
(* The main thread.                                                        *)

GoOn(next) == IF k = N THEN main' = next /\ k' = 1 ELSE k' = k + 1 /\ UNCHANGED main

(* Neither the context nor what no option sets is ever initialised.        *)
Configs(w) ==
  IF w \in Decoders
  THEN [codec : Codecs, numDecIterations : Iterations, stopCount : StopCounts]
  ELSE [codec : {"none"}, numDecIterations : {0}, stopCount : {0}]

Test_Create ==
  /\ main = "creating" /\ GoOn("starting")
  /\ \/ "context" \in Faults /\ UNCHANGED <<ctx, config, found, memory>>
     \/ /\ ctx' = [ctx EXCEPT ![k] = "allocated"]
        /\ \E c \in Configs(k) : config' = [config EXCEPT ![k] = c]
        /\ \E f \in BOOLEAN : found' = [found EXCEPT ![k] = f /\ k \in Decoders]
        /\ memory' = [memory EXCEPT ![k] = IF k \in Encoders THEN "garbage" ELSE "null"]
  /\ UNCHANGED <<isRun, thread, coder, files, pos, fed, frames, repeats>>

(* A handle that was not created is written to all the same.               *)
Test_Start ==
  /\ main = "starting"
  /\ IF ctx[k] = "none"
     THEN main' = "crashed" /\ UNCHANGED <<k, isRun, thread>>
     ELSE /\ GoOn("waiting")
          /\ isRun' = [isRun EXCEPT ![k] = TRUE] /\ thread' = [thread EXCEPT ![k] = "opening"]
  /\ UNCHANGED <<ctx, config, coder, files, memory, found, pos, fed, frames, repeats>>

Quit ==
  /\ main = "waiting" /\ main' = "stopping"
  /\ UNCHANGED <<k, ctx, config, isRun, workvars>>

(* Decoders are stopped and freed before encoders.                         *)
Nth(i) ==
  LET encoders == N - Len(SelectSeq(Kinds, LAMBDA x : x = "decoder"))
      decoders == N - encoders
  IN IF i <= decoders THEN encoders + i ELSE i - decoders

Test_Stop ==
  /\ main = "stopping" /\ main' = "joining"
  /\ isRun' = [isRun EXCEPT ![Nth(k)] = FALSE]
  /\ UNCHANGED <<k, ctx, config, workvars>>

Test_Join ==
  /\ main = "joining" /\ thread[Nth(k)] = "ended"
  /\ IF k = N THEN main' = "destroying" /\ k' = 1 ELSE main' = "stopping" /\ k' = k + 1
  /\ UNCHANGED <<ctx, config, isRun, workvars>>

Test_Destroy ==
  /\ main = "destroying" /\ GoOn("ended")
  /\ ctx' = [ctx EXCEPT ![Nth(k)] = "freed"]
  /\ UNCHANGED <<config, isRun, workvars>>

Main == Test_Create \/ Test_Start \/ Test_Stop \/ Test_Join \/ Test_Destroy
-----------------------------------------------------------------------------
(* A decoder's thread.                                                     *)

Headers(c) == CASE c = "h264" -> 2 [] c = "mpeg4" -> 1 [] OTHER -> 0
FileLength(c) == Headers(c) + Pictures

(* The elements whose start code the parser knows; it never looks at the   *)
(* first bytes of what it reads.                                           *)
StartCodes(c, from) == {i \in (from + 2)..FileLength(c) : c = "mpeg4" => i > Headers(c)}

Nearest(S) == CHOOSE i \in S : \A j \in S : i <= j

(* Up to the element before i, where reading goes on.                      *)
Cut(i, known) == [to |-> i - 1, next |-> i - 1, found |-> known]
EndOfFile(c, known) == [to |-> FileLength(c), next |-> FileLength(c), found |-> known]

(* Up to the next start code, or up to the second as long as none has been *)
(* found; what is before the end of the file is dropped.                   *)
parse_video_frame(c, from, known) ==
  LET codes == StartCodes(c, from)
      later == codes \ {Nearest(codes)}
      first == known \/ c = "mjpeg"
  IN CASE codes = {}                            -> EndOfFile(c, known)
       [] codes # {} /\ first                   -> Cut(Nearest(codes), known)
       [] codes # {} /\ ~first /\ later # {}     -> Cut(Nearest(later), TRUE)
       [] codes # {} /\ ~first /\ later = {}     -> EndOfFile(c, TRUE)

Decoder_Fails(w, fault, state, next) ==
  /\ fault \in Faults
  /\ coder' = [coder EXCEPT ![w] = state] /\ thread' = [thread EXCEPT ![w] = next]

(* Without memory for the stream the decoder is left as it is; a failed    *)
(* Init ends the repetitions.                                              *)
DecoderFailures(w) ==
  \/ Decoder_Fails(w, "file", "none", "finishing") /\ UNCHANGED config
  \/ Decoder_Fails(w, "create", "none", "failing") /\ UNCHANGED config
  \/ Decoder_Fails(w, "memory", "inited", "finishing") /\ UNCHANGED config
  \/ /\ Decoder_Fails(w, "init", "created", "failing")
     /\ config' = [config EXCEPT ![w].numDecIterations = 0]

Decoder_Open(w) ==
  /\ w \in Decoders /\ thread[w] = "opening"
  /\ files' = [files EXCEPT ![w] = TRUE]
  /\ pos' = [pos EXCEPT ![w] = 0] /\ fed' = [fed EXCEPT ![w] = <<>>]
  /\ frames' = [frames EXCEPT ![w] = 0]
  /\ \/ DecoderFailures(w) /\ UNCHANGED memory
     \/ /\ coder' = [coder EXCEPT ![w] = "inited"] /\ thread' = [thread EXCEPT ![w] = "reading"]
        /\ memory' = [memory EXCEPT ![w] = "mapped"] /\ UNCHANGED config
  /\ UNCHANGED <<main, k, ctx, isRun, found, repeats>>

Counted(n) == IF \E s \in StopCounts : n <= s THEN n ELSE n - 1

(* Mutant: a decoder reads its file to the end.                            *)
Stopped_Never(w) == config[w].stopCount > 0 /\ frames[w] >= config[w].stopCount

Stopped(w) ==
  \/ ~isRun[w]
  \/ w \in Decoders /\ config[w].stopCount > 0 /\ frames[w] >= config[w].stopCount

(* At the end of the file nothing is decoded, again and again; that a      *)
(* decoder returns an error is not looked at.                              *)
Decoder_Frame(w) ==
  /\ w \in Decoders /\ thread[w] = "reading" /\ ~Stopped(w)
  /\ LET c == config[w].codec
         cut == parse_video_frame(c, pos[w], found[w])
     IN /\ found' = [found EXCEPT ![w] = cut.found] /\ pos' = [pos EXCEPT ![w] = cut.next]
        /\ fed' = IF cut.to = FileLength(c) THEN fed
                  ELSE [fed EXCEPT ![w] = Append(@, <<pos[w] + 1, cut.to>>)]
  /\ frames' = [frames EXCEPT ![w] = Counted(@ + 1)]
  /\ UNCHANGED <<mainvars, thread, coder, files, memory, repeats>>

(* Deinit and Destroy.                                                     *)
Coder_Close(w) ==
  /\ thread[w] = "failing"
  /\ coder' = [coder EXCEPT ![w] = "none"] /\ thread' = [thread EXCEPT ![w] = "finishing"]
  /\ UNCHANGED <<mainvars, files, memory, found, pos, fed, frames, repeats>>

Coder_Stop(w) ==
  /\ thread[w] = "reading" /\ Stopped(w)
  /\ thread' = [thread EXCEPT ![w] = "failing"]
  /\ UNCHANGED <<mainvars, coder, files, memory, found, pos, fed, frames, repeats>>

Decoder_Finish(w) ==
  /\ w \in Decoders /\ thread[w] = "finishing"
  /\ files' = [files EXCEPT ![w] = FALSE] /\ memory' = [memory EXCEPT ![w] = "null"]
  /\ IF isRun[w] /\ repeats[w] < config[w].numDecIterations
     THEN thread' = [thread EXCEPT ![w] = "opening"] /\ repeats' = [repeats EXCEPT ![w] = @ + 1]
     ELSE thread' = [thread EXCEPT ![w] = "ended"] /\ UNCHANGED repeats
  /\ UNCHANGED <<mainvars, coder, found, pos, fed, frames>>
-----------------------------------------------------------------------------
(* An encoder's thread.                                                    *)

(* Without /dev/mem the addresses are what they were, and no error.        *)
Mapped == {"mapped"} \union (IF "mem" \in Faults THEN {"garbage"} ELSE {})
NotMapped == (IF "file" \in Faults THEN {"garbage"} ELSE {})
               \union (IF "map" \in Faults THEN {"null"} ELSE {})

Encoder_Fails(w, m, state) ==
  /\ memory' = [memory EXCEPT ![w] = m] /\ coder' = [coder EXCEPT ![w] = state]
  /\ thread' = [thread EXCEPT ![w] = "finishing"]

Encoder_Open(w) ==
  /\ w \in Encoders /\ thread[w] = "opening"
  /\ files' = [files EXCEPT ![w] = TRUE]
  /\ \/ \E m \in NotMapped : Encoder_Fails(w, m, "none")
     \/ \E m \in Mapped, f \in {"size", "create"} \intersect Faults : Encoder_Fails(w, m, "none")
     \/ \E m \in Mapped : "init" \in Faults /\ Encoder_Fails(w, m, "created")
     \/ \E m \in Mapped : "header" \in Faults /\ Encoder_Fails(w, m, "inited")
     \/ \E m \in Mapped :
          /\ memory' = [memory EXCEPT ![w] = m]
          /\ coder' = [coder EXCEPT ![w] = "inited"] /\ thread' = [thread EXCEPT ![w] = "reading"]
  /\ UNCHANGED <<mainvars, found, pos, fed, frames, repeats>>

Encoder_Frame(w) ==
  /\ w \in Encoders /\ thread[w] = "reading" /\ ~Stopped(w)
  /\ \/ pos[w] = Pictures /\ thread' = [thread EXCEPT ![w] = "failing"] /\ UNCHANGED pos
     \/ pos[w] < Pictures /\ pos' = [pos EXCEPT ![w] = @ + 1] /\ UNCHANGED thread
     \/ /\ pos[w] < Pictures /\ "encode" \in Faults
        /\ pos' = [pos EXCEPT ![w] = @ + 1] /\ thread' = [thread EXCEPT ![w] = "finishing"]
  /\ UNCHANGED <<mainvars, coder, files, memory, found, fed, frames, repeats>>

Encoder_Finish(w) ==
  /\ w \in Encoders /\ thread[w] = "finishing"
  /\ thread' = [thread EXCEPT ![w] = "ended"] /\ files' = [files EXCEPT ![w] = FALSE]
  /\ memory' = [memory EXCEPT ![w] = "null"]
  /\ UNCHANGED <<mainvars, coder, found, pos, fed, frames, repeats>>

Thread(w) ==
  \/ Decoder_Open(w) \/ Decoder_Frame(w) \/ Decoder_Finish(w)
  \/ Encoder_Open(w) \/ Encoder_Frame(w) \/ Encoder_Finish(w)
  \/ Coder_Stop(w) \/ Coder_Close(w)

Next == Main \/ Quit \/ \E w \in Tests : Thread(w)

Spec == Init /\ [][Next]_vars /\ WF_vars(Main) /\ \A w \in Tests : WF_vars(Thread(w))
-----------------------------------------------------------------------------
(* The type of the variables; a coder that works has its file and memory.  *)
VpuTypeOK ==
  /\ main \in {"creating", "starting", "waiting", "stopping", "joining", "destroying", "ended",
               "crashed"}
  /\ k \in 1..N
  /\ \A w \in Tests :
       /\ ctx[w] \in {"none", "allocated", "freed"} /\ coder[w] \in {"none", "created", "inited"}
       /\ thread[w] = "reading" => files[w] /\ coder[w] = "inited" /\ memory[w] # "null"
       /\ repeats[w] <= config[w].numDecIterations \/ "init" \in Faults

(* A thread works on its context for as long as it runs; main frees the    *)
(* contexts (vdec_test_stop, venc_test_stop).                              *)
ContextHeld == \A w \in Tests : thread[w] \notin {"none", "ended"} => ctx[w] = "allocated"

(* Until the end of the file a decoder is given all of it, in order, in    *)
(* every repetition (parse_video_frame).                                   *)
FedInOrder ==
  \A w \in Decoders :
    \A i \in DOMAIN fed[w] : fed[w][i][1] = IF i = 1 THEN 1 ELSE fed[w][i - 1][2] + 1

(* A thread that has ended has closed its files, destroyed its decoder and *)
(* unmapped its memory, whichever of opening, creating and initialising    *)
(* failed.  (Not so an encoder whose header failed, or a decoder without   *)
(* memory for the stream.)                                                 *)
Released ==
  \A w \in Tests : thread[w] = "ended" => ~files[w] /\ coder[w] = "none" /\ memory[w] = "null"

(* After the 'q' every thread ends and the application too.                *)
QuitEnds == main = "stopping" ~> main = "ended"

================================================================================
