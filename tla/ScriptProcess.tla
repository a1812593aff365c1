----------------------------- MODULE ScriptProcess ------------------------------
(***************************************************************************)
(* The command interpreter of a script task (vpu_script_process.c) with    *)
(* the file parser below it (vpu_script_system.c) and the two decoder      *)
(* wrappers it drives (vpu_script_decoder_wrapper_vdec.c, ..._tcodec.c).   *)
(*                                                                         *)
(* A step is one call of vpu_proc_parser, which reads a line of the task's *)
(* text and executes it; the task's thread calls it until it returns -1.   *)
(* A line is a record of its command and what of its parameter matters.    *)
(* Lines whose command changes nothing here ("title", "wait", "task_start",*)
(* "vdec_drain", an unknown word) are "other"; so is "title", whose copies *)
(* of a name that is given twice are not followed.  Commands' results are  *)
(* only logged, so a script goes on after any failure.                     *)
(*                                                                         *)
(* Contents are a file of numbered units (NALs or pictures); the first one *)
(* is the sequence header, and any of them fits in readBuffer.  Scripts    *)
(* are well nested: every repeat_start has its repeat_end; and they read   *)
(* their contents before they use them, so that a readBuffer that is NULL  *)
(* is not looked at.                                                       *)
(***************************************************************************)
EXTENDS Integers, Sequences, FiniteSets, FiniteSetsExt

CONSTANTS
  Scripts,      \* texts of a task: sequences of lines
  Tails,        \* what lies behind the last line of the text: "nul", "garbage"
  Wrappers,     \* the wrapper the interpreter is linked with: "vdec", "tcodec"
  Units,        \* lengths of the contents
  Codecs,       \* "mjpeg", or any codec that is split at start codes: "nal"
  MaxDepth,     \* MAX_REPEAT_DEPTH
  MaxExecs,     \* bound: executions of a line, and read buffers, are counted
                \* up to this number
  Faults        \* what may fail: "contents", "alloc", "init"

ScriptConstants ==
  /\ Tails \subseteq {"nul", "garbage"} /\ Wrappers \subseteq {"vdec", "tcodec"}
  /\ Units \subseteq Nat /\ Codecs \subseteq {"mjpeg", "nal"}
  /\ {MaxDepth, MaxExecs} \subseteq Nat \ {0}
  /\ Faults \subseteq {"contents", "alloc", "init"}

VARIABLES
  setup,     \* the script, its tail, the wrapper, the contents and the codec
  status,    \* "running", "finished", "crashed"
  next,      \* nextbuffer: the number of the line it points at, 0 for NULL
  index,     \* repeat_index
  info,      \* repeat_info: count and start_pos (a line)
  timers,    \* time_check_stack_index
  operations,\* result.operation_count
  position,  \* the unit fp_contents is at, 0 if fp_contents is NULL
  dump,      \* fp_dump is open
  search,    \* search_seqheader
  data,      \* units in readBuffer: <<first, last>>, <<>> if readsize <= 0
  handle,    \* conv_handle, 0 for NULL
  header,    \* seqheader_init
  decoders,  \* the library's instances: a handle -> "alloc", "open"
  \* history
  execs,     \* how often each line was executed
  files,     \* FILEs that are open
  buffers,   \* read buffers that are allocated
  fed,       \* units given to vdec_decode since contents were opened
  headers    \* sequence headers sent since vdec_init

control == <<status, next, index, info, execs>>
timing == <<timers, operations>>
content == <<position, dump, search, data, files, buffers>>
decoder == <<handle, header, decoders, headers>>
vars == <<setup, control, timing, content, decoder, fed>>

script == setup.script
Lines == DOMAIN script
-----------------------------------------------------------------------------
(* The initial states: vpu_proc_alloc.                                     *)

vpu_proc_alloc ==
  /\ setup \in [script : Scripts, tail : Tails, wrapper : Wrappers,
                units : Units, codec : Codecs]
  /\ status = "running" /\ next = 0
  /\ index = -1 /\ info = [i \in 0..(MaxDepth - 1) |-> [count |-> 1, start |-> 0]]
  /\ timers = 0 /\ operations = 0
  /\ position = 0 /\ dump = FALSE /\ search = 0 /\ data = <<>> /\ files = 0
  /\ buffers = 0
  /\ handle = 0 /\ header = 0 /\ decoders = <<>> /\ headers = 0 /\ fed = <<>>
  /\ execs = [i \in Lines |-> 0]
-----------------------------------------------------------------------------
(* Reading a line.                                                         *)

(* The line a call reads: a nextbuffer that is NULL starts at the top.     *)
Here == IF next = 0 THEN 1 ELSE next

Line == script[Here]

readCommandUntilNewline(command) ==
  /\ status = "running"
  /\ Here \in Lines /\ Line.op = command
  /\ execs' = [execs EXCEPT ![Here] = IF @ < MaxExecs THEN @ + 1 ELSE @]

(* A command that neither starts nor ends a repetition.                    *)
Command(command) ==
  /\ readCommandUntilNewline(command)
  /\ next' = Here + 1
  /\ UNCHANGED <<setup, status, index>>

(* vpu_proc_release, when the parser has returned -1: vdec_close again,    *)
(* of whatever handle is left.  Both wrappers take a NULL handle here.     *)
vdec_command_close == decoders' = IF handle = 0 THEN decoders
                                  ELSE [decoders EXCEPT ![handle] = "alloc"]

vpu_proc_release ==
  /\ status' = "finished"
  /\ vdec_command_close
  /\ UNCHANGED <<handle, header, headers>>

(* Behind the last line: the text has no NUL of its own, so what follows   *)
(* is what the allocator left there.  With a NUL the script is done.       *)
End ==
  /\ status = "running" /\ Here = Len(script) + 1 /\ setup.tail = "nul"
  /\ next' = 0
  /\ vpu_proc_release
  /\ UNCHANGED <<setup, index, info, execs, timing, content, fed>>

(* A word without a newline is a command nobody knows, and leaves          *)
(* nextbuffer NULL.                                                        *)
Beyond ==
  /\ status = "running" /\ Here = Len(script) + 1 /\ setup.tail = "garbage"
  /\ next' = 0
  /\ UNCHANGED <<setup, status, index, info, execs, timing, content, decoder, fed>>

Other ==
  /\ Command("other")
  /\ UNCHANGED <<info, timing, content, decoder, fed>>
-----------------------------------------------------------------------------
(* Repetitions.                                                            *)

(* repeat_info is written behind its end when the nesting is too deep.     *)
RepeatStart ==
  /\ readCommandUntilNewline("repeat_start")
  /\ next' = Here + 1
  /\ index' = index + 1
  /\ IF index' < MaxDepth
     THEN /\ info' = [info EXCEPT ![index'] = [count |-> Line.n, start |-> Here + 1]]
          /\ UNCHANGED status
     ELSE status' = "crashed" /\ UNCHANGED info
  /\ UNCHANGED <<setup, timing, content, decoder, fed>>

Current == info[index]

(* Mutant: the count is tested before it is decremented.                   *)
RepeatEnd_TestsFirst ==
  /\ readCommandUntilNewline("repeat_end")
  /\ LET count == IF Current.count = -1 THEN -1 ELSE Current.count - 1
         again == Current.count = -1 \/ Current.count > 0
         pop == ~again /\ index > 0
     IN /\ next' = IF again THEN Current.start ELSE Here + 1
        /\ info' = [info EXCEPT ![index] =
                      [count |-> count, start |-> IF pop THEN 0 ELSE @.start]]
        /\ index' = IF pop THEN index - 1 ELSE index
  /\ UNCHANGED <<setup, status, timing, content, decoder, fed>>

RepeatEnd ==
  /\ readCommandUntilNewline("repeat_end")
  /\ LET count == IF Current.count = -1 THEN -1 ELSE Current.count - 1
         again == Current.count = -1 \/ count > 0
         pop == ~again /\ index > 0
     IN /\ next' = IF again THEN Current.start ELSE Here + 1
        /\ info' = [info EXCEPT ![index] =
                      [count |-> count, start |-> IF pop THEN 0 ELSE @.start]]
        /\ index' = IF pop THEN index - 1 ELSE index
  /\ UNCHANGED <<setup, status, timing, content, decoder, fed>>

TimecheckStart ==
  /\ Command("timecheck_start")
  /\ timers' = timers + 1
  /\ UNCHANGED <<info, operations, content, decoder, fed>>

TimecheckEnd ==
  /\ Command("timecheck_end")
  /\ operations' = IF timers = 1 /\ operations < MaxExecs THEN operations + 1 ELSE operations
  /\ timers' = timers - 1
  /\ UNCHANGED <<info, content, decoder, fed>>
-----------------------------------------------------------------------------
(* Contents.                                                               *)

(* A FILE that was open already is lost, and so is its readBuffer, which   *)
(* nothing frees; without a file, or memory for what is read of it, fopen  *)
(* or fclose leaves NULL.                                                  *)
Contents ==
  /\ Command("contents")
  /\ \/ /\ position' = 1 /\ files' = files + 1 /\ fed' = <<>>
        /\ buffers' = IF buffers < MaxExecs THEN buffers + 1 ELSE buffers
     \/ "contents" \in Faults /\ position' = 0 /\ UNCHANGED <<files, buffers, fed>>
  /\ UNCHANGED <<info, timing, dump, search, data, decoder>>

DecodeOutputDump ==
  /\ Command("dump")
  /\ dump' = TRUE /\ files' = files + 1
  /\ UNCHANGED <<info, timing, position, search, data, buffers, decoder, fed>>

(* How many units a read takes: up to the start code that ends them.  The  *)
(* first start code of a stream, which the read starts with, is not seen;  *)
(* the next one is taken for it unless search_seqheader is set.            *)
Span == IF setup.codec = "mjpeg" \/ search = 1 THEN 1 ELSE 2

(* Reading up to the end of the file finds nothing, the last unit is lost. *)
parse_video_frame ==
  IF position + Span <= setup.units
  THEN [data |-> <<position, position + Span - 1>>, position |-> position + Span,
        search |-> IF setup.codec = "mjpeg" THEN search ELSE 1]
  ELSE [data |-> <<>>, position |-> setup.units + 1,
        search |-> IF setup.codec = "nal" /\ position < setup.units THEN 1 ELSE search]

(* A file that holds the size before each unit.                            *)
ReadWithSize ==
  IF position <= setup.units
  THEN [data |-> <<position, position>>, position |-> position + 1, search |-> search]
  ELSE [data |-> <<>>, position |-> position, search |-> search]

(* The end of the file ends the repetition.  Outside of any, the store     *)
(* goes to the int in front of repeat_info, which is search_seqheader.     *)
EndRepetition ==
  IF index = -1 THEN info ELSE [info EXCEPT ![index].count = 0]

ReadFile ==
  /\ Command("readfile")
  /\ IF position = 0 THEN data' = <<>> /\ UNCHANGED <<position, search, info>>
     ELSE LET read == IF Line.withsize THEN ReadWithSize ELSE parse_video_frame
              eof == read.data = <<>>
          IN /\ data' = read.data /\ position' = read.position
             /\ search' = IF eof /\ index = -1 THEN 0 ELSE read.search
             /\ info' = IF eof THEN EndRepetition ELSE info
  /\ UNCHANGED <<timing, dump, files, buffers, decoder, fed>>
-----------------------------------------------------------------------------
(* The decoder, through the wrapper.  The vdec wrapper's functions use the *)
(* handle unchecked, those of the tcodec wrapper refuse a NULL.            *)

Usable == handle # 0
Crashes == ~Usable /\ setup.wrapper = "vdec"

(* A command that needs a handle: what it does with one, if it has it.     *)
Wrapped(command, Effect) ==
  /\ readCommandUntilNewline(command)
  /\ next' = Here + 1
  /\ status' = IF Crashes THEN "crashed" ELSE "running"
  /\ IF Usable THEN Effect ELSE UNCHANGED <<decoders, fed>>
  /\ UNCHANGED <<setup, index, info, timing, content>>

(* An address that is free, as malloc gives it: one that was freed first.  *)
Free == LET gone == {d \in DOMAIN decoders : decoders[d] = "gone"}
        IN IF gone = {} THEN Len(decoders) + 1 ELSE Min(gone)

(* The handle travels as text: a failed allocation arrives as 0x0.         *)
vdec_command_alloc ==
  \/ /\ handle' = Free
     /\ decoders' = [d \in DOMAIN decoders \union {Free} |->
                      IF d = Free THEN "alloc" ELSE decoders[d]]
  \/ /\ "alloc" \in Faults
     /\ handle' = 0 /\ UNCHANGED decoders

VdecAlloc ==
  /\ Command("vdec_alloc")
  /\ vdec_command_alloc
  /\ UNCHANGED <<info, timing, content, header, headers, fed>>

vdec_command_init ==
  /\ \/ decoders' = [decoders EXCEPT ![handle] = "open"]
     \/ "init" \in Faults /\ UNCHANGED decoders
  /\ UNCHANGED fed

VdecInit ==
  /\ Wrapped("vdec_init", vdec_command_init)
  /\ header' = 0 /\ headers' = 0
  /\ UNCHANGED handle

VdecClose ==
  /\ Command("vdec_close")
  /\ vdec_command_close
  /\ UNCHANGED <<info, timing, content, handle, header, headers, fed>>

(* scan_sequence_header: the header is in what was read, as it always is   *)
(* when the codec is one it does not know.                                 *)
Found == data # <<>> /\ (setup.codec = "mjpeg" \/ data[1] = 1)

vdec_command_seqheader == UNCHANGED <<decoders, fed>>

VdecSeqHeader ==
  /\ IF data # <<>> /\ header = 0 /\ Found
     THEN /\ Wrapped("vdec_seqheader", vdec_command_seqheader)
          /\ header' = 1 /\ headers' = headers + 1
     ELSE /\ Command("vdec_seqheader")
          /\ UNCHANGED <<info, timing, content, header, decoders, headers, fed>>
  /\ UNCHANGED handle

vdec_command_decode ==
  /\ fed' = Append(fed, data)
  /\ UNCHANGED decoders

VdecDecode ==
  /\ IF data # <<>>
     THEN Wrapped("vdec_decode", vdec_command_decode)
     ELSE /\ Command("vdec_decode")
          /\ UNCHANGED <<info, timing, content, decoders, fed>>
  /\ UNCHANGED <<handle, header, headers>>

vdec_command_bufclear == UNCHANGED <<decoders, fed>>

VdecClearBuffer ==
  /\ IF setup.wrapper = "vdec"
     THEN Wrapped("vdec_clear_buffer", vdec_command_bufclear)
     ELSE /\ Command("vdec_clear_buffer")
          /\ UNCHANGED <<info, timing, content, decoders, fed>>
  /\ UNCHANGED <<handle, header, headers>>

(* The library's instance goes, whether it was closed or not.              *)
vdec_command_release ==
  decoders' = IF Usable THEN [decoders EXCEPT ![handle] =
                                IF @ = "open" THEN "lost" ELSE "gone"]
              ELSE decoders

VdecRelease ==
  /\ Command("vdec_release")
  /\ vdec_command_release
  /\ handle' = 0
  /\ files' = files - (IF position # 0 THEN 1 ELSE 0) - (IF dump THEN 1 ELSE 0)
  /\ position' = 0 /\ dump' = FALSE
  /\ UNCHANGED <<info, timing, search, data, buffers, header, headers, fed>>
-----------------------------------------------------------------------------
Execute ==
  \/ Other \/ RepeatStart \/ RepeatEnd \/ TimecheckStart \/ TimecheckEnd
  \/ Contents \/ DecodeOutputDump \/ ReadFile
  \/ VdecAlloc \/ VdecInit \/ VdecClose \/ VdecSeqHeader \/ VdecDecode
  \/ VdecClearBuffer \/ VdecRelease

Next == Execute \/ End \/ Beyond

(* The thread calls the parser until it is done.                           *)
Spec == vpu_proc_alloc /\ [][Next]_vars /\ WF_vars(Next)
-----------------------------------------------------------------------------
(* Properties.                                                             *)

(* Every variable has its type.                                            *)
ScriptTypeOK ==
  /\ status \in {"running", "finished", "crashed"}
  /\ next \in 0..(Len(script) + 1)
  /\ index \in -1..MaxDepth
  /\ \A i \in DOMAIN info : info[i].count \in Int /\ info[i].start \in 0..(Len(script) + 1)
  /\ timers \in Nat /\ operations \in 0..MaxExecs
  /\ position \in 0..(setup.units + 1) /\ dump \in BOOLEAN
  /\ search \in {0, 1} /\ header \in {0, 1}
  /\ data = <<>> \/ (data[1] \in 1..setup.units /\ data[2] \in 1..setup.units)
  /\ handle \in 0..Len(decoders)
  /\ \A d \in DOMAIN decoders : decoders[d] \in {"alloc", "open", "gone", "lost"}
  /\ {files, buffers, headers} \subseteq Nat
  /\ execs \in [Lines -> 0..MaxExecs]

(* The repeat_starts a line is inside of, read off the text.               *)
Starts(a, b) == {i \in a..b : script[i].op = "repeat_start"}
Ends(a, b) == {i \in a..b : script[i].op = "repeat_end"}
Around(line) ==
  {s \in Starts(1, line - 1) :
     \A j \in s..(line - 1) :
       Cardinality(Starts(s, j)) > Cardinality(Ends(s, j))}

Times(s) == IF script[s].n < 1 THEN 1 ELSE script[s].n

(* Repeats a file may cut short, or that nothing else ends.                *)
Cut(s) ==
  script[s].n = -1 \/ \E i \in Lines : script[i].op = "readfile" /\ s \in Around(i)

(* A line is executed as often as the counts of the repetitions around it  *)
(* multiply to, whatever was repeated before it, when no end of a file     *)
(* cuts one of them short.                                                 *)
RepeatsMultiply ==
  status = "finished" =>
    \A i \in Lines :
      (\A s \in Around(i) : ~Cut(s)) =>
        execs[i] = FoldSet(LAMBDA s, product : Times(s) * product, 1, Around(i))

Outermost(e) ==
  /\ script[e].op = "timecheck_end"
  /\ Cardinality({i \in 1..e : script[i].op = "timecheck_start"})
       = Cardinality({i \in 1..e : script[i].op = "timecheck_end"})

(* The operations of the result are the time checks outside of any other   *)
(* one: each is counted once for every time its timecheck_end is executed. *)
OperationsCounted ==
  status = "finished" =>
    operations = MapThenSumSet(LAMBDA e : execs[e], {e \in Lines : Outermost(e)})

(* Units reach the decoder in the order of the file, none of them twice,   *)
(* none between two of them left out, whatever read takes one or two.      *)
FedInOrder ==
  \A k \in 1..(Len(fed) - 1) : fed[k + 1][1] = fed[k][2] + 1

(* The decoder has had exactly one sequence header since vdec_init when it *)
(* is given pictures, in every session of a script.                        *)
HeaderBeforePictures ==
  fed # <<>> /\ position # 0 => headers = 1

Releases == script[Len(script)].op = "vdec_release"

ContentsOpened ==
  MapThenSumSet(LAMBDA i : execs[i], {i \in Lines : script[i].op = "contents"})

(* A script that closes and releases its decoder leaves no instance open   *)
(* or allocated and no FILE open; it leaves one read buffer for each time  *)
(* its contents were opened, and nothing frees them.                       *)
EndLeavesBuffers ==
  status = "finished" /\ Releases =>
    /\ files = 0 /\ \A d \in DOMAIN decoders : decoders[d] = "gone"
    /\ IF "contents" \in Faults THEN buffers <= ContentsOpened ELSE buffers = ContentsOpened

(* Every script ends: a repetition without a count ends at the end of the  *)
(* file it reads.                                                          *)
ScriptEnds == <>(status # "running")

================================================================================
