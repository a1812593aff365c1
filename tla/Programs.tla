--------------------------------- MODULE Programs --------------------------------
(***************************************************************************)
(* The index control with two threads (IndexControl), and beside it the    *)
(* programs around the codecs and the audio decoder, checked in one run.   *)
(* As in Failures a behaviour is one of a single part, which `part' names; *)
(* IndexControl, whose properties this run checks as they are, waits in    *)
(* its first state meanwhile, and the variables of the others are at "-".  *)
(* The constants of a part are the fields of one record, its setup: parts  *)
(* of one module have different ones.                                      *)
(***************************************************************************)
EXTENDS IndexControl

CONSTANTS
  ScriptSetup, ScriptFaultsSetup, TaskSetup, TaskFaultsSetup, QuitSetup, AutoSetup,
  VpuSetup, VpuDecoderSetup, VpuFaultsSetup, LoneSetup, AudioSetup,
  LoneThread,   \* the one of Threads that calls in part "index"
  ThreadNumber  \* threads of a part beside its main one, at most

VARIABLES
  part,
  (* ScriptProcess *)
  setup, status, next, s_index, info, timers, operations, position, dump, search, data,
  s_handle, header, decoders, execs, s_files, s_buffers, s_fed, headers,
  (* ScriptTasks *)
  text, t_pc, line, inside, t_index, task, table, tasks, threads, place,
  (* StressTest *)
  s_main, started, exiting, cleared, isExit, tryIdx, runner, took, running, inited,
  hThread, held, worker, count, s_coder, buffers, error, short, early,
  (* VpuTest *)
  v_main, v_next, ctx, config, isRun, thread, v_coder, v_files, memory, found, pos, v_fed,
  v_frames, repeats,
  (* AudioDecoder *)
  a_handle, eCodec, hPlugin_IF, ptPluginDesc, plugin, channels, ret, a_calls, handles,
  given, start, decoded, a_frames, heard, used, leaked

scriptVars == <<setup, status, next, s_index, info, timers, operations, position, dump,
                search, data, s_handle, header, decoders, execs, s_files, s_buffers, s_fed,
                headers>>
taskVars == <<text, t_pc, line, inside, t_index, task, table, tasks, threads, place>>
stressVars == <<s_main, started, exiting, cleared, isExit, tryIdx, runner, took,
                running, inited, hThread, held, worker, count, s_coder, buffers, error, short, early>>
vpuVars == <<v_main, v_next, ctx, config, isRun, thread, v_coder, v_files, memory, found,
             pos, v_fed, v_frames, repeats>>
audioVars == <<a_handle, eCodec, hPlugin_IF, ptPluginDesc, plugin, channels, ret,
               a_calls, handles, given, start, decoded, a_frames, heard, used, leaked>>

NoScript ==
  /\ setup = "-" /\ status = "-" /\ next = "-" /\ s_index = "-" /\ info = "-"
  /\ timers = "-" /\ operations = "-" /\ position = "-" /\ dump = "-" /\ search = "-"
  /\ data = "-" /\ s_handle = "-" /\ header = "-" /\ decoders = "-" /\ execs = "-"
  /\ s_files = "-" /\ s_buffers = "-" /\ s_fed = "-" /\ headers = "-"
NoTasks ==
  /\ text = "-" /\ t_pc = "-" /\ line = "-" /\ inside = "-" /\ t_index = "-"
  /\ task = "-" /\ table = "-" /\ tasks = "-" /\ threads = "-" /\ place = "-"
NoStress ==
  /\ s_main = "-" /\ started = "-" /\ exiting = "-" /\ cleared = "-" /\ isExit = "-"
  /\ tryIdx = "-" /\ runner = "-" /\ took = "-" /\ running = "-" /\ inited = "-"
  /\ hThread = "-" /\ held = "-" /\ worker = "-"
  /\ count = "-" /\ s_coder = "-" /\ buffers = "-" /\ error = "-" /\ short = "-"
  /\ early = "-"
NoVpu ==
  /\ v_main = "-" /\ v_next = "-" /\ ctx = "-" /\ config = "-" /\ isRun = "-"
  /\ thread = "-" /\ v_coder = "-" /\ v_files = "-" /\ memory = "-" /\ found = "-"
  /\ pos = "-" /\ v_fed = "-" /\ v_frames = "-" /\ repeats = "-"
IndexIdle == Init /\ callback
NoAudio ==
  /\ a_handle = "-" /\ eCodec = "-" /\ hPlugin_IF = "-" /\ ptPluginDesc = "-"
  /\ plugin = "-" /\ channels = "-" /\ ret = "-" /\ a_calls = "-" /\ handles = "-"
  /\ given = "-" /\ start = "-" /\ decoded = "-" /\ a_frames = "-" /\ heard = "-"
  /\ used = "-" /\ leaked = "-"
-----------------------------------------------------------------------------
(* The parts.                                                              *)

Script == INSTANCE ScriptProcess WITH
  Scripts <- ScriptSetup.scripts, Tails <- ScriptSetup.tails,
  Wrappers <- ScriptSetup.wrappers, Units <- ScriptSetup.units,
  Codecs <- ScriptSetup.codecs, MaxDepth <- ScriptSetup.depth,
  MaxExecs <- ScriptSetup.execs, Faults <- ScriptSetup.faults,
  index <- s_index, files <- s_files, buffers <- s_buffers, fed <- s_fed, handle <- s_handle

(* Contents, memory or decoders that are not to be had.                    *)
ScriptFaults == INSTANCE ScriptProcess WITH
  Scripts <- ScriptFaultsSetup.scripts, Tails <- ScriptFaultsSetup.tails,
  Wrappers <- ScriptFaultsSetup.wrappers, Units <- ScriptFaultsSetup.units,
  Codecs <- ScriptFaultsSetup.codecs, MaxDepth <- ScriptFaultsSetup.depth,
  MaxExecs <- ScriptFaultsSetup.execs, Faults <- ScriptFaultsSetup.faults,
  index <- s_index, files <- s_files, buffers <- s_buffers, fed <- s_fed, handle <- s_handle

Tasks == INSTANCE ScriptTasks WITH
  Texts <- TaskSetup.texts, MaxTask <- TaskSetup.tasks, AllocSize <- TaskSetup.alloc,
  MaxTokens <- TaskSetup.tokens, Faults <- TaskSetup.faults,
  index <- t_index, pc <- t_pc

(* No memory for a task or its text, and a block that has no end.          *)
TaskFaults == INSTANCE ScriptTasks WITH
  Texts <- TaskFaultsSetup.texts, MaxTask <- TaskFaultsSetup.tasks,
  AllocSize <- TaskFaultsSetup.alloc, MaxTokens <- TaskFaultsSetup.tokens,
  Faults <- TaskFaultsSetup.faults,
  index <- t_index, pc <- t_pc

(* The stress tester, which a 'q' ends.                                    *)
Quits == INSTANCE StressTest WITH
  Kinds <- QuitSetup.kinds, Stress <- TRUE, MaxCnt <- QuitSetup.frames,
  Faults <- QuitSetup.faults,
  main <- s_main, coder <- s_coder

(* The automatic tests.                                                    *)
Automatic == INSTANCE StressTest WITH
  Kinds <- AutoSetup.kinds, Stress <- FALSE, MaxCnt <- AutoSetup.frames,
  Faults <- AutoSetup.faults,
  main <- s_main, coder <- s_coder

Vpu == INSTANCE VpuTest WITH
  Kinds <- VpuSetup.kinds, Codecs <- VpuSetup.codecs, Pictures <- VpuSetup.pictures,
  StopCounts <- VpuSetup.stops, Iterations <- VpuSetup.iterations,
  Faults <- VpuSetup.faults, k <- v_next,
  main <- v_main, coder <- v_coder, files <- v_files, fed <- v_fed, frames <- v_frames

(* Decoders alone, of which every step that is undone may fail.            *)
VpuDecoder == INSTANCE VpuTest WITH
  Kinds <- VpuDecoderSetup.kinds, Codecs <- VpuDecoderSetup.codecs,
  Pictures <- VpuDecoderSetup.pictures, StopCounts <- VpuDecoderSetup.stops,
  Iterations <- VpuDecoderSetup.iterations, Faults <- VpuDecoderSetup.faults, k <- v_next,
  main <- v_main, coder <- v_coder, files <- v_files, fed <- v_fed, frames <- v_frames

VpuFaults == INSTANCE VpuTest WITH
  Kinds <- VpuFaultsSetup.kinds, Codecs <- VpuFaultsSetup.codecs,
  Pictures <- VpuFaultsSetup.pictures, StopCounts <- VpuFaultsSetup.stops,
  Iterations <- VpuFaultsSetup.iterations, Faults <- VpuFaultsSetup.faults, k <- v_next,
  main <- v_main, coder <- v_coder, files <- v_files, fed <- v_fed, frames <- v_frames

(* All operations, of which one thread alone makes its calls.              *)
Lone == INSTANCE IndexControl WITH
  Operations <- LoneSetup.operations, Windows <- LoneSetup.windows,
  Misuses <- LoneSetup.misuses, MaxPushes <- LoneSetup.pushes, MaxCalls <- LoneSetup.calls

Audio == INSTANCE AudioDecoder WITH
  Codecs <- AudioSetup.codecs, WithData <- AudioSetup.withData,
  Channels <- AudioSetup.channels, Faults <- AudioSetup.faults,
  Misuses <- AudioSetup.misuses, FrameUnits <- AudioSetup.frame,
  MaxChunk <- AudioSetup.chunk, MaxUnits <- AudioSetup.units, MaxCalls <- AudioSetup.calls,
  MaxHandles <- AudioSetup.handles,
  handle <- a_handle, frames <- a_frames, calls <- a_calls

ASSUME Script!ScriptConstants /\ ScriptFaults!ScriptConstants
ASSUME TaskAssumption == Tasks!ScriptTasksConstants
ASSUME TaskFaults!ScriptTasksConstants
ASSUME QuitAssumption == Quits!StressConstants
ASSUME AutoAssumption == Automatic!StressConstants
ASSUME VpuAssumption == Vpu!VpuTestConstants
ASSUME VpuDecoderAssumption == VpuDecoder!VpuTestConstants
ASSUME VpuFaultsAssumption == VpuFaults!VpuTestConstants
ASSUME IndexAssumption == IndexConstants
ASSUME Lone!IndexConstants
ASSUME AudioAssumption == Audio!AudioConstants
ASSUME
  /\ LoneThread \in Threads /\ ThreadNumber \in Nat
  /\ {Tasks!MaxThreads, 2 * Quits!N + 1, 2 * Automatic!N, Vpu!N} \subseteq 1..ThreadNumber

allVars == <<part, vars, scriptVars, taskVars, stressVars, vpuVars, audioVars>>

ProgramsInit ==
  \/ /\ \/ part = "script" /\ Script!vpu_proc_alloc
        \/ part = "script_faults" /\ ScriptFaults!vpu_proc_alloc
     /\ NoTasks /\ NoStress /\ NoVpu /\ IndexIdle /\ NoAudio
  \/ /\ \/ part = "tasks" /\ Tasks!Init
        \/ part = "task_faults" /\ TaskFaults!Init
     /\ NoScript /\ NoStress /\ NoVpu /\ IndexIdle /\ NoAudio
  \/ /\ \/ part = "stress" /\ Quits!Init
        \/ part = "auto" /\ Automatic!Init
     /\ NoScript /\ NoTasks /\ NoVpu /\ IndexIdle /\ NoAudio
  \/ /\ \/ part = "vpu" /\ Vpu!Init
        \/ part = "vpu_decoder" /\ VpuDecoder!Init
        \/ part = "vpu_faults" /\ VpuFaults!Init
     /\ NoScript /\ NoTasks /\ NoStress /\ IndexIdle /\ NoAudio
  \/ /\ \/ part = "index" /\ Lone!Init
        \/ part = "index_threads" /\ Init
     /\ NoScript /\ NoTasks /\ NoStress /\ NoVpu /\ NoAudio
  \/ /\ part = "audio" /\ Audio!Init
     /\ NoScript /\ NoTasks /\ NoStress /\ NoVpu /\ IndexIdle

InScript(name) ==
  part = name /\ UNCHANGED <<part, taskVars, stressVars, vpuVars, vars, audioVars>>
InTasks(name) ==
  part = name /\ UNCHANGED <<part, scriptVars, stressVars, vpuVars, vars, audioVars>>
InStress(name) ==
  part = name /\ UNCHANGED <<part, scriptVars, taskVars, vpuVars, vars, audioVars>>
InVpu(name) ==
  part = name /\ UNCHANGED <<part, scriptVars, taskVars, stressVars, vars, audioVars>>
LoneCalls ==
  \/ \E op \in LoneSetup.operations :
       \E a \in Lone!Arguments(op) : Lone!Call(LoneThread, op, a)
  \/ Lone!Work(LoneThread)
InIndex(name) ==
  part = name /\ UNCHANGED <<part, scriptVars, taskVars, stressVars, vpuVars, audioVars>>
InAudio ==
  part = "audio" /\ UNCHANGED <<part, scriptVars, taskVars, stressVars, vpuVars, vars>>

ProgramsNext ==
  \/ InScript("script") /\ Script!Next
  \/ InScript("script_faults") /\ ScriptFaults!Next
  \/ InTasks("tasks") /\ Tasks!Next
  \/ InTasks("task_faults") /\ TaskFaults!Next
  \/ InStress("stress") /\ Quits!Next
  \/ InStress("auto") /\ Automatic!Next
  \/ InVpu("vpu") /\ Vpu!Next
  \/ InVpu("vpu_decoder") /\ VpuDecoder!Next
  \/ InVpu("vpu_faults") /\ VpuFaults!Next
  \/ InIndex("index") /\ LoneCalls
  \/ InIndex("index_threads") /\ Next
  \/ InAudio /\ Audio!Next

(* The threads of the parts, as the modules have them: the main thread (or *)
(* the only one), and the others by their number.                          *)
Main ==
  \/ part = "script" /\ Script!Next /\ InScript("script")
  \/ part = "tasks" /\ Tasks!Main /\ InTasks("tasks")
  \/ part = "stress" /\ Quits!Main /\ InStress("stress")
  \/ part = "auto" /\ Automatic!Main /\ InStress("auto")
  \/ part = "vpu" /\ Vpu!Main /\ InVpu("vpu")
  \/ part = "index_threads" /\ Work(LoneThread) /\ InIndex("index_threads")

Thread(n) ==
  \/ /\ part = "tasks" /\ n <= Tasks!MaxThreads
     /\ Tasks!Thread(n) /\ InTasks("tasks")
  \/ /\ part = "stress"
     /\ \/ n \in Quits!Tests /\ Quits!Runner(n)
        \/ n - Quits!N \in Quits!Tests /\ Quits!Worker(n - Quits!N)
        \/ n = 2 * Quits!N + 1 /\ Quits!ClearsRunning
     /\ InStress("stress")
  \/ /\ part = "auto"
     /\ \/ n \in Automatic!Tests /\ Automatic!Runner(n)
        \/ n - Automatic!N \in Automatic!Tests /\ Automatic!Worker(n - Automatic!N)
     /\ InStress("auto")
  \/ /\ part = "vpu" /\ n \in Vpu!Tests
     /\ Vpu!Thread(n) /\ InVpu("vpu")
  \/ /\ part = "index_threads" /\ n = 1
     /\ \E t \in Threads \ {LoneThread} : Work(t) /\ InIndex("index_threads")

(* Every thread is scheduled (see the Spec of each module).                *)
ProgramsSpec ==
  /\ ProgramsInit /\ [][ProgramsNext]_allVars
  /\ WF_allVars(Main)
  /\ \A n \in 1..ThreadNumber : WF_allVars(Thread(n))
-----------------------------------------------------------------------------
(* Properties of the other parts; the comment of the conjunct in the       *)
(* part's module says what is meant in full.                               *)

(* Every variable of the part at work has its type.                        *)
ProgramsTypeOK ==
  /\ part = "script" => Script!ScriptTypeOK
  /\ part = "tasks" => Tasks!TasksTypeOK
  /\ part = "stress" => Quits!StressTypeOK
  /\ part = "auto" => Automatic!StressTypeOK
  /\ part = "vpu" => Vpu!VpuTypeOK
  /\ part = "index" => Lone!IndexTypeOK
  /\ part # "index" => IndexTypeOK
  /\ part = "audio" => Audio!AudioTypeOK

(* A script runs as it was written: its repetitions as often as they       *)
(* multiply, with a header before the pictures and the units of its        *)
(* contents in order, leaving at its end no FILE and no decoder, but the   *)
(* read buffer of each contents; a task runs its own block, and all tasks  *)
(* are freed, whatever failed, with their texts, but for the one that a    *)
(* failed realloc loses.                                                   *)
ScriptsRunAsWritten ==
  /\ part = "script" =>
       Script!RepeatsMultiply /\ Script!OperationsCounted /\ Script!HeaderBeforePictures
  /\ part = "script" => Script!FedInOrder /\ Script!EndLeavesBuffers
  /\ part = "script_faults" => ScriptFaults!FedInOrder /\ ScriptFaults!EndLeavesBuffers
  /\ part = "tasks" => Tasks!RunsItsBlock
  /\ part = "task_faults" => TaskFaults!EverythingFreed

(* However the threads and main interleave: a thread of the stress tester  *)
(* runs its own test or, when it is late, a later one of the kind, and a   *)
(* test that one thread alone took ends with nothing open; an automatic    *)
(* test runs all its frames; the VPU tester the units of its file in       *)
(* order, its files, coders and memory given back when a thread ends, its  *)
(* contexts and the tasks of a script not before.                          *)
TestsRunAndEnd ==
  /\ part = "tasks" => Tasks!FreedAfterStop
  /\ part = "stress" => Quits!OwnTest /\ Quits!EndsClean
  /\ part = "auto" => Automatic!CompleteTests
  /\ part = "vpu" => Vpu!FedInOrder
  /\ part = "vpu_decoder" => VpuDecoder!Released
  /\ part = "vpu_faults" => VpuFaults!ContextHeld

(* However a stream is cut into calls its units are decoded once each and  *)
(* in order, and heard as they were decoded; and a handle that is closed   *)
(* has left nothing allocated.                                             *)
AudioInOrder ==
  part = "audio" => Audio!InputInOrder /\ Audio!HeardInOrder /\ Audio!NothingLeft

ToEnd ==
  \/ part \in {"script", "tasks", "auto"}
  \/ part = "stress" /\ isExit /\ ~early /\ \A i \in Quits!Tests : took[i] = i
  \/ part = "vpu" /\ v_main = "stopping"
  \/ part = "index_threads" /\ at["t1"] # "idle"

AtEnd ==
  \/ part = "script" /\ status # "running"
  \/ part = "tasks" /\ t_pc = "done"
  \/ part \in {"stress", "auto"} /\ s_main = "ended"
  \/ part = "vpu" /\ v_main = "ended"
  \/ part = "index_threads" /\ at["t1"] = "idle"

(* Scripts and automatic tests come to their end; after a 'q' so do the    *)
(* stress tester in its stride, with every thread at its own test, and the *)
(* VPU tester, whose threads all stop; every call of the index control     *)
(* returns (of either thread: they are alike). A behaviour keeps to its    *)
(* part, so that one formula says it of all.                               *)
ProgramsEnd == ToEnd ~> AtEnd

================================================================================
