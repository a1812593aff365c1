# T-Codec: models, checks and proofs

T-Codec is a C library that plays and records video and audio on Telechips SoCs:
an application calls `VideoDecoder_*`, `VideoEncoder_*` or `AudioDecoder_*`, the
library loads a plugin for the codec, and a video plugin drives the kernel's VPU
devices with `ioctl` and `poll`.  This directory holds TLA+ modules of the parts
whose correctness depends on *order* - which buffer belongs to whom, which answer
to which command, which time stamp to which picture, what is released after a
failure half-way - with TLC runs on small instances for all of them, and TLAPS
proofs for eight of them.

Paths are relative to the repository (`src/` here stands for its root).

## 1. The system

```
 testers: tester_stress, tester_sv, dec_test, enc_test     vpu_test, its scripts
        |                            |                          |
 VideoDecoder_*                VideoEncoder_*             AudioDecoder_*
 + index and clock control           |                          |
        |                            |                          |
 video_decode_resource.c    video_encode_resource.c             |
        |          |  (V3)           |       |  (V3)             |  (dlopen)
        |     vdec_v3.c              |   venc_v3.c        aac, mp3, pcm, ddp
        |  (legacy, dlopen)          |  (legacy, dlopen)         |
 codec plugins + common part  codec plugins + common part   closed libraries
 + "ips" (device access)      + "ips"                         (external)
        |          |                 |       |
 kernel VPU manager, decoder and encoder devices, memory device   (external)
```

Every chipset of the tree is built with `USE_VPU_LEGACY`; the alternative
`USE_VPU_V3` replaces everything under the resource wrappers by one file each.
`decoder/resources/plugin/video/vdec/`, the in-tree decoder library all this grew
from, is built by no CMakeLists.

### Components, their state, their operations

| component | state | operations | correct when | module |
|---|---|---|---|---|
| Video decoder API (`video_decoder.c`) | codec, window size, list of decoded pictures, the clock queue and index control it owns | Create, Init, DecodeSequenceHeader, Decode, Deinit, Destroy (Flush only answers "not supported") | a picture is not overwritten until it is given back, has its own time stamp; every buffer comes back; decoding does not stop; nothing is left after Destroy | `VideoDecoder`, `VideoDecoderV3`, `DecoderLifecycle` |
| Index control | displayed and to-be-cleared lists, window, semaphore, callback | Push, Update, Clear, Drop, Flush, SetConfig, Reset | each picture on one list, once; only the oldest leaves, and only a full window; calls return | `IndexControl`, `VideoDecoder` |
| Clock control | 20 time stamps, the first field of a pair | Reset, Insert (sorts), Get | the n-th clock taken is the n-th in display order | `VideoClock`, `VideoClockQueue` |
| Decode resource wrapper | the loaded plugin or the V3 handle | create, init, decode, release_frame, deinit, destroy | what it answers is what happened; the pool is large enough | `VideoDecoder`, `VideoDecoderV3`, `DecoderLifecycle` |
| Decoder plugins: eight codecs over a common part | three descriptors, a driver instance, five buffers, counters, the last result | Init, Set, Decode, Get, Deinit | copies stay in buffers, frames are mapped, everything is released | `PluginBuffers`, `PluginDrivers`, `VideoDecoder` |
| - frame skipping | a mode | `iterate` per result | no picture before its references, none lost | `FrameSkip` |
| Command loops (plugins, V3 and old libraries) | retry counters | send, poll, fetch | the answer is the command's own; the call returns | `CommandLoops`, `VdecV3` |
| Plugin interfaces | a loaded library, its descriptor | Load, Unload | nothing is called through an unloaded library | `AudioDecoder`, `DecoderLifecycle`, `VideoEncoder` |
| V3 decoder library (`vdec_v3.c`) | mappings, place in the bitstream buffer, last result | alloc, init, seq_header, decode, drain, flush, close, release | a packet is decoded or said not to be; answers are their own | `VdecV3` |
| Video encoder API, wrapper, four plugins | resource, two devices, seven buffers, header flag, shared structures | Create, Init, Set_Header, Encode, Deinit, Destroy | a success has what it says; everything is released | `VideoEncoder` |
| V3 encoder library (`venc_v3.c`) | place in the bitstream buffer, collected headers, mapping | alloc, init, put_seqheader, encode, close, release | pictures stay inside and apart | `VencV3` |
| Audio decoder and plugins | handle, loaded plugin, codec data, rest of the input | Create, Init, Decode, Deinit, Destroy | each unit is decoded once; nothing is left | `AudioDecoder` |
| Testers (`tester_common`, `tester_stress`, `tester_sv`) | `bIsRunning`, a static time stamp, one index for new threads | run, worker and exit threads | each thread has its test; `q` ends all; results are true | `StressTest` |
| VPU test application (`vpu_test_*.c`) | contexts with `isRun`, file buffers | create, start, `q`, stop, join | threads own their context; packets are the file | `VpuTest` |
| Test scripts (`vpu_script*.c`) | the text of a task, a stack of repetitions, file position, decoder handle | one line per call; tasks in threads | repetitions multiply; every script ends; tasks are freed after their threads | `ScriptProcess`, `ScriptTasks` |
| Old decoder library (`plugin/video/vdec`) | instance indices, devices, halves of the bitstream buffer | INIT, header, DECODE, CLOSE | one instance per index; enough frames; all returned | `OldVdec` |
| Outside the tree: `JP_Semaphore`, `JP_D_LinkedList`, glib, libc, kernel drivers, codec libraries | | | | external, modelled by what the code relies on |

### Where it is hard

* The hardware, the user and the decoding thread touch the same frame buffers;
  nothing but two lists of indices keeps them apart.
* Pictures are displayed long after, and in another order than, their packets
  were submitted; three independent queues (records, clocks, indices) must stay
  in step through skipped packets, fields, full pools, errors and restarts.
* Six poll loops in four variants decide when a command has failed, and a late
  answer meets each of them at another place.
* Almost every result of an opening step is dropped by its caller, so that a
  half-open decoder or encoder goes on: what it does then is no test's subject.
* Several decoders, each in its thread, open and close devices in one process;
  the testers' threads share plain variables, `strtok` and a static time stamp.

`PROJECT.json` lists the hazards at their lines, with the properties that would
catch them; section 5 names the ones no property covers.

## 2. The modules

Modules marked * are proved about.

| module | models | main sources | runs |
|---|---|---|---|
| `VideoClock` | the clock control as operators on a record | `video_clock_control.c` | through the next two |
| `VideoClockQueue` | the clock queue alone, under whole streams | same | `answers`, `clock_wrap` |
| `SurfaceFrames` | abstract: what `video_decoder.h` promises about surface frames | `video_decoder.h` | refined by two modules |
| `VideoDecoder` * | one legacy decoder over its driver | `video_decoder.c`, `video_decode_resource.c`, common part | `decoder`, `answers`, `surface_starve`, `timeout` |
| `PluginDrivers` * | the devices of several decoders | `..._common.c`, `..._video_ips.c` | `drivers`, `failures`, `open_failure` |
| `PluginBuffers` * | the buffers of a decoder plugin | `..._common.c`, eight codec plugins, `..._ips_vdec.c`, `..._ips_jdec.c` | `failures` |
| `DecoderLifecycle` * | what decoders hold from Create to Destroy | `video_decoder.c`, `video_decode_resource.c`, `decoder_plugin_interface.c`, `vdec_v3.c` | `lifecycle` |
| `VdecV3` * | an instance of the V3 decoder library | `vdec_v3.c` | `vdec`, `answers` |
| `VencV3` * | an instance of the V3 encoder library | `venc_v3.c` | `venc` |
| `VideoDecoderV3` * | the API over the V3 library | `video_decoder.c`, `video_decode_resource.c`, `vdec_v3.c` | `answers` |
| `IndexControl` * | the index control alone, called by threads | `video_index_control.c` | `programs` |
| `VideoEncoder` * | API, resource and plugin of the encoder | `video_encoder.c`, `video_encode_resource.c`, encoder plugins | `failures` |
| `OldVdec` * | the old decoder library | `vdec_k_*.c`, `video_decoder_vdec.c` | `failures` |
| `CommandLoops` * | the loops that wait for a driver's answer | `..._common.c`, `venc_v3.c`, `vdec_k_*.c` | `answers` |
| `FrameSkip` * | frame skipping, two versions | `..._video_frame.c`, `video_decoder_vdec.c` | `answers` |
| `ScriptProcess` | the interpreter of a script task | `vpu_script_process.c`, `vpu_script_system.c`, decoder wrappers | `programs` |
| `ScriptTasks` * | the tasks of a script and their threads | `vpu_script.c` | `programs` |
| `StressTest` * | the threads of the testers | `tester_stress.c`, `tester_sv.c`, `dec_test.c`, `enc_test.c` | `programs` |
| `VpuTest` * | the VPU test application | `vpu_test_*.c` | `programs` |
| `AudioDecoder` * | API, plugin interface, plugins | `audio_decoder.c`, four plugins | `programs` |
| `Failures` * | composition: `PluginBuffers`, and beside it `VideoEncoder`, `OldVdec`, `PluginDrivers` | | `failures` |
| `Answers` * | composition: `VideoDecoderV3`, and beside it `CommandLoops`, `VdecV3`, `VideoDecoder`, `VideoClockQueue`, `FrameSkip` | | `answers` |
| `Programs` * | composition: `IndexControl`, and beside it `ScriptProcess`, `ScriptTasks`, `StressTest`, `VpuTest`, `AudioDecoder` | | `programs` |

`VideoDecoder` composes `VideoClock` and refines `SurfaceFrames`;
`VideoDecoderV3` refines the same `SurfaceFrames`.  `StressTest` and `VpuTest` sit
on top of the APIs, of which they keep only "succeeds or fails".  Each component
module has its own `Init`, `Next`, `Spec` and properties and can be checked or
proved about by itself.

`MCLifecycle`, `MCVdecV3`, `MCVencV3`, `MCDrivers` and `MCClockQueue` extend one
component and assert that the bounds of the `.cfg` satisfy its assumptions.

`Failures`, `Answers` and `Programs` put several components side by side, as
*parts* that are checked, and proved about, under one specification.  Each
extends one component - `PluginBuffers`, `VideoDecoderV3`, `IndexControl` - whose
properties the run checks as they stand in its module.  The others are
instances, one for every set of constants worth checking; these constants are
fields of a *setup*, a CONSTANT record such as `EncoderSetup`, so that a theorem
holds for any setup (those of `Answers` nothing is proved about are fixed).
`MCFailures`, `MCAnswers` and `MCPrograms` hold the setups of the runs and
nothing else.
The variable `part` is chosen in `FailuresInit` (`AnswersInit`, `ProgramsInit`);
while another part is at work the extended component waits in its first state,
and the variables of the remaining parts are `"-"` and stay so.  Nothing
interacts: a behaviour is a behaviour of one component, and the run explores the
union of them.  A property of the other parts is a conjunction of conjuncts
`part = "x" => X!P`, grouped by what they promise, and a leads-to such as
`ProgramsEnd` may name the beginnings and the ends of all parts in one formula,
because no behaviour ever changes its part.  Where one component has two parts,
the first usually has the rich data and the second the faults.

### VideoDecoder

`VideoDecoder_Decode` is not atomic.  Its steps are the values of `pc`:

| step | code |
|---|---|
| `Decode_Call` (idle to update) | the call, with one packet |
| `Update_Pop`, `Update_Done` (to clear) | `VideoIndexCtrl_Update`: a full window gives its oldest picture to the clear list |
| `Clear_Release` | one round of `VideoIndexCtrl_Clear`: the record is forgotten, `V_DEC_BUF_FLAG_CLEAR` gives the buffer to the driver; a failing one is dropped, and the buffer stays lent |
| `Decode_Issue` (to wait, or idle) | the plugin sends `V_DEC_DECODE`; if the driver refuses it the last result is handled at once, as if it were the answer |
| `Decode_Return` (to idle) | the poll loop ends, with an answer or without one; the result is handled: record, clock, output, push |

Between them the driver takes its own steps.  `Vpu_BeginFrame` and
`Vpu_BeginSecondField` start writing a buffer, `Vpu_EndFrame` and `Vpu_Refuse`
complete the command with a result.  The driver is external, and is given the
behaviour the plugin relies on: it executes commands in order, writes only
buffers it owns, displays in the order of time stamps and holds back at most
`MaxReorder` pictures.  What it reports is chosen from `Outcomes`: a frame, one
field of a frame, a packet skipped, no free buffer, or a codec that is gone.
`MaxFailedCommands` bounds how often a command is refused, or not answered
before the poll loop gives up.

Three abstractions are worth knowing:

* a list of the code is a sequence, oldest first.  `ptListDecFrame` is searched
  by frame index only, from the oldest record on, so `decFrames` is one queue
  per index;
* a packet is its time stamp.  The caller (`NextPackets`) submits each picture
  in one packet or two fields, in any order, and again if the driver did not
  take it;
* `buf`, `ptsOf` and `lastShown` are the driver's truth about buffers and
  pictures.  The library never reads them; the properties compare it with them.

`VideoDecoder_Init`, `_DecodeSequenceHeader` and `_Deinit` are one step each.
Deinit keeps what the code keeps - the clock queue, the window size, the last
result - so a restart meets the leftovers of the old stream unless the next Init
clears them.

### VideoClock and VideoClockQueue

`VideoClock` translates the comparator of `SF_VideoClockCtrl_SortClock` with its
regions and its conversion to a 32-bit `int`, and glibc's `qsort` (a merge sort)
as the external function that calls it: which of two elements is its *first*
argument matters here.  `VideoClockQueue` drives it with streams: pictures are
numbered in display order and decoded in any order that runs at most `reorder`
ahead; up to `pending` of them wait for display.

### PluginDrivers

Each decoder is a thread in a plugin's Init (`video_plugin_open_drivers`: the
manager, a driver instance, the allocation mode, the decoder device, its
initialisation, the memory device) or Deinit (`video_plugin_close_drivers`:
clear the instance, close the three descriptors).  Each system call is a step.
The process's descriptor table - open takes the lowest free entry, close frees
the entry *whoever owns it now* - and the manager's table of instances are
external state; descriptor 0 is the application's.  `Faults` names the calls
that may fail although nothing is exhausted.  Two facts of the code are kept on
purpose: the handle is zeroed, so that a descriptor not opened yet is 0 and not
-1, and `bInited` is never cleared, so that Deinit may be called again.

### VideoDecoderV3

The same steps with the V3 branches of `vd_res_decode` and
`vd_res_release_frame`: `Decode_Send` is everything up to the command,
`Decode_Return` what the wrapper and the API make of its result; `Vpu_Begin`,
`Vpu_Frame`, `Vpu_Display` and `Vpu_Nothing` are the driver.  `Outcomes` names
the return values of `vdec_decode` an instance allows.  The run has a frame, a
full pool and a failure.  `LentIsHeld` is the agreement of library and driver
about every buffer (`BuffersAgree`) together with that of the record handed out
with a picture (`OwnRecord`).  With `NEED_MORE_DATA`, `BUFFER_NOT_CONSUMED` and
`CODEC_FINISH` as well, `LentIsHeld` and `SurfaceFramesKept` do not hold
(section 3).
Fields, failing clears, MJPEG and a `number_of_surface_frames` of 0 are left
out.  That the driver adds the surface frames it is told of to its own minimum
is an assumption on the driver.

### DecoderLifecycle

A call is one action; `held` is the set of handles, lists, libraries and devices
a decoder has been given and not returned, which the code nowhere has as one
variable.  Each step of Create and Init that the code checks may fail, and each
whose result it drops may fail without the code noticing.  One Init per handle,
as the README of the repository calls them.  The caller may go on after any
failure, as `dec_test.c` does, or stop, as `vpu_test_decoder.c` does.  On the V3
path a failed `mmap` of `vdec_init` is among the results `VideoDecoder_Init`
drops: the header is then copied to NULL (`vdec_v3.c:869`), the stage `crashed`.
A crash is the end of the process: nobody makes a call any more, and `Restart`
begins with an empty process.

### IndexControl

`Call(t, op, a)` is a thread's call; `Work(t)` its next step: obtain the
semaphore, each access to a list, release.  The semaphore is the counting one
`JP_CreateSemaphore(1, 1)` asks for; `MaxPermits` is what it counts to.
`Misuses` allows the two states in which a call does not return: Update before a
window is set, Clear without a callback.  One thread alone (part `index`) has
all operations and the second misuse; two threads (`index_threads`) have no
misuse, nor Update, which releases the semaphore twice (section 3).  `Alone`
says that no two threads have made calls: only then does the room Update makes
last until it returns. The vsync drivers are not compiled and not modelled.

### CommandLoops and VdecV3

`CommandLoops` has the loops of the plugins (`poll_cmd`; decoder and encoder have
the same), of `venc_v3.c`, and the two of the old library, against a driver that
takes or refuses a command, answers when it likes, reports an error, or hangs up
(POLLHUP alone).  A loop is `Send_*`, then `Poll_*` and `Result_*` steps.
`outstanding` holds the commands the driver has, in order, each with its answer
and whether it is the present caller's: a call that gives up leaves its command
there, and the next call fetches that one's answer first.  `missed` remembers
that there was such a call.  `VdecV3` has the loop of
`vdec_v3.c` itself, because the calls around it keep state that a wrong answer
spoils: `Call` is any of the public functions up to its command, `Process` the
loop, and each return writes the handle's copy of the result, its mappings and
the place where the next packet goes.  A `*_RESULT` ioctl that fails is only
logged there, and what the handle has stands for the answer (`unfetched`);
`erred` remembers a poll or a `*_RESULT` that failed.  A header behind a
`vdec_init` that failed, of which the library told its caller, may be copied to
NULL; `Restart` is a new process.  A poll with neither POLLIN nor POLLERR
(`vdec_v3.c:484`) repeats without counting, as in `CommandLoops`, and is left out
of `VdecV3`.

### PluginBuffers

Addresses are `"null"`, `"mapped"` or `"failed"` (the `MAP_FAILED` that the code
compares with NULL); `frameVa` is the number of the mapping the plugin computes
output addresses from, `registered` the number of frames the VPU may write.  The
eight codec plugins differ in the rows of a table.  The caller's frames fit the
bitstream buffer, as its size is the codec's largest frame; headers may be
larger and are cut.

### FrameSkip

The stream is a group of pictures, entered anywhere and repeated; the plugin's
mode decides what each Decode asks, the driver skips as `vdec_common.h` says.
Both versions of the mode's transitions are there.  First fields have a decoded
index, B pictures are not references, and an HEVC driver drops leading pictures
by itself; these are assumptions on driver and streams.

### VencV3

A command and its result are one step.  Offsets are units; the constants keep
the inequalities between `STABILITY_GAP`, `ALIGN_LEN`, the delimiter and the
buffer.  Pictures are at most half the buffer, which the code relies on.  `write`
is what the last call wrote of the bitstream buffer: a picture from its place on,
to the end of the buffer, which is cleared before; a sequence header at the start
of the buffer, where the VPU puts it before it is copied behind the earlier ones
in `seq_backup`.  The code neither looks at the picture that lies there nor
compares the headers with the 100 KiB of `seq_backup`: what is written behind
those is not followed, and its `malloc` is taken to succeed.

### VideoEncoder

A picture is its number, a coded picture the number of what it was made from, so
that an older result in a structure shared with the driver can be told from the
current one.  `files` and `maps` are the process's truth about descriptors and
mappings.  Deinit is called once for an Init, no call but Init follows it, and
Destroy comes after Deinit, after a failed Init or at once.  The slice mode is 1
and JPEG's sequence header is never asked for, as in the plugins.

### AudioDecoder

A stream is a sequence of units; a codec library takes `FrameUnits` of them, PCM
takes any number, and the plugin keeps the rest.  Calls may cut the stream
anywhere.  `Misuses` allows Deinit and Decode after a failed Init.  Only AAC is
given codec data in the run: the other plugins never free it.

### StressTest and VpuTest

Each thread has a program counter whose values are the points where it touches a
shared variable.  The main thread of `StressTest` starts an exit thread, a
runner for every test, and joins; a runner sets up its test and starts a worker.
The index of the test to run stays in a shared field for 20 ms, and no longer: a
late thread takes a later test, two threads may then work on one tester, and a
test may not be run at all. Within `vdt_init` two such threads do not
interleave, and a call on a codec the other one destroyed succeeds or fails;
that it may crash is not followed. `VpuTest` has the main thread and one per
test; the file of a decoder is a sequence of start codes that
`parse_video_frame` cuts into packets in a buffer it moves, twice where the
codec's headers make it.  Not in it: more than four tests, VP9 and MPEG-2,
suspend and resume, a failing `pthread_create`.

### ScriptProcess and ScriptTasks

A step of `ScriptProcess` is one call of `vpu_proc_parser`, that is one line,
with the stack of repetitions `repeat_info`, the position in the contents and
the decoder behind the wrapper (`vdec` or `tcodec`).  Each `contents` allocates a
read buffer that nothing frees, and the first unit of an MJPEG file always counts
as a header that was found.  `ScriptTasks` is the thread
that cuts the script into tasks and the threads that run them: what a line does
is abstracted to its length and the number of parameters it takes from `strtok`.
A `realloc` that fails loses the text it should have made larger and ends the
reading; a `malloc` of the text that fails is left out.

### OldVdec

Handles share only what the kernel keeps, so a call is one step.  Other
processes take and return indices at any time.  Left out: WMV (no codec selects
it), the ring buffer, flush, reset and user data, which nothing calls; the
counters of opened decoders are only logged.  `vpu_env_open` cannot fail, and an
`ioctl` never returns the code's own -0x999.  A handle that was Deinited is not
used again.

## 3. The runs

| run | configuration | distinct states | shows |
|---|---|---|---|
| `decoder` | `MCVideoDecoder` | 1 647 466 | all safety properties of the legacy decoder and the refinement |
| `drivers` | `MCDrivers` | 12 867 | two decoders with an instance each |
| `lifecycle` | `MCLifecycle` | 589 | two decoders of either build from Create to Destroy, every step failing |
| `vdec` | `MCVdecV3` | 3 815 293 | the V3 decoder library over a slow VPU, with failures |
| `venc` | `MCVencV3` | 16 587 | the V3 encoder library, with failures |
| `failures` | `MCFailures` | 309 904 | the buffers of the decoder plugins; encoder, old library and drivers, with failures |
| `answers` | `MCAnswers` | 311 483 | a decoder on the V3 library; what a command, a call, a picture gets as its answer |
| `programs` | `MCPrograms` | 309 377 | the index control; test programs, audio |
| `surface_starve` | `MCSurfaceStarve` | violated | finding 1 |
| `timeout` | `MCTimeout` | violated | finding 2 |
| `clock_wrap` | `MCClockWrap` | violated | finding 3 |
| `open_failure` | `MCOpenFailure` | violated | finding 4 |

### What the properties say

Those marked with a `+` are theorems as well (section 4).

`decoder`, in which no command fails - with failed commands most of these do not
hold (finding 2):

* `NoOverwrite` +: the VPU never works on a buffer in the window of surface
  frames.  `WindowBound` +: the window never exceeds its size and has room when a
  command is running.
* `OwnershipAgreement` +: the buffers the driver has lent out are exactly those
  on the two lists or in the result about to be handled, each once.  A buffer on
  no list is lost until Deinit, one on two is given back while it is shown.
* `CommandProtocol` +: one command while Decode waits, none otherwise; the buffer
  written is that command's.
* `RecordsFollowBuffers` +: one record per picture that is decoded and not given
  back.
* `OutputCarriesOwnTimestamp`: the time returned with a picture is that of the
  packet it was decoded from - through reordering, fields, skipped packets, full
  pools and restarts.
* `GetOutputFailsOnlyBeforeFirst` +: Decode reports that no output was found only
  before the first picture of a stream is displayed.
* `SurfaceFramesKept` +: every step is a step of `SurfaceFrames` or a stutter.

`drivers`, in which only the memory device may fail and there is an instance for
each decoder (below, under bounds):

* `DescriptorsOwned` +, `InstanceExclusive` +, `NoInstanceLeft` +,
  `NoDescriptorLeft` +: a decoder that is open works on its own devices and its
  own instance, a decoder that is closed holds nothing.

`lifecycle`:

* `NothingHeld` +: no handle, list, library or device of a decoder that is gone;
  the V3 library's count of decoders is right; no header is decoded without a
  driver and what it maps; only a decoder whose Init failed below the wrapper,
  unknown to its caller, may crash.
* `KeptWhileUsed` +: no call works on a resource that is gone.

`vdec` and `venc`:

* `V3AnswerIsOwn` +: what a V3 call reports belongs to the command it sent, with
  refused commands and answers that say "not processed" in between, as long as
  the VPU ends a command within the polls of its call and no poll and no
  `*_RESULT` has failed; a picture is that of the answer this call took, whatever
  failed, and a packet reported as taken was sent.
* `V3AreasKept` +, of each library: it and its VPU write inside their buffers;
  what is mapped is what the instance says is mapped, through failures and
  repeated Init; an encoder's address and size enclose exactly the picture.  A
  decoder copies to a buffer it does not have only behind an Init that failed; an
  encoder's headers stay in `seq_backup` while as many of the largest would fit.
* `KeptWhileUsed` +: a picture an encoder gave out is overwritten only from the
  start of the buffer: by the picture with which the buffer is begun anew, or by
  a sequence header, which the code writes there at any time.  A caller that asks
  for its headers before its first picture meets the first case only.  Headers
  are not overwritten.

`failures`:

* `DeinitReleases` +: whatever failed before, and after any number of headers,
  after Deinit a decoder's plugin has no memory of the driver left and has
  unmapped its bitstream buffer and its frames by the size they were mapped with.
  The exceptions are exact: frames another header's replaced stay mapped, and
  those of a header behind which a later one computed a new size without mapping
  frames of it are unmapped by that size (`decoder_plugin_video_common.c:537`).
* `FramesInMapping` +: the frames registered with the VPU are within the mapping
  the plugin hands addresses out of, through repeated headers and failed
  mappings; what is copied fits where it goes.
* `ClosedLeavesNothing` +: an encoder, a handle of the old library, and the drivers
  of a decoder of which everything may fail, leave no device, no mapping and no
  memory behind.
* `IndicesAccounted` +: an instance index belongs to one handle and is never lost;
  a handle that works has its buffers, commands go to an open codec - with other
  processes taking indices too.
* `PictureOfThisCall` +: an encoder's success gives the picture of this call and
  not the one before that lies in the same structure, and the whole sequence
  header - where the result was fetched, and JPEG apart, which takes over what
  is in the structure whatever the fetch answered; the old decoder registers
  enough frames, decodes the picture it was given, and keeps the one before
  while the codec may still read it.

`answers`:

* `LentIsHeld` +, `SurfaceFramesKept` +: ownership and the window, on the V3 path,
  for the answers an instance allows.  A driver that displays a picture with an
  answer that is no success is not among them: that picture is lost.
* `AnswersMatch` +: a loop that was told of an answer returns what it fetched
  last, never a result made up by a fetch that failed behind it, and never "not
  processed yet".  What it fetches is an older command's answer only after a
  call that came back without its own: from then on nothing in the loops puts
  the two in step again.  (An answer that was fetched without having been
  announced may be overwritten by a further, empty fetch, hazard
  `decoder_plugin_video_common.c:189`.)
* `ClocksInOrder`: unless clocks were dropped at an overflow and the pictures
  they belonged to still wait, the queue holds one clock per waiting picture, in
  display order.
* `SkipKeepsReferences` +: wherever a stream is entered, nothing is decoded
  without its references and nothing that has them is skipped.
* `CallsReturn`: every call ends, however slow the driver is, whatever it
  refuses; only a device that hangs up is excepted, which is polled for ever, and
  a header that ends the process.
* `StreamGoesOn`: a stream is taken to its last packet, on the legacy and on the
  V3 path; frame skipping comes to its end.

`programs`:

* `IndexListGuarded` +: without Update one thread at a time is in the lists; no
  picture is lost or listed twice; a thread alone leaves Update with room in the
  window.
* `ScriptsRunAsWritten`: nested repetitions multiply, the header comes before
  the pictures and the units of the contents in order; a script leaves no file
  and no decoder, and of memory the read buffer of each contents and nothing
  else; a task runs its own block, and all tasks are freed whatever failed, with
  their texts but for the one a failed `realloc` lost.
* `TestsRunAndEnd` +: a stress thread runs the test it was started for or a
  later one of its kind, and a test that one thread has for itself leaves no
  codec, but one that could not be initialised, which it reports; an automatic
  test makes all its frames; the VPU tester cuts a file into its units, once
  each and in order; files, decoders and buffers are given back by a thread that
  ends, and no task or context is freed while a thread works on it.
* `AudioInOrder` +: a stream cut into calls is decoded unit by unit, once each,
  in order, and heard as decoded; a closed handle has left nothing allocated.
* `ProgramsEnd`: scripts that have an end, and tests, end; after `q` every thread
  of the VPU tester stops and is joined, and of the stress tester if `q` comes when
  every worker is in its loop, each with its own test (earlier, or with threads
  that were late, a worker may miss it and run for ever); every call of the index
  control returns.

`decoder`, `drivers` and the three runs of several parts have one type invariant
each; those of the other components are proved (section 4).

### Bounds, and why they are enough

`decoder` has four buffers, windows of 1, 2 (the default, chosen by 0) and 3,
reordering by two pictures and four time stamps.  With `MinFrameBufferCount` 2,
`DEFAULT_FRAME_BUF_CNT` 1 and an `uiNumOutputFrames` of 0 or 1 the pool has
three or all four buffers, so the window may be smaller than, equal to or close
to the pool, every buffer is reused, the pool runs dry, and each list is emptied
and filled in every order.  Deinit and Init are not bounded: a decoder restarts
as often as it likes.  All five outcomes of a command are possible.  What makes
the state space finite is `MaxPts`, the length of a stream.  `uiFrameID` needs no
bound of its own, since each stream has finitely many pictures and Init clears it.

`drivers` gives two decoders two instances and a descriptor for each of their
devices and the application's; only the memory device may fail.  These are the
conditions under which `DescriptorsOwned`, `InstanceExclusive` and
`NoInstanceLeft` hold at all, and those of the theorems: a failure of the
manager, of the allocation mode, of the decoder device or of its initialisation
violates each of them, and so does a third party using up the instances (with
one instance the decoder that gets none clears instance 0, the other's).  All of
these follow from the zeroed handle; `open_failure` shows the first.  The part
`drivers` of `failures` lets everything fail and shows what still holds.

`lifecycle` has two decoders, as many as the count of opened decoders needs to
be wrong, both builds and all faults.

`vdec` has a buffer of 2 units, packets that fit or not, and pictures or none.  The
VPU takes up to five polls for a command, one less than the six of a call, so an
answer may come in each of its rounds; two commands may be with the driver, for
an answer that meets a later command.  Commands are refused, and allocations and
mappings fail; one repeated Init or header gives a mapping over a mapping.  Polls
and `*_RESULT`s may fail; `ErrorsBound` has the states after that only with one
codec, a VPU that is late by at most one poll, buffers that are mapped once and
packets that go to the start of the buffer.

`venc` has a buffer of 24 units, pictures of 1 to 11, four of them, three headers
of 1 or 2 units for a `seq_backup` of 5, and all faults: pictures end before, at
and after the half of the buffer, where it starts again, headers are written
before, between and after them, and the third one may be one too many.

The parts of `failures`:

| part | bounds | why enough |
|---|---|---|
| `buffers` | one codec with user data and slices, JPEG; two headers; frames up to 3, memory for 4; all faults | the second header meets what the first mapped, with more or fewer frames; the count meets its limit, the memory its end |
| `encoder` | three plugins, two Inits, two pictures, all faults | the second picture and the second Init meet what the first left |
| `old` | two handles, three decoders, two indices, one picture, all faults | the second handle finds the index free, taken or wrongly given back |
| `old_stream` | one handle, all four decoders, three pictures, memory for six frames | both halves of the stream buffer are used, and the first again |
| `drivers` | two decoders, one instance, six descriptors, all faults | instances and descriptors run out |

The parts of `answers`:

| part | bounds | why enough |
|---|---|---|
| `v3` | windows of 1 to 3 over a pool of up to five, four pictures, the three answers of section 2 | the window is emptied and filled, the pool runs dry |
| `v3_stream` | windows of 1 and 2, three pictures, the answers that do not end a stream | as above |
| `legacy` | windows of 1 and 2 (also the default, chosen by 0), a pool of the window and the reordering or more; no skipped packet and no `exit`, after which a packet is rightly never displayed | nearly the whole pool is shown or held back |
| `loops` | the code's three rounds but two tries in a round, `MaxOutstanding` 2: the caller's command and an older one | an answer, the older one's too, meets every try of every round |
| `returns` | at most twelve slow polls | as many as the waiting command and the next one make |
| `clock` | six pictures, reordering by two, an array of 4 clocks instead of 20 | it overflows |
| `skip` | five groups of pictures - open, closed, without B pictures, of I pictures alone, mixed - repeated for ever | entered at every picture |

`clock` scales the clock: it wraps at 2000 with regions of 20 instead of at 2^33
with larger ones, and `int` has 90 values, so that truncated differences keep the
sign they have in the code.  Streams start inside region A, on the borders A/B
and B/C, and just before the wrap.  In `decoder` the array keeps its 20 entries,
more than the four buffers can need.

The parts of `programs`: scripts with up to two nested repetitions, counted and
endless, two sessions, and contents of 0 to 5 units for MJPEG and for start
codes; scripts of two and three tasks, and an unfinished block, over a table of
three or two; two stress tests with `q` at any time; three automatic tests of
two frames with every step failing; a VPU test of an encoder and a decoder with
three pictures, and every step failing in smaller ones; one thread with all
operations of the index control (six calls, three pictures), two threads with
two calls each; four audio codecs, six units cut into at most four calls, two
handles after each other.  Two threads are enough for a lock and for a shared
variable that one writes for the other; three pictures for a list that is full,
has one to give back, and one to come.  `MaxExecs` stops the counters of a
script's lines above what any of them reaches but an endless repetition.

### Fairness

`FairSpec` of `VideoDecoder`, and the parts `legacy` and `v3_stream` of
`answers`, have weak fairness of the application's next call, of
the steps of a Decode and of the VPU.  The decoding loop of `dec_test.c:480-540`
submits packets until its stream ends and never waits between two of them; the
steps of a Decode run in its thread, which the kernel schedules; the driver
completes what it was given, which the plugin assumes as well (its poll loop
gives up only after all its retries).  No fairness is assumed of Init, Deinit, or
of any particular outcome.

`AnswersSpec` has one weak fairness for the callers, one for the steps of a
Decode and one for the VPU, over the parts at once: a behaviour keeps to its
part.  In `loops` and `returns` the thread in a command loop runs (`Loops!Loop`,
`Returns!Process`); of the driver nothing is assumed there, a call must end
without it.  In `skip` the driver goes on to the
next picture; how often it may have no room first is bounded.

`programs`: every thread of a program is scheduled (`Main`, `Thread(n)`), and no
more.  In particular nobody is bound to type `q`, no read is bound to succeed,
and a thread that waits for the semaphore gets it because the other one's call
is a finite one.

### Findings

1. *The pool ignores the window* (`video_decode_resource.c:488`).  The pool is
   the driver's minimum, `DEFAULT_FRAME_BUF_CNT` and the *deprecated*
   `uiNumOutputFrames`.  `number_of_surface_frames`, which replaces that
   parameter, sets only the window.  If it is larger than the pool the window
   never fills, nothing is given back, and the driver answers `BUF_FULL` for
   ever.  The run has a `DEFAULT_FRAME_BUF_CNT` of 4; with the code's 6 the same
   happens from `minimum + 7` surface frames on.
2. *A command that failed is taken for a result*
   (`decoder_plugin_video_common.c:189`).  After the last retry, and at once when
   the driver refused the command, a result is handled all the same.  Before
   the first real result it is all zeros: index 0 is pushed as a displayed
   picture while the driver is writing it.
3. *Reordering across the clock wrap* (`video_clock_control.c:98`).  Comparing a
   time before the wrap with one after it, the comparator answers "in order"
   whichever comes first, so a reordered pair keeps its decoding order.
4. *Closing what was not opened* (`decoder_plugin_video_ips.c:231`).  The handle
   is zeroed and only `iMgrFd` is set to -1, so closing after a failed open
   closes descriptor 0, the standard input of the process.

### Met while modelling

The following came up while the modules were written.  The models have the
behaviour, the constants or properties of the runs stay clear of it, and no run
is spent on it.

*Decoder.*
`video_decode_resource.c:417`: on the V3 path `NEED_MORE_DATA`,
`BUFFER_NOT_CONSUMED` and `CODEC_FINISH` become a success with a result of
zeros, and index 0 is pushed (add them to `Outcomes` of part `v3`: `LentIsHeld`
and `SurfaceFramesKept` fail).
`video_decode_resource.c:424`: the V3 branch never asks for a clock, so every
picture has time stamp 0.
`video_decode_resource.c:475`: without a resource every call succeeds.
`video_decoder.c:271`: the result of the plugin's Init is dropped; on the V3 path
the sequence header is then copied to NULL (`vdec_v3.c:794`, `:869`).
`decoder_plugin_h264.c:402` and its likes: a `BUF_FLAG_CLEAR` that fails is
dropped, and the buffer stays lent until Deinit.
`video_index_control.c:231`: Update releases the semaphore twice when there is
nothing to pop (add it to the operations of part `index_threads`, with a
`MaxPermits` of 2: `OneInside` fails).
`video_index_control.c:234` and `:118`: Update without a window and Clear without
a callback do not end.
`decoder_plugin_video_common.c:584`: the status of the output is passed as that
of the decoding, so the legacy plugins never recognise a field and start an
interlaced stream with broken B pictures.
`decoder_plugin_video_ips_vdec.c:328`: frames are counted by the minimum of the
header before.
`decoder_plugin_video_common.c:957`: `mmap` is compared with NULL.
`decoder_plugin_video_ips_jdec.c:195`: a missing buffer is copied to.

*V3 libraries.*
`vdec_v3.c:484`: after a poll that reports an error the call may end while its
command is still with the driver, and a later call takes its answer (`AnswerIsOwn`
excepts such an instance).
`vdec_v3.c:909`: after a header the place for the next packet is where the driver
says, with the size of the whole buffer (with a place other than 0 in
`HeaderOffsets`, `V3AreasKept` fails).
`vdec_v3.c:549`: a `*_RESULT` that fails is only logged, and what is in the handle
counts as the answer.
`vdec_v3.c:624`, `venc_v3.c:303`: an answer that comes after the last poll is
taken and reported as a hang.
`vdec_v3.c:1183`: "did not fit" is overwritten by `NEED_MORE_DATA`, and the
packet is lost.
`vdec_v3.c:1312`: a drain gives out the last decode's picture again.
`venc_v3.c:613`: a later header is written over a picture that was given out from
the start of the buffer; `:601`: nothing compares the headers with their 100 KiB.
`venc_v3.c:660`: a later header comes with the size of all headers.

*Encoder.*
`video_encoder.c:68`: the result of an encode is dropped.
`encoder_plugin_video_ips_jenc.c:157`: an empty JPEG has the size of the picture
before.
`encoder_plugin_h264.c:247`: a header that failed counts as done.
`encoder_plugin_video_common.c:716`: a failed fetch gives the last picture.
`encoder_plugin_video_ips.c:436`: as finding 4.

*Old library.*
`vdec_k_vpu.c:278`: a round without an answer may end as a success.
`vdec_k_vpu_4kd2.c:690`: a negative number of additional frames defeats the
check of their count.
`vdec_k_mjpeg.c:606`: a codec that was never opened is closed.
`vdec_k_common.c:1192`: a failed request for an index gives index 0.

*Audio.*
`decoder_plugin_mp3.c:292`, and PCM's and DDP's: the codec data is never freed.
`audio_decoder.c:158`, `:166`: "more data" is a success; only stereo is given
out.
`audio_decoder.c:116`, `:69`: after a failed Init the descriptor of the unloaded
plugin, and the codec, are still there.

*Testers.*
`dec_test.c:352`: `bIsRunning` is set after the thread is created, and overwrites
a `q`.
`dec_test.c:457`: one static time stamp for all threads.
`tester_stress.c:140`: a thread that takes more than 20 ms to begin runs another
thread's test, on the same tester.
`dec_test.c:200`, `:480`: an early failure leaves the decoder, or the header's
buffer.
`vpu_script_process.c:346`, `:350`: an endless repetition around another one, or
over contents that could not be opened, does not end.
`vpu_script_process.c:942`, `:964`: a text without a last newline starts again;
nesting is not checked.
`vpu_script_decoder_wrapper_vdec.c:122`, `:812`: `strtok` in threads; a number
written in decimal and read in hexadecimal.
`vpu_script_process.c:290`: the read buffer of a contents is never freed.
`vpu_script.c:142`, `:183`: failed allocations, of which the second loses a text;
`:168`, `:178`, `:229`: a full table, a text of just the wrong length, a block
without end.
`vpu_test_decoder.c:335`, `:550`, `:601`: two pictures in the first packet, the
end of the file, the result of a decode.
`vpu_test_encoder.c:416`, `:495`, `:588`: the end of the bitrate table, what a
failure leaves, an address that was never set.
`vpu_test_main.c:225`: a null handle is started.

## 4. The proofs

TLC checks the instances above; the theorems hold for every value of the
constants.  Each component has one definition of what its constants are
(`DecoderConstants`, `DriverConstants`, `BufferConstants`, `LifecycleConstants`,
`VdecConstants`, `VencConstants`, `V3Constants`, `IndexConstants`,
`EncoderConstants`, ...): types, and bounds that are not 0.  A module of a
passing run assumes it, so that TLC evaluates it; `Failures`, `Answers` and
`Programs` do so by name for each part that is proved about
(`EncoderAssumption`, `OldAssumption`, `LoopAssumption`, `AudioAssumption`, ...).
The following need more, stated in the theorem:

| theorems | hypothesis | why |
|---|---|---|
| all of `VideoDecoder_proofs` but `TypeCorrect` | `MaxFailedCommands = 0` | false with failed commands (finding 2): the library relies on a driver that takes each command and answers before the retries are used up |
| `OwnDescriptors`, `ExclusiveInstances`, `InstancesReturned` | `Roomy`: of the opening calls only that of the memory device may fail, with an instance and three descriptors for each decoder | false otherwise (finding 4, and section 3 under bounds) |
| `AreasKept` of `VdecV3_proofs` | `HeaderOffsets \subseteq {0}` | `vdec_v3.c:909` forgets the offset in the size of the place |
| `AnswersAreOwn` | `MaxSlow <= 5` | `vdec_v3.c:624`: an answer after the last of six polls meets the next call |
| `V3DecoderTypes`, `LentHeld`, `V3Implementation` of `Answers_proofs` | `PlainAnswers`: frames, full pools and failures | `video_decode_resource.c:417` makes a picture out of the other answers |
| `SkipReferencesKept` | `FieldPlugins \subseteq {"vdec"}` | `decoder_plugin_video_common.c:584`: the legacy plugins take fields for frames |
| `NothingLeftBehind`, `IndicesKept` | `OldCovered`: a request for an index does not fail, no handle is MJPEG's | `vdec_k_common.c:1192`: a failed request gives index 0; `vdec_k_mjpeg.c:606`, `:616`: a codec that was never opened is closed, and a failed close keeps the memory |
| `TestsKept` | `TasksCovered`: there is memory for a task | `vpu_script.c:142`: without it the block goes on with the task before, whose handle it overwrites |
| | `VpuDecoderCovered`: in the part `vpu_decoder` a decoder has memory for its stream, and an encoder no failing Init, header or picture | `vpu_test_decoder.c:529`, `vpu_test_encoder.c:552`: these leave without closing |
| `AudioKept` | `AudioCovered`: only AAC is given codec data | `decoder_plugin_mp3.c:292`, and PCM's and DDP's, never free it |

The runs of these properties satisfy them.

In each proof the theorem's invariant is not inductive, a conjunction with others
is; Init implies it, every step keeps it (one lemma per action or group of
actions, one step per conjunct), and it implies the property.  TLC checked these
conjunctions on the bounds of the component's run (but for conjuncts that quantify
over infinite sets) before they were proved.

`VideoDecoder_proofs`:

* `TypeCorrect` - `Spec => []TypeOK`, without a further assumption.
* `AgreementHolds` - `CommandProtocol`, `WindowBound` and `OwnershipAgreement`
  together, and from it `ProtocolCorrect`, `WindowCorrect`, `OwnershipCorrect`,
  `NeverOverwritten`, and `Implementation` (`Spec => SurfaceFramesKept`).
* `RecordsCorrect` - `RecordsFollowBuffers`.
* `StartedStreamFindsOutput` - `GetOutputFailsOnlyBeforeFirst`.

`NoOverwrite` is not inductive.  That the VPU leaves a displayed picture alone
follows from the driver knowing that it is shown; that the driver knows exactly
the pictures the library knows is `OwnershipAgreement`; a picture passes from
one to the other in the result of a command, so that there must be one command,
whose result is still to come exactly while Decode waits - `CommandProtocol`;
and a push needs room - `WindowBound`.  Their conjunction with `TypeOK` is
`IndInv`, which is inductive.  The lists are treated through four lemmas about
`Elems` and `NoDup`.  The refinement needs no invariant beyond `IndInv`: it maps
`surface` to `listDisplay`, `window` to `iMaxIndexCnt` and `busy` to the buffers
being written.  On top of `IndInv`, `RecordInv` says of a result still to be
handled that its decoded picture is in a buffer the driver has kept for it, and
`StartInv` that a picture was displayed only if the decoder has seen one or is
about to.

`PluginDrivers_proofs`:

* `DriversTypeCorrect` - `Spec => []DriversTypeOK`.
* `NothingLeftOpen` - `NoDescriptorLeft`, for any number of decoders, instances,
  descriptors and any set of faults.  `NoDescriptorLeft` speaks of closed
  decoders only; the invariant behind it, `Recorded`, says of every stage that an
  entry of the table that is a decoder's is the one its handle records for that
  device, and `MayHaveOpen` which devices it may have open at that stage.  It
  holds although decoders close each other's descriptors, because a close only
  ever removes entries.
* `OwnershipHolds`, and from it `OwnDescriptors`, `ExclusiveInstances`,
  `InstancesReturned`.  `OwnInv` says for every stage of Init and Deinit which
  devices a decoder has for certain, and that what its handle records while it
  closes is its own or closed already; `InstanceInv` that an instance is held
  from the request to the release, by the decoder whose handle has its number.
  An open finds an entry by counting: fewer entries are taken than there are.

`DecoderLifecycle_proofs`: `LifeTypeCorrect`, `NothingStaysHeld` (`NothingHeld`),
`OnlyHeldUsed` (`KeptWhileUsed`, an action property).  `DecoderInv` says what a
decoder holds at each stage of its caller, with what is missing where a step
failed; `total_opened_decoder` is the number of V3
decoders whose codec is set, which lemmas on cardinalities carry over every call.

`Failures_proofs`, under the specification of `PluginBuffers`: `BufTypeCorrect`,
`FramesMapped` (`FramesInMapping`), `EverythingReleased` (`DeinitReleases`), for
all eight codecs.  `StreamInv` ties the address of the bitstream buffer to its
size and to the memory granted, `MapsInv` what is mapped to what the plugin has
noted, for any number of headers: the frames of `frameVa` are mapped by the size
that is noted, unless `sized`, the header that last computed a size, came behind
them; those of earlier headers have lost their address.  Most of the proof is
about a header that may stop at any of its steps.

Under that of `Failures`:

* `PicturesMatched` (`PictureOfThisCall`).  `EncInv` says of the encoder which
  resource is the current one, that what it has open and mapped is what its
  plugin has noted, and that a header that is not done is empty; the property
  itself is inductive with them.  `DecodeInv` follows a packet through the old
  library: the stream buffer holds the packet that was given until it is decoded,
  and the half that is to be filled next is not the one a wave decoder still
  reads.
* `NothingLeftBehind` (`ClosedLeavesNothing`) and `IndicesKept`
  (`IndicesAccounted`).  `OldInv` has the properties about indices, commands and,
  in `OldMemory` and `OldLife`, who owns the memory and the mappings of a device
  at each place of a handle's life.  A call of the old library changes one handle
  and one device, so the proof is about a step of these two (`CallOK`, carried
  from one internal function to the next), and one lemma (`CallStep`) puts it
  beside all other handles.  The drivers' part of `ClosedLeavesNothing` is
  `NothingLeftOpen` of `PluginDrivers_proofs`, through an INSTANCE of it.

`VdecV3_proofs`: `V3TypeCorrect`, `AreasKept` (`V3AreasKept`), `AnswersAreOwn`
(`V3AnswerIsOwn`).  `VdecInv` has the types of queues and results, what a call in
progress looks like, and which buffers are mapped at each stage; `PlaceInv` that
every place that is or will be the next packet's leaves the room it says.
`TimelyInv` counts, until a poll or a `*_RESULT` fails: while a command waits, the
polls that are left and those it was slow for make six, so its answer is there
before the call gives up and nothing older is ever in the queue.  `ConsumedInv`
ties what is reported of a packet to what was sent.  That only an instance whose
Init failed copies a header to NULL (`CrashesOnlyUninited`) follows from the
mappings an initialised instance keeps.

`VencV3_proofs`: `VencTypeCorrect`, `AreasKept` (`V3AreasKept`), `GivenOutKept`
(`KeptWhileUsed`, an action property), from the arithmetic of the half buffer,
the gap and the alignment: `PlaceInv` (the place is 0 or behind the last
picture, so that a write that does not begin at 0 leaves it alone), `HeaderInv`,
`CountInv` (the headers so far are no longer than as many of the largest),
`MappingInv`.

`Answers_proofs`, under the specification of `VideoDecoderV3`: `V3DecoderTypes`,
`LentHeld` (`LentIsHeld`), `V3Implementation` (`SurfaceFramesKept`).  The argument
is that of `VideoDecoder_proofs`; `AnswerInv` takes the place of the command
protocol, and `RecordInv` says that a buffer has one record, of its own picture,
from the answer that decoded it until it is given back.

Under that of `Answers`:

* `AnswersMatched` (`AnswersMatch`), for any number of rounds, of polls and of
  older commands.  `LoopOwnCommand`: until a call comes back while the driver
  still has its command, all that is outstanding is the present caller's, and
  nothing between the calls; `LoopAnnounced`: the announced answer is there when
  it is fetched, unless the device has gone, and a loop that polls again after an
  announcement has fetched "not processed".
* `SkipReferencesKept` (`SkipKeepsReferences`), for any set of whole groups of
  pictures, entered at any picture.  `SkipReferences` says in each mode of the
  plugin which references the driver holds, and which pictures may therefore
  come next.

`Programs_proofs`, under the specification of `IndexControl`:
`IndexTypeCorrect`, `ListsGuarded` (`IndexListGuarded`), for any number of threads
and of permits.  `PictureInv` accounts for every picture pushed: on one of the
two lists, given back, or deleted by a Reset; `PermitInv` says that the permit is
out while a thread works, provided Update is not called, which returns it twice;
`RoomInv` is the window when one thread alone makes the calls.

Under that of `Programs`:

* `TestsKept` (`TestsRunAndEnd`), from one invariant for each part.  `QuitInv`:
  the index a thread will find is its own or a later one of the kind
  (`QuitHanded`, which needs no hand-shake), and a thread that has its tester for
  itself finds in it the worker and the codec it put there (`QuitOwn`, for these
  threads alone).  `AutoInv`: a runner ends after its worker, and an automatic
  test's worker closes only when its frames are made or a call failed.  `VpuInv`:
  the place in the file is the end of what was fed, or of the file.  `ReleaseInv`
  and `ContextInv`: what a thread still has by where it is; main is past the join
  of a thread only when it has ended.
  `TasksInv`: the handle of a task is that of its thread, so that main, when it
  frees the tasks in its table, has joined the thread of each.
* `AudioKept` (`AudioInOrder`).  `AudioStream`: what was decoded, followed by what
  waits in the plugin's buffer, is the stream given since it was last dropped - a
  statement about concatenations that a decode splits and the next call extends;
  `AudioLife` says what is allocated where in a handle's life.

Only model-checked:

* liveness (`StreamGoesOn`, `CallsReturn`, `ProgramsEnd`, `DecodingNeverStarves`):
  fairness and `ENABLED` are out of the prover's reach;
* what sorting does: `ClocksInOrder` and with it `OutputCarriesOwnTimestamp`
  (`VideoClock` is recursive, and what its sort computes is an induction over
  data);
* what a script's text makes of its run (`ScriptsRunAsWritten`): that repetitions
  multiply and that a task runs its own block are inductions over the text, and
  the properties hold of the scripts that are written as the tester's comment
  says, not of any text;
* the conjuncts of the composite type invariants (`FailuresTypeOK`,
  `AnswersTypeOK`, `ProgramsTypeOK`) that are neither proved by themselves
  (`BufTypeCorrect`, `V3DecoderTypes`, `IndexTypeCorrect`) nor part of one of the
  invariants above.

## 5. Not modelled

* A decoded picture that is never displayed, and the status
  `RESOLUTION_CHANGED` (`decoder_plugin_video_common.c:627`): which buffers the
  driver owns after it is known to the driver alone.
* A second Init of a handle (`video_decoder.c:408`, `audio_decoder.c:103`): no
  caller makes one, and the README of the repository documents one.
* WMV, the ring buffer, flush, reset and user data of the old library, which
  nothing calls; the vsync drivers of the index control, which no build compiles;
  the dummy plugins' decoder, which has no state.
* The encoder-to-decoder test of `vid_test.c`, more than four tests of the VPU
  tester, its VP9 and MPEG-2 options, output files and reports.
* Wrapper functions that only take a script's text apart, `ioctl` structures,
  enumerations converted one to one, the CbCr conversion, logging.

Hazards without a property, beside those `PROJECT.json` lists with a note:
`vdec_k_vpu_4kd2.c:1180` (a picture of more than half the buffer is copied past
its end: pictures have no length in `OldVdec`), `vdec_k_mjpeg.c:616` (a failed
close keeps the memory), `video_decoder_vdec.c:912` (a pointer to a released
instance, which no caller uses), `vpu_script_process.c:795` (a display index is
cleared twice at the end of the file), `vpu_script_system.c:71` and `:84` (the
last unit of a file is dropped; a unit larger than the buffer),
`video_index_control.c:445` (identifiers start again at a Reset),
`decoder_plugin_aac.c:391` and `:423` (output beyond the caller's buffer; an
error drops the frames before it), `vpu_test_decoder.c:716` (the result of
`pthread_create`), `vpu_test_main.c:231` (the end of the standard input),
`vdec_v3.c:1510` (descriptor 0 is taken for none).

What is left to prove: `EndLeavesBuffers` of `ScriptProcess`, for scripts that
close what they open; and that the clock queue is in display order for streams
without a wrap, which needs a lemma by induction on what the sort returns.

## 6. Running

```
tlc -workers 2 -config MCVideoDecoder.cfg VideoDecoder.tla     # about 90 s
tlc -config MCDrivers.cfg MCDrivers.tla
tlc -config MCLifecycle.cfg MCLifecycle.tla
tlc -workers 2 -config MCVdecV3.cfg MCVdecV3.tla
tlc -config MCVencV3.cfg MCVencV3.tla
tlc -workers 2 -config MCFailures.cfg MCFailures.tla           # about 40 s
tlc -workers 2 -config MCAnswers.cfg MCAnswers.tla             # about 200 s
tlc -workers 2 -config MCPrograms.cfg MCPrograms.tla           # about 150 s
tlc -config MCClockWrap.cfg MCClockQueue.tla                   # finding 3
tlapm VideoDecoder_proofs.tla
```

and `tlapm` in the same way for `PluginDrivers_proofs`,
`DecoderLifecycle_proofs`, `VdecV3_proofs`, `VencV3_proofs`, `Failures_proofs`,
`Answers_proofs` and `Programs_proofs` (the last about 20 minutes: each
obligation is easy, but sees the definitions of every part).

To look at one part alone, conjoin `part = "..."` to `FailuresInit`,
`AnswersInit` or `ProgramsInit`.  `programs` is run without the check for
deadlock, since programs end.

`PROJECT.json` holds the correspondence of definitions and source lines, the
runs, and for every property a mutant of the code that violates it.  A mutant is
an operator next to the definition it replaces, with a comment on the bug it
stands for.
