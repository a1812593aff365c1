------------------------------- MODULE StressTest --------------------------------
(***************************************************************************)
(* The stress tester (tester_stress.c) and the automatic tests             *)
(* (tester_sv.c) over the testers of dec_test.c and enc_test.c.            *)
(*                                                                         *)
(* The stress tester starts an exit thread, then for each test a thread    *)
(* that runs it; the test starts a worker thread of its own, which         *)
(* decodes until its tester's bIsRunning is false.  The exit thread waits  *)
(* for a 'q' and clears every bIsRunning that is set.  No variable is      *)
(* protected.  The automatic tests run the same tests one after another,   *)
(* for a number of frames, without an exit thread, encoders too.  What the *)
(* codecs do is left to VideoDecoder and VideoEncoder: here a call         *)
(* succeeds or fails.  Frames are read from a file that starts again at    *)
(* its end; a file that is cut off within a frame ends a test.             *)
(*                                                                         *)
(* The index of its test is handed to a thread in a field that main writes *)
(* again after 20 ms, whatever the thread has done: two threads may take   *)
(* the same test.  They then run on one tester, each with a worker and a   *)
(* codec of its own, and the tester knows the worker and the codec that    *)
(* were put there last.  A call on a codec that is destroyed succeeds or   *)
(* fails here; that it may also end the process, or never return, is not   *)
(* followed.  Within vdt_init the two do not interleave.                   *)
(***************************************************************************)
EXTENDS Integers, Sequences

CONSTANTS
  Kinds,      \* the tests, in their order: "decoder" or "encoder"
  Stress,     \* the stress tester, or else the automatic tests
  MaxCnt,     \* iMaxCnt: frames of a test, -1 for no end
  Faults      \* what may fail: "file", "init", "header", "read", "code"

StressConstants ==
  /\ Kinds \in Seq({"decoder", "encoder"}) /\ Stress \in BOOLEAN
  /\ MaxCnt \in Nat \union {-1} /\ (~Stress => MaxCnt # -1)
  /\ Faults \subseteq {"file", "init", "header", "read", "code"}

Tests == DOMAIN Kinds
N == Len(Kinds)

VARIABLES
  main,      \* "starting", "handed", "joining", "ended"
  started,   \* threads main has created or, at the end, joined
  exiting,   \* the exit thread: "reading", "clearing", "ended"
  cleared,   \* testers the exit thread has been to
  isExit,    \* bIsExit
  tryIdx,    \* iDecTryIdx and iEncTryIdx
  runner,    \* of each test's thread: where it is
  took,      \* the index it has read, 0 before
  running,   \* bIsRunning of each tester
  inited,    \* bIsInit of each tester
  hThread,   \* hDecThread, hEncThread: whose worker it is, 0 for none
  held,      \* ptVideoDecoder, ptVideoEncoder: whose worker created it
  worker,    \* the worker each thread created: where it is
  count,     \* uiCnt of each tester
  coder,     \* the codec each worker created: "none", "created", "open"
  buffers,   \* sequence header buffers that are not freed
  error,     \* of each tester: eDecError or eEncError is an error
  short,     \* history: a frame of the test could not be read
  early      \* history: the exit came before every worker was in its loop

control == <<main, started, exiting, cleared, isExit, tryIdx, early>>
tester == <<inited, hThread, held>>
work == <<running, tester, worker, count, error, coder, buffers, short>>
vars == <<control, runner, took, work>>

Init ==
  /\ main = "starting" /\ started = 0
  /\ exiting = IF Stress THEN "reading" ELSE "ended"
  /\ cleared = 0 /\ isExit = FALSE
  /\ tryIdx = [kind \in {"decoder", "encoder"} |-> 0]
  /\ runner = [i \in Tests |-> "none"] /\ took = [i \in Tests |-> 0]
  /\ running = [i \in Tests |-> FALSE] /\ inited = [i \in Tests |-> FALSE]
  /\ hThread = [i \in Tests |-> 0] /\ held = [i \in Tests |-> 0]
  /\ worker = [i \in Tests |-> "none"] /\ count = [i \in Tests |-> 0]
  /\ coder = [i \in Tests |-> "none"] /\ buffers = 0
  /\ error = [i \in Tests |-> FALSE]
  /\ short = [i \in Tests |-> FALSE]
  /\ early = FALSE
-----------------------------------------------------------------------------
(* The main thread.                                                        *)

StartsTest ==
  /\ main = "starting" /\ started < N
  /\ tryIdx' = [tryIdx EXCEPT ![Kinds[started + 1]] = started + 1]
  /\ runner' = [runner EXCEPT ![started + 1] = "new"]
  /\ started' = started + 1 /\ main' = "handed"
  /\ UNCHANGED <<exiting, cleared, isExit, early, took, work>>

(* 20 ms later, which says nothing of how far the new thread has come.  An *)
(* automatic test is run by the main thread itself, to its end.            *)
Sleeps ==
  /\ main = "handed"
  /\ ~Stress => runner[started] = "ended"
  /\ main' = "starting"
  /\ UNCHANGED <<started, exiting, cleared, isExit, tryIdx, early, runner, took, work>>

WaitsForExit ==
  /\ main = "starting" /\ started = N
  /\ isExit \/ ~Stress
  /\ main' = "joining" /\ started' = 0
  /\ UNCHANGED <<exiting, cleared, isExit, tryIdx, early, runner, took, work>>

(* Mutant: nobody is waited for but the exit thread.                       *)
Joins_ExitOnly ==
  /\ main = "joining" /\ exiting = "ended"
  /\ main' = "ended"
  /\ UNCHANGED <<started, exiting, cleared, isExit, tryIdx, early, runner, took, work>>

Joins ==
  /\ main = "joining" /\ exiting = "ended"
  /\ IF started < N
     THEN runner[started + 1] = "ended" /\ started' = started + 1 /\ UNCHANGED main
     ELSE main' = "ended" /\ UNCHANGED started
  /\ UNCHANGED <<exiting, cleared, isExit, tryIdx, early, runner, took, work>>
-----------------------------------------------------------------------------
(* The exit thread.                                                        *)

ReadsQ ==
  /\ exiting = "reading"
  /\ exiting' = "clearing" /\ isExit' = TRUE
  /\ early' = (\E i \in Tests : runner[i] # "joining")
  /\ UNCHANGED <<main, started, cleared, tryIdx, runner, took, work>>

ClearsRunning ==
  /\ exiting = "clearing" /\ cleared < N
  /\ cleared' = cleared + 1
  /\ running' = [running EXCEPT ![cleared'] = FALSE]
  /\ exiting' = IF cleared' = N THEN "ended" ELSE exiting
  /\ UNCHANGED <<main, started, isExit, tryIdx, early, runner, took,
                 tester, worker, count, error, coder, buffers, short>>
-----------------------------------------------------------------------------
(* A test: vdt_run_test and vet_run_test.                                  *)

TakesIndex(i) ==
  /\ runner[i] = "new"
  /\ took' = [took EXCEPT ![i] = tryIdx[Kinds[i]]]
  /\ runner' = [runner EXCEPT ![i] = "setting"]
  /\ UNCHANGED <<control, work>>

Tester(i) == took[i]

SharesTester(i, j) == j # i /\ took[j] = took[i]

(* vdt_set_tester and vet_set_tester.                                      *)
SetsTester(i) ==
  /\ runner[i] = "setting"
  /\ runner' = [runner EXCEPT ![i] = "creating"]
  /\ running' = [running EXCEPT ![Tester(i)] = TRUE]
  /\ inited' = [inited EXCEPT ![Tester(i)] = FALSE]
  /\ count' = [count EXCEPT ![Tester(i)] = 0]
  /\ error' = [error EXCEPT ![Tester(i)] = FALSE]
  /\ UNCHANGED <<control, took, hThread, held, worker, coder, buffers, short>>

CreatesWorker(i) ==
  /\ runner[i] = "creating"
  /\ runner' = [runner EXCEPT ![i] = "arming"]
  /\ worker' = [worker EXCEPT ![i] = "opening"]
  /\ hThread' = [hThread EXCEPT ![Tester(i)] = i]
  /\ UNCHANGED <<control, took, running, inited, held, count, error, coder, buffers, short>>

(* bIsRunning is set once more when the worker may be running already.     *)
ArmsTester(i) ==
  /\ runner[i] = "arming"
  /\ runner' = [runner EXCEPT ![i] = "joining"]
  /\ running' = [running EXCEPT ![Tester(i)] = TRUE]
  /\ UNCHANGED <<control, took, tester, worker, count, error, coder, buffers, short>>

(* The thread that the tester holds then.  A second join of one thread may *)
(* return at once.                                                         *)
JoinsWorker(i) ==
  /\ runner[i] = "joining"
  /\ \/ worker[hThread[Tester(i)]] = "ended"
     \/ \E j \in Tests : SharesTester(i, j) /\ runner[j] \in {"joining", "ended"}
  /\ runner' = [runner EXCEPT ![i] = "ended"]
  /\ UNCHANGED <<control, took, work>>
-----------------------------------------------------------------------------
(* A worker: vdt_running_test_thread and vet_running_test_thread.          *)

Goes(i, from, to) == worker[i] = from /\ worker' = [worker EXCEPT ![i] = to]

steady == <<control, runner, took, hThread>>

Errs(i, iff) == error' = [error EXCEPT ![Tester(i)] = iff]

(* The file and the buffer of the sequence header.                         *)
OpensFile(i) ==
  /\ \/ Goes(i, "opening", "initializing")
        /\ buffers' = IF Kinds[i] = "decoder" THEN buffers + 1 ELSE buffers
     \/ "file" \in Faults /\ Kinds[i] = "decoder"
        /\ Goes(i, "opening", "closing") /\ UNCHANGED buffers
  /\ Errs(i, worker'[i] = "closing")
  /\ UNCHANGED <<steady, running, inited, held, count, coder, short>>

(* vdt_init, whose result a decoder goes on without, and vet_init as far   *)
(* as its Init.                                                            *)
Initializes(i) ==
  /\ \/ /\ Goes(i, "initializing", "header") /\ Errs(i, FALSE)
        /\ coder' = [coder EXCEPT ![i] = "open"]
        /\ inited' = [inited EXCEPT ![Tester(i)] = Kinds[i] = "decoder"]
     \/ /\ "init" \in Faults
        /\ Goes(i, "initializing", IF Kinds[i] = "decoder" THEN "header" ELSE "closing")
        /\ Errs(i, TRUE)
        /\ coder' = [coder EXCEPT ![i] = "created"]
        /\ inited' = [inited EXCEPT ![Tester(i)] = FALSE]
  /\ held' = [held EXCEPT ![Tester(i)] = i]
  /\ UNCHANGED <<steady, running, count, buffers, short>>

(* Calls go to the codec that the tester holds: one that was not           *)
(* initialized refuses them, one that is destroyed may do anything.        *)
Codec(i) == coder[held[Tester(i)]]

May(i) == Codec(i) # "created"
MayFail(i, what) == what \in Faults \/ Codec(i) # "open"

(* The header, and for a decoder the picture behind it.  Only a header     *)
(* that was decoded has its buffer freed, whatever becomes of its picture. *)
(* An encoder counts as initialized only with its header.                  *)
DoesHeader(i) ==
  /\ \/ /\ Goes(i, "header", "running") /\ May(i)
        /\ buffers' = IF Kinds[i] = "decoder" THEN buffers - 1 ELSE buffers
     \/ /\ Goes(i, "header", "closing") /\ MayFail(i, "header")
        /\ UNCHANGED buffers
     \/ /\ Goes(i, "header", "closing") /\ May(i) /\ MayFail(i, "code")
        /\ Kinds[i] = "decoder" /\ buffers' = buffers - 1
  /\ inited' = IF Kinds[i] = "decoder" THEN inited
               ELSE [inited EXCEPT ![Tester(i)] = worker'[i] = "running"]
  /\ Errs(i, worker'[i] = "closing")
  /\ UNCHANGED <<steady, running, held, count, coder, short>>

(* The loop, while bIsRunning: the end of the test, or a frame.            *)
Enough(i) == MaxCnt # -1 /\ count[Tester(i)] >= MaxCnt

(* Another thread that sets the tester clears bIsRunning for a moment.     *)
LeavesLoop(i) ==
  /\ Goes(i, "running", "closing")
  /\ \/ ~running[Tester(i)]
     \/ \E j \in Tests : SharesTester(i, j) /\ runner[j] = "setting"
  /\ UNCHANGED <<steady, running, inited, held, count, error, coder, buffers, short>>

EndsTest(i) ==
  /\ worker[i] = "running" /\ running[Tester(i)] /\ Enough(i)
  /\ running' = [running EXCEPT ![Tester(i)] = FALSE]
  /\ UNCHANGED <<steady, inited, held, worker, count, error, coder, buffers, short>>

ReadsFrame(i) ==
  /\ Goes(i, "running", "coding") /\ running[Tester(i)] /\ ~Enough(i)
  /\ UNCHANGED <<steady, running, inited, held, count, error, coder, buffers, short>>

CannotRead(i) ==
  /\ "read" \in Faults /\ Kinds[i] = "decoder"
  /\ worker[i] = "running" /\ running[Tester(i)] /\ ~Enough(i)
  /\ running' = [running EXCEPT ![Tester(i)] = FALSE]
  /\ short' = [short EXCEPT ![Tester(i)] = TRUE]
  /\ UNCHANGED <<steady, inited, held, worker, count, error, coder, buffers>>

CodesFrame(i) ==
  /\ \/ Goes(i, "coding", "counting") /\ May(i) /\ UNCHANGED <<running, count>>
     \/ /\ Goes(i, "coding", "running") /\ MayFail(i, "code")
        /\ running' = [running EXCEPT ![Tester(i)] = FALSE]
        /\ count' = IF Kinds[i] = "encoder" /\ MaxCnt # -1
                    THEN [count EXCEPT ![Tester(i)] = @ + 1] ELSE count
  /\ Errs(i, worker'[i] = "running")
  /\ UNCHANGED <<steady, inited, held, coder, buffers, short>>

(* In an endless test uiCnt is not counted.                                *)
Counts(i) ==
  /\ Goes(i, "counting", "running")
  /\ count' = IF MaxCnt = -1 THEN count ELSE [count EXCEPT ![Tester(i)] = @ + 1]
  /\ UNCHANGED <<steady, running, inited, held, error, coder, buffers, short>>

(* vdt_deinit and vet_deinit: only of a codec that was initialized.        *)
Closes(i) ==
  /\ Goes(i, "closing", "ended")
  /\ coder' = IF inited[Tester(i)] THEN [coder EXCEPT ![held[Tester(i)]] = "none"] ELSE coder
  /\ UNCHANGED <<steady, running, inited, held, count, error, buffers, short>>
-----------------------------------------------------------------------------
Main == StartsTest \/ Sleeps \/ WaitsForExit \/ Joins

Runner(i) ==
  TakesIndex(i) \/ SetsTester(i) \/ CreatesWorker(i) \/ ArmsTester(i) \/ JoinsWorker(i)

Worker(i) ==
  \/ OpensFile(i) \/ Initializes(i) \/ DoesHeader(i) \/ LeavesLoop(i) \/ EndsTest(i)
  \/ ReadsFrame(i) \/ CannotRead(i) \/ CodesFrame(i) \/ Counts(i)
  \/ Closes(i)

Next ==
  \/ Main \/ ReadsQ \/ ClearsRunning
  \/ \E i \in Tests : Runner(i) \/ Worker(i)

(* Threads are scheduled; the user need never type 'q'.                    *)
Spec ==
  /\ Init /\ [][Next]_vars
  /\ WF_vars(Main) /\ WF_vars(ClearsRunning)
  /\ \A i \in Tests : WF_vars(Runner(i)) /\ WF_vars(Worker(i))
-----------------------------------------------------------------------------
(* Properties.                                                             *)

(* Every variable has its type.                                            *)
StressTypeOK ==
  /\ main \in {"starting", "handed", "joining", "ended"} /\ started \in 0..N
  /\ exiting \in {"reading", "clearing", "ended"} /\ cleared \in 0..N
  /\ {isExit, early} \subseteq BOOLEAN /\ tryIdx \in [{"decoder", "encoder"} -> 0..N]
  /\ \A i \in Tests :
       /\ runner[i] \in {"none", "new", "setting", "creating", "arming", "joining", "ended"}
       /\ took[i] \in 0..N /\ {running[i], inited[i]} \subseteq BOOLEAN
       /\ {hThread[i], held[i]} \subseteq 0..N
       /\ worker[i] \in {"none", "opening", "initializing", "header", "running", "coding",
                         "counting", "closing", "ended"}
       /\ count[i] \in 0..(IF MaxCnt = -1 THEN 0 ELSE MaxCnt + N)
       /\ coder[i] \in {"none", "created", "open"} /\ short[i] \in BOOLEAN
  /\ buffers \in 0..N

(* A thread takes its own test or, when it is late, a later one of its     *)
(* kind, never an earlier one; so a test runs once, several times at once  *)
(* or not at all.                                                          *)
OwnTest ==
  \A i \in Tests : took[i] # 0 => took[i] \in i..N /\ Kinds[took[i]] = Kinds[i]

(* At the end the worker of a test that one thread alone took has ended,   *)
(* and its codec is destroyed unless it could not be initialized, which    *)
(* the test then reports; however the tests ended, at 'q', after their     *)
(* frames or with an error, and however threads shared the other tests.    *)
EndsClean ==
  main = "ended" =>
    \A i \in Tests :
      (\A j \in Tests : ~SharesTester(i, j)) =>
        /\ worker[i] = "ended"
        /\ coder[i] = "none" \/ (~inited[took[i]] /\ error[took[i]])

(* When every test is in its stride, each run by its own thread, a 'q'     *)
(* ends the tester.                                                        *)
ExitEnds == (isExit /\ ~early /\ \A i \in Tests : took[i] = i) ~> (main = "ended")

(* The automatic tests come to their end, whatever fails.                  *)
TestsEnd == <>(main = "ended")

(* An automatic test that had no error and could read its file has coded   *)
(* its number of frames.                                                   *)
CompleteTests ==
  ~Stress => \A i \in Tests :
    worker[i] = "ended" /\ ~error[i] /\ ~short[i] => count[i] = MaxCnt

================================================================================
