------------------------------ MODULE ScriptTasks --------------------------------
(***************************************************************************)
(* The tasks of a script (vpu_script.c) and the threads that run them.     *)
(*                                                                         *)
(* vpu_script_main reads the script line by line, copies the lines of each *)
(* block "task_start ... task_end" to a buffer of the block's own, starts  *)
(* a thread for it, and at the end joins the threads and frees the tasks.  *)
(* What a line does is ScriptProcess's matter; here a line has a length    *)
(* and the number of its parameters, which the decoder wrappers take apart *)
(* with strtok.  strtok keeps its place in one static variable, whichever  *)
(* thread calls it.  The byte behind a task's text is NUL here: what else  *)
(* may be there is in ScriptProcess.  What a thread reads of a text that   *)
(* was moved under it is not followed: it goes on, or the process ends.    *)
(***************************************************************************)
EXTENDS Integers, Sequences, SequencesExt

CONSTANTS
  Texts,        \* scripts: sequences of lines [kind, length, args]
  MaxTask,      \* MAX_TASK
  AllocSize,    \* BUFFER_ALLOC_SIZE
  MaxTokens,    \* bound: parameters a command takes from a freed string
  Faults        \* what may fail: "malloc", "realloc"

ScriptTasksConstants ==
  /\ \A text \in Texts : \A i \in DOMAIN text :
       text[i].kind \in {"start", "end", "command"} /\ {text[i].length, text[i].args} \subseteq Nat
  /\ {MaxTask, AllocSize, MaxTokens} \subseteq Nat \ {0}
  /\ Faults \subseteq {"malloc", "realloc"}

VARIABLES
  text,      \* script_buffer
  pc,        \* main: "reading", "joining", "done"; "crashed" for the process
  line,      \* nextbuffer: the line to be read, or the entry to be joined
  inside,    \* inside_new_block
  index,     \* curr_index
  task,      \* the pointer task: an allocation, 0 for NULL
  table,     \* main->task[], and what lies behind it
  tasks,     \* the allocations
  threads,   \* the threads started: the task of each, where it is
  place      \* strtok's: the string it is in (a thread and a line), next token

vars == <<text, pc, line, inside, index, task, table, tasks, threads, place>>
reader == <<text, pc, line, inside, index, task, table>>

(* A task: its text, of which buffer says that there is memory for it, and *)
(* whether a text of it was moved while its thread ran, or lost.           *)
NewTask(buffer) ==
  [alloc |-> AllocSize, size |-> AllocSize, filled |-> 0, text |-> <<>>,
   buffer |-> buffer, moved |-> FALSE, lost |-> FALSE,
   running |-> FALSE, handle |-> 0, pos |-> 0, state |-> "built"]

Init ==
  /\ text \in Texts
  /\ pc = "reading" /\ line = 1 /\ inside = FALSE /\ index = 0 /\ task = 0
  /\ table = [i \in 0..(MaxTask - 1) |-> 0]
  /\ tasks = <<>> /\ threads = <<>>
  /\ place = [thread |-> 0, line |-> 0, token |-> 0]
-----------------------------------------------------------------------------
(* Reading the script.                                                     *)

Line == text[line]

(* The buffer is made larger when the text does not fit; the '\n' is not   *)
(* counted, and one byte more is counted than was asked for.               *)
Tight(t) == t.alloc < t.filled + Line.length

Grown(t) ==
  IF Tight(t) THEN [t EXCEPT !.alloc = @ + AllocSize + 1, !.size = @ + AllocSize,
                             !.buffer = TRUE, !.moved = t.handle # 0]
  ELSE t

Copied(t) ==
  [Grown(t) EXCEPT !.text = Append(@, line), !.filled = @ + Line.length + 1]

(* A failed realloc puts a NULL in the place of the text it did not move.  *)
Unmoved(t) == [t EXCEPT !.buffer = FALSE, !.lost = t.buffer]

(* The line goes to the task's buffer, also to one that is NULL and is not *)
(* made larger; a failed realloc ends the reading.                         *)
CopyLine(target, all) ==
  \/ /\ all[target].buffer \/ Tight(all[target])
     /\ tasks' = [all EXCEPT ![target] = Copied(@)]
     /\ UNCHANGED pc /\ line' = line + 1
  \/ /\ ~all[target].buffer /\ ~Tight(all[target])
     /\ tasks' = all
     /\ pc' = "crashed" /\ UNCHANGED line
  \/ /\ "realloc" \in Faults /\ Tight(all[target])
     /\ tasks' = [all EXCEPT ![target] = Unmoved(@)]
     /\ pc' = "joining" /\ line' = 0

Reads(kind) == pc = "reading" /\ line <= Len(text) /\ Line.kind = kind

(* A block within a block takes the place of the one it is in.             *)
TaskStart ==
  /\ Reads("start")
  /\ inside' = TRUE
  /\ task' = Len(tasks) + 1
  /\ table' = [i \in DOMAIN table \union {index} |-> IF i = index THEN task' ELSE table[i]]
  /\ \E buffer \in BOOLEAN :
       (buffer \/ "malloc" \in Faults) /\ CopyLine(task', Append(tasks, NewTask(buffer)))
  /\ UNCHANGED <<text, index, threads, place>>

(* Without memory for it the block goes on with the task before.           *)
TaskStartFails ==
  /\ Reads("start") /\ "malloc" \in Faults
  /\ inside' = TRUE
  /\ table' = [i \in DOMAIN table \union {index} |-> IF i = index THEN 0 ELSE table[i]]
  /\ IF task = 0 THEN pc' = "crashed" /\ UNCHANGED <<line, tasks>>
     ELSE CopyLine(task, tasks)
  /\ UNCHANGED <<text, index, task, threads, place>>

CommandLine ==
  /\ Reads("command")
  /\ IF inside THEN CopyLine(task, tasks)
     ELSE line' = line + 1 /\ UNCHANGED <<pc, tasks>>
  /\ UNCHANGED <<text, inside, index, task, table, threads, place>>

Started ==
  /\ threads' = Append(threads, [task |-> task, at |-> "new", taken |-> <<>>, done |-> <<>>])
  /\ tasks' = [tasks EXCEPT ![task].running = TRUE, ![task].handle = Len(threads) + 1]

TaskEnd ==
  /\ Reads("end")
  /\ inside' = FALSE /\ line' = line + 1
  /\ IF inside THEN Started /\ index' = index + 1
     ELSE UNCHANGED <<index, threads, tasks>>
  /\ UNCHANGED <<text, pc, task, table, place>>

EndOfScript ==
  /\ pc = "reading" /\ line > Len(text)
  /\ pc' = "joining" /\ line' = 0
  /\ UNCHANGED <<text, inside, index, task, table, tasks, threads, place>>
-----------------------------------------------------------------------------
(* The join and the release.                                               *)

Joined == IF table[line] = 0 THEN 0 ELSE tasks[table[line]].handle

(* A task that was never started has no handle: whatever malloc left there *)
(* is joined, which goes wrong or does nothing.                            *)
Join ==
  /\ pc = "joining" /\ line < MaxTask
  /\ \/ /\ Joined # 0 => threads[Joined].at = "stopped"
        /\ line' = line + 1 /\ UNCHANGED pc
     \/ /\ table[line] # 0 /\ Joined = 0
        /\ pc' = "crashed" /\ UNCHANGED line
  /\ UNCHANGED <<text, inside, index, task, table, tasks, threads, place>>

Release ==
  /\ pc = "joining" /\ line = MaxTask
  /\ pc' = "done"
  /\ tasks' = [k \in DOMAIN tasks |->
                 IF \E i \in 0..(MaxTask - 1) : table[i] = k
                 THEN [tasks[k] EXCEPT !.state = "freed"] ELSE tasks[k]]
  /\ table' = [i \in DOMAIN table |-> IF i < MaxTask THEN 0 ELSE table[i]]
  /\ UNCHANGED <<text, line, inside, index, task, threads, place>>
-----------------------------------------------------------------------------
(* A thread.                                                               *)

MyTask(t) == threads[t].task
MyText(t) == tasks[MyTask(t)].text
MyLine(t) == MyText(t)[tasks[MyTask(t)].pos]

Alive(t) == pc # "crashed" /\ t \in DOMAIN threads /\ threads[t].at # "stopped"

ThreadStarts(t) ==
  /\ Alive(t) /\ threads[t].at = "new"
  /\ threads' = [threads EXCEPT ![t].at = "lines"]
  /\ tasks' = [tasks EXCEPT ![MyTask(t)].pos = 1]
  /\ UNCHANGED <<reader, place>>

(* The thread is between two lines of a task that is to run on.            *)
Between(t) ==
  /\ Alive(t) /\ threads[t].at = "lines" /\ tasks[MyTask(t)].running

(* The first line is read from the task's buffer, a later one from where   *)
(* the line before it ended.                                               *)
HasLine(t) ==
  /\ tasks[MyTask(t)].pos \in DOMAIN MyText(t)
  /\ tasks[MyTask(t)].buffer \/ tasks[MyTask(t)].pos > 1

(* Mutant: the character behind the newline is skipped with its line.      *)
NextLine_SkipsOne(t) == tasks' = [tasks EXCEPT ![MyTask(t)].pos = @ + 2]

(* A line is read before it is executed.                                   *)
NextLine(t) == tasks' = [tasks EXCEPT ![MyTask(t)].pos = @ + 1]

ThreadLine(t) ==
  /\ Between(t) /\ HasLine(t)
  /\ text[MyLine(t)].args = 0
  /\ NextLine(t)
  /\ threads' = [threads EXCEPT ![t].done = Append(@, MyLine(t))]
  /\ UNCHANGED <<reader, place>>

(* strtok(savedptr): a copy of the parameter is taken apart.               *)
FirstToken(t) ==
  /\ Between(t) /\ HasLine(t)
  /\ text[MyLine(t)].args > 0
  /\ NextLine(t)
  /\ place' = [thread |-> t, line |-> MyLine(t), token |-> 2]
  /\ threads' = [threads EXCEPT ![t].at = "tokens", ![t].taken = <<<<t, MyLine(t), 1>>>>]
  /\ UNCHANGED reader

(* strtok(NULL): the next token of the string strtok is in.                *)
Takes(t) == Alive(t) /\ threads[t].at = "tokens"

NextToken(t) ==
  /\ Takes(t) /\ place.token <= text[place.line].args
  /\ place' = [place EXCEPT !.token = @ + 1]
  /\ threads' = [threads EXCEPT ![t].taken =
                   Append(@, <<place.thread, place.line, place.token>>)]
  /\ UNCHANGED <<reader, tasks>>

LastToken(t) ==
  /\ Takes(t) /\ place.token > text[place.line].args /\ tasks[MyTask(t)].pos # 0
  /\ threads' = [threads EXCEPT ![t].at = "lines", ![t].done = Append(@, threads[t].taken[1][2])]
  /\ UNCHANGED <<reader, tasks, place>>

(* The string is another thread's, which has freed it meanwhile.           *)
FreedToken(t) ==
  /\ Takes(t) /\ place.thread # t /\ threads[place.thread].at # "tokens"
  /\ Len(threads[t].taken) < MaxTokens
  /\ threads' = [threads EXCEPT ![t].taken = Append(@, <<0, 0, 0>>)]
  /\ UNCHANGED <<reader, tasks, place>>

(* vpu_proc_parser returns -1, or another thread has stopped the task.     *)
ThreadStops(t) ==
  /\ Alive(t) /\ threads[t].at = "lines"
  /\ ~tasks[MyTask(t)].running \/ (tasks[MyTask(t)].pos > 0 /\ ~HasLine(t))
  /\ threads' = [threads EXCEPT ![t].at = "stopped"]
  /\ tasks' = [tasks EXCEPT ![MyTask(t)].running = FALSE, ![MyTask(t)].pos = 0]
  /\ UNCHANGED <<reader, place>>

(* A parser without a context, when another thread has released it, a task *)
(* that was freed, or a text that is gone from where the thread reads it.  *)
ThreadCrashes(t) ==
  /\ Between(t) \/ Takes(t)
  /\ \/ tasks[MyTask(t)].pos = 0 \/ tasks[MyTask(t)].state = "freed"
     \/ tasks[MyTask(t)].moved
  /\ pc' = "crashed"
  /\ UNCHANGED <<text, line, inside, index, task, table, tasks, threads, place>>
-----------------------------------------------------------------------------
Main ==
  \/ TaskStart \/ TaskStartFails \/ CommandLine \/ TaskEnd \/ EndOfScript
  \/ Join \/ Release

Thread(t) ==
  \/ ThreadStarts(t) \/ ThreadLine(t) \/ FirstToken(t) \/ NextToken(t)
  \/ LastToken(t) \/ FreedToken(t) \/ ThreadStops(t) \/ ThreadCrashes(t)

MaxThreads == MaxTask + 1

Next == Main \/ \E t \in 1..MaxThreads : Thread(t)

(* Threads are the scheduler's: each gets its turn.                        *)
Spec ==
  /\ Init /\ [][Next]_vars
  /\ WF_vars(Main) /\ \A t \in 1..MaxThreads : WF_vars(Thread(t))
-----------------------------------------------------------------------------
(* Properties.                                                             *)

(* Every variable has its type.                                            *)
TasksTypeOK ==
  /\ pc \in {"reading", "joining", "done", "crashed"}
  /\ line \in 0..(Len(text) + 1) \union 0..MaxTask
  /\ index \in 0..Len(threads) /\ task \in 0..Len(tasks)
  /\ \A i \in DOMAIN table : table[i] \in 0..Len(tasks)
  /\ \A k \in DOMAIN tasks :
       /\ tasks[k].handle \in 0..Len(threads) /\ tasks[k].filled \in Nat
       /\ tasks[k].pos \in 0..(Len(tasks[k].text) + 1)
       /\ tasks[k].state \in {"built", "freed"}
       /\ {tasks[k].buffer, tasks[k].moved, tasks[k].lost} \subseteq BOOLEAN
  /\ \A t \in DOMAIN threads :
       threads[t].task \in 1..Len(tasks)
         /\ threads[t].at \in {"new", "lines", "tokens", "stopped"}

(* The lines of the k-th block of a script: from its start up to its end.  *)
StartOf(k) == SelectSeq([i \in DOMAIN text |-> i], LAMBDA i : text[i].kind = "start")[k]
Block(k) == {i \in DOMAIN text : StartOf(k) <= i
              /\ \A j \in StartOf(k)..i : text[j].kind # "end"}

(* A thread that has stopped has executed every line of its block, in the  *)
(* order of the script, and no other, however the threads and the reading  *)
(* of the rest of the script were interleaved.                             *)
RunsItsBlock ==
  \A t \in DOMAIN threads :
    threads[t].at = "stopped" =>
      /\ ToSet(threads[t].done) = Block(t)
      /\ \A i, j \in DOMAIN threads[t].done :
           i < j => threads[t].done[i] < threads[t].done[j]

(* No task is freed while a thread works on it.                            *)
FreedAfterStop ==
  \A t \in DOMAIN threads :
    tasks[threads[t].task].state = "freed" => threads[t].at = "stopped"

(* When a script without a block in a block is over every task is freed,   *)
(* whatever failed, and the text of every task with it but of one: a       *)
(* failed realloc loses the text of the last task, and ends the reading.   *)
EverythingFreed ==
  pc = "done" =>
    \A k \in DOMAIN tasks :
      /\ tasks[k].state = "freed"
      /\ tasks[k].lost => k = Len(tasks) /\ ~tasks[k].buffer

(* A script of complete blocks comes to its end.                           *)
ScriptReturns == <>(pc = "done")

================================================================================
