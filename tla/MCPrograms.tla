------------------------------- MODULE MCPrograms --------------------------------
(* The setups of the parts of Programs.                                    *)
EXTENDS Programs

(* Scripts for ScriptProcess: as the comment at the head of                *)
(* vpu_script_process.c writes them, and small ones that repeat and time   *)
(* nothing but "wait".                                                     *)

Do(command) == <<[op |-> command]>>
Read == <<[op |-> "readfile", withsize |-> FALSE]>>
ReadSized == <<[op |-> "readfile", withsize |-> TRUE]>>
Repeat(n, body) == <<[op |-> "repeat_start", n |-> n]>> \o body \o Do("repeat_end")
Timed(body) == Do("timecheck_start") \o body \o Do("timecheck_end")
Start == Do("other")            \* the line "task_start" itself
Wait == Do("other")
Open == Do("contents") \o Do("dump") \o Do("vdec_alloc") \o Do("vdec_init")
Done == Do("vdec_close") \o Do("vdec_release")
Header == Do("vdec_seqheader")
Decode == Do("vdec_decode") \o Do("vdec_clear_buffer")

(* The script of the comment: the header first, then pictures to the end.  *)
Documented == Start \o Open \o Read \o Header \o Repeat(-1, Decode \o Read) \o Done

Looped(read) == Start \o Open \o Repeat(-1, read \o Header \o Timed(Decode)) \o Done
Counted(n) == Start \o Open \o Repeat(n, Read \o Header \o Decode) \o Done
Sessions(n) == Start \o Repeat(2, Open \o Repeat(n, Read \o Header \o Decode) \o Done)
Single == Start \o Open \o Read \o Header \o Decode \o Do("vdec_close")
Nested(a, b, c) == Repeat(a, Timed(Wait) \o Repeat(b, Timed(Timed(Wait))) \o Repeat(c, Wait))
Twice(a, b) == Repeat(a, Wait) \o Timed(Repeat(b, Timed(Wait)))

Counts == {0, 1, 3}
Decoding ==
  {Documented, Looped(Read), Looped(ReadSized), Single}
    \union {Counted(n) : n \in Counts} \union {Sessions(n) : n \in {-1, 2}}
Repeating ==
  {Nested(a, b, c) : a \in Counts, b \in Counts, c \in Counts}
    \union {Twice(a, b) : a \in Counts, b \in Counts}

(* As deep as MAX_REPEAT_DEPTH, after another repetition.                  *)
Deep == Repeat(2, Wait) \o Repeat(1, Repeat(1, Repeat(1, Repeat(1, Wait))))

(* Texts of tasks for ScriptTasks: lines by their kind and length, and the *)
(* number of their parameters.                                             *)
Line(kind, length) == <<[kind |-> kind, length |-> length, args |-> 0]>>
Task(body) == Line("start", 2) \o body \o Line("end", 2)
Plain == Line("command", 3)
With(args) == <<[kind |-> "command", length |-> 3, args |-> args]>>

Tasks2 ==
  {Task(With(2)) \o Plain \o Task(With(2)),
   Task(Plain \o With(3)) \o Task(With(1)) \o Plain,
   Plain \o Task(Plain \o Plain) \o Line("end", 2) \o Task(Plain),
   Task(<<>>) \o Task(<<>>)}
Tasks3 == {Task(With(2)) \o Task(Plain) \o Task(With(1))}
Unfinished == {Task(Plain) \o Line("start", 2) \o Plain}
Long == {Line("start", 5) \o Plain \o Line("end", 2)}
-----------------------------------------------------------------------------
(* The setups.                                                             *)

MCScript ==
  [scripts |-> Decoding \union Repeating, tails |-> {"nul"}, wrappers |-> {"vdec", "tcodec"},
   units |-> {0, 1, 2, 3, 5}, codecs |-> {"mjpeg", "nal"}, depth |-> 4, execs |-> 30,
   faults |-> {"init"}]

MCScriptFaults ==
  [scripts |-> {Counted(1), Sessions(2), Twice(1, 2), Deep}, tails |-> {"nul", "garbage"},
   wrappers |-> {"vdec", "tcodec"}, units |-> {0, 5}, codecs |-> {"nal"}, depth |-> 4,
   execs |-> 4, faults |-> {"contents", "alloc", "init"}]

MCTask ==
  [texts |-> Tasks2 \union Tasks3, tasks |-> 3, alloc |-> 4, tokens |-> 4, faults |-> {}]

MCTaskFaults ==
  [texts |-> Unfinished \union Long \union Tasks2, tasks |-> 2, alloc |-> 4, tokens |-> 2,
   faults |-> {"malloc", "realloc"}]

MCQuit ==
  [kinds |-> <<"decoder", "decoder">>, frames |-> -1, faults |-> {"init"}]

MCAuto == [kinds |-> <<"decoder", "encoder", "decoder">>, frames |-> 2,
           faults |-> {"file", "init", "header", "read", "code"}]

MCVpu == [kinds |-> <<"encoder", "decoder">>, codecs |-> {"h264", "mpeg4", "mjpeg"},
          pictures |-> 3, stops |-> {0, 2}, iterations |-> {0, 1}, faults |-> {}]

MCVpuDecoder ==
  [kinds |-> <<"decoder">>, codecs |-> {"h264", "h263", "mpeg4", "mjpeg"}, pictures |-> 3,
   stops |-> {0, 1, 3}, iterations |-> {0, 2}, faults |-> {"file", "create", "init"}]

MCVpuFaults ==
  [kinds |-> <<"encoder", "decoder">>, codecs |-> {"h264"}, pictures |-> 1, stops |-> {0},
   iterations |-> {0, 1},
   faults |-> {"context", "file", "create", "init", "memory", "mem", "map", "size", "header",
               "encode"}]

MCLone ==
  [operations |-> {"push", "update", "clear", "drop", "flush", "window", "reset"},
   windows |-> {1, 2}, misuses |-> {"no_callback"}, pushes |-> 3, calls |-> 6]

MCAudio ==
  [codecs |-> {"aac", "mp3", "pcm", "ddp"}, withData |-> {"aac"}, channels |-> {1, 2},
   faults |-> {"load", "open", "set", "init", "stream"}, misuses |-> {"deinit", "decode"},
   frame |-> 2, chunk |-> 3, units |-> 6, calls |-> 4, handles |-> 2]

================================================================================
