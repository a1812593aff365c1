------------------------------- MODULE MCFailures --------------------------------
(* The setups of the parts of Failures.                                    *)
EXTENDS Failures

MCEncoder == [codecs |-> {"h264", "mjpeg", "dummy"}, inits |-> 2, frames |-> 2,
              faults |-> {"load", "drivers", "alloc", "command", "fetch"}]

(* Two handles and few pictures.                                           *)
MCOld == [handles |-> {"h1", "h2"}, codecs |-> {"vpu", "hevc", "4kd2"}, indices |-> {0, 1},
          inits |-> 2, pictures |-> {1}, minFrames |-> 1, extras |-> {1}, avail |-> 2,
          maxFrames |-> 4, faults |-> {"open", "alloc", "init", "header", "close"}]

(* One handle and all decoders.                                            *)
MCOldStream == [handles |-> {"h1"}, codecs |-> {"vpu", "hevc", "4kd2", "mjpeg"},
                indices |-> {0}, inits |-> 2, pictures |-> {1, 2, 3}, minFrames |-> 2,
                extras |-> {1, 3}, avail |-> 6, maxFrames |-> 4,
                faults |-> {"open", "frames", "decode", "header"}]

(* Two decoders, one instance and few descriptors; the other conditions    *)
(* are those of the run of MCDrivers.                                      *)
MCDriverParts == [decoders |-> {"d1", "d2"}, instances |-> 1, descriptors |-> 0..5,
                  faults |-> {"mgr", "vpu", "mem", "mode", "device"}]

================================================================================
