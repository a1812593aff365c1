------------------------------- MODULE FrameSkip --------------------------------
(***************************************************************************)
(* Which pictures a decoder asks its driver to skip when it starts in the  *)
(* middle of a stream: the legacy plugins' frame skipping                  *)
(* (decoder_plugin_video_frame.c) and that of the old vdec plugin, which   *)
(* it was taken from.  Init asks for a search of an I picture; the result  *)
(* of every picture moves the mode on; the mode sets three parameters of   *)
(* the next decode command.                                                *)
(*                                                                         *)
(* The stream is a group of pictures in decoding order, repeated, and may  *)
(* be entered anywhere.  A picture is a frame or two fields, each of them  *)
(* decoded by a call.  What the driver skips follows vdec_common.h.        *)
(***************************************************************************)
EXTENDS Integers, Sequences

CONSTANTS
  FramePlugins,  \* plugins given streams of frames: "legacy", "vdec"
  FieldPlugins,  \* plugins given streams of field pictures
  Codecs,        \* "h264", "h265", "other"
  Gops,          \* sequences of "IDR", "I", "P" and "B"
  MaxFull        \* times the driver has no room for the next picture (bound)

(* A B picture has two references: it is not the one after an IDR picture. *)
IsGop(g) ==
  /\ g \in Seq({"IDR", "I", "P", "B"}) /\ \E i \in 1..Len(g) : g[i] \in {"I", "IDR"}
  /\ \A i \in 1..Len(g) : g[i] = "IDR" => g[(i % Len(g)) + 1] # "B"

SkipConstants ==
  /\ FramePlugins \subseteq {"legacy", "vdec"} /\ FieldPlugins \subseteq {"legacy", "vdec"}
  /\ Codecs \subseteq {"h264", "h265", "other"}
  /\ \A g \in Gops : IsGop(g)
  /\ MaxFull \in Nat

VARIABLES
  plugin, codec, gop, fields,  \* what was opened; they do not change
  skip,    \* ptFrameSkip: eFrameSkipMode and the parameters it sets
  pos,     \* the picture the caller has next
  second,  \* the type of the second field, when it is next, or "none"
  fulls,   \* times the driver was full
  refs,    \* history: whole reference pictures decoded in a row, up to 2
  broken,  \* history: a picture was decoded without its references
  lost     \* history: a picture with its references was skipped

stream == <<plugin, codec, gop, fields>>
vars == <<stream, skip, pos, second, fulls, refs, broken, lost>>
-----------------------------------------------------------------------------
(* The modes.                                                              *)

Parameters(mode, num, frameMode, search) ==
  [eFrameSkipMode |-> mode, iSkipFrameNum |-> num,
   iSkipFrameMode |-> frameMode, iFrameSearchEnable |-> search]

(* video_plugin_frame_set_frame_skip_mode, all but NEXT_STEP.              *)
SetFrameSkipMode(mode, c) ==
  CASE mode \in {"NONE", "NEXT_B_SKIP", "B_WAIT"} -> Parameters(mode, 0, "disable", "off")
    [] mode = "NONIDR_SEARCH"                     -> Parameters("I_SEARCH", 0, "disable", "nonidr")
    [] mode = "I_SEARCH"                          -> Parameters("I_SEARCH", 0, "disable",
                                                       IF c = "h264" THEN "nonidr" ELSE "idr")
    [] mode = "B_SKIP"                            -> Parameters("B_SKIP", 1, "only_b", "off")

(* The mode the plugin's Init asks for.                                    *)
FirstMode(p, c) ==
  SetFrameSkipMode(IF (p = "legacy" /\ c = "h265") \/ (p = "vdec" /\ c # "h264")
                   THEN "I_SEARCH" ELSE "NONIDR_SEARCH", c)

(* Of the two fields of an H.264 picture the second counts if it is known. *)
GetFrameType(c, r) ==
  IF c = "h264" /\ fields /\ r.lower # "none" THEN r.lower ELSE r.upper

(* What each plugin passes for the decoding status: the legacy plugin      *)
(* passes the status of the output.                                        *)
DecodingStatus(p, r) == IF p = "legacy" THEN r.output ELSE r.status

(* Mutant: no picture is skipped after the search.                         *)
NextMode_NoSkip(mode, c, status, type) == "NONE"

(* NEXT_STEP.                                                              *)
NextMode(mode, c, status, type) ==
  CASE mode = "I_SEARCH" /\ c = "h265" -> "B_WAIT"
    [] mode = "I_SEARCH" /\ c # "h265" -> IF status = "field" THEN "NEXT_B_SKIP" ELSE "B_SKIP"
    [] mode = "NEXT_B_SKIP"            -> "B_SKIP"
    [] mode = "B_SKIP"                 -> IF type # "B" THEN "NONE" ELSE mode
    [] mode = "B_WAIT"                 -> IF type = "B" THEN "NONE" ELSE mode

(* A result moves the mode on if a picture was decoded.                    *)
FillDecodingResult(r) ==
  skip' = IF skip.eFrameSkipMode # "NONE" /\ r.idx >= 0
          THEN SetFrameSkipMode(NextMode(skip.eFrameSkipMode, codec, DecodingStatus(plugin, r),
                                         GetFrameType(codec, r)), codec)
          ELSE skip
-----------------------------------------------------------------------------
(* What the next command asks the driver to skip.                          *)

Type == IF second = "none" THEN gop[pos] ELSE second

(* Only H.264 tells an IDR picture; HEVC's driver is told to skip all but  *)
(* I pictures.                                                             *)
Request ==
  CASE skip.iFrameSearchEnable = "off"                      -> IF skip.iSkipFrameNum > 0
                                                               THEN skip.iSkipFrameMode ELSE "disable"
    [] skip.iFrameSearchEnable = "idr" /\ codec = "h264"    -> "except_idr"
    [] OTHER                                                -> "except_i"

Skipped ==
  \/ Request = "except_i" /\ Type \notin {"I", "IDR"}
  \/ Request = "except_idr" /\ Type # "IDR"
  \/ Request = "only_b" /\ Type = "B"

Decodable ==
  \/ Type \in {"I", "IDR"}
  \/ second # "none"  \* the first field was decoded or skipped with it
  \/ Type = "P" /\ refs > 0
  \/ Type = "B" /\ refs = 2

(* An HEVC decoder drops leading pictures itself.                          *)
Dropped == codec = "h265" /\ Type = "B" /\ ~Decodable

Result(status, output, idx, lower) ==
  [status |-> status, output |-> output, idx |-> idx, upper |-> gop[pos], lower |-> lower]

NextPicture == pos' = (pos % Len(gop)) + 1 /\ second' = "none"

DriverSkips ==
  /\ Skipped \/ Dropped
  /\ \E out \in {"success", "fail"} : FillDecodingResult(Result("success", out, -2, "none"))
  /\ IF fields /\ second = "none" THEN second' = gop[pos] /\ UNCHANGED pos ELSE NextPicture
  /\ lost' = (lost \/ (Decodable /\ second = "none"))
  /\ UNCHANGED <<stream, fulls, refs, broken>>

(* The second field of an I picture may be a P field.                      *)
SecondTypes == IF gop[pos] \in {"I", "IDR"} THEN {"I", "P"} ELSE {gop[pos]}

DriverDecodes ==
  /\ ~Skipped /\ ~Dropped
  /\ broken' = (broken \/ ~Decodable)
  /\ \E out \in {"success", "fail"} :
       IF fields /\ second = "none"
       THEN \E t \in SecondTypes, lower \in SecondTypes \union {"none"} :
              /\ lower \in {t, "none"}
              /\ second' = t /\ UNCHANGED <<pos, refs>>
              /\ FillDecodingResult(Result("field", out, 0, lower))
       ELSE /\ FillDecodingResult(Result("success", out, 0, Type))
            /\ refs' = CASE gop[pos] = "IDR" -> 1
                         [] gop[pos] = "B"   -> refs
                         [] OTHER            -> IF refs < 2 THEN refs + 1 ELSE 2
            /\ NextPicture
  /\ UNCHANGED <<stream, fulls, lost>>

(* The caller gives the picture again.                                     *)
DriverFull ==
  /\ fulls < MaxFull /\ fulls' = fulls + 1
  /\ FillDecodingResult(Result("full", "fail", -1, "none"))
  /\ UNCHANGED <<stream, pos, second, refs, broken, lost>>

Init ==
  /\ gop \in Gops /\ codec \in Codecs
  /\ \/ plugin \in FramePlugins /\ fields = FALSE
     \/ plugin \in FieldPlugins /\ fields = TRUE /\ codec # "h265"
  /\ pos \in 1..Len(gop)
  /\ skip = FirstMode(plugin, codec)
  /\ second = "none" /\ fulls = 0 /\ refs = 0 /\ broken = FALSE /\ lost = FALSE

Next == DriverSkips \/ DriverDecodes \/ DriverFull

(* The caller goes on with its stream.                                     *)
Spec == Init /\ [][Next]_vars /\ WF_vars(DriverSkips \/ DriverDecodes)
-----------------------------------------------------------------------------
(* The type of the variables: the parameters of a command follow the mode. *)
SkipTypeOK ==
  /\ plugin \in {"legacy", "vdec"} /\ codec \in Codecs /\ gop \in Gops
  /\ pos \in 1..Len(gop) /\ second \in {"none", "I", "IDR", "P", "B"} /\ refs \in 0..2
  /\ skip \in {SetFrameSkipMode(m, codec) : m \in {"NONE", "NEXT_B_SKIP", "B_WAIT", "B_SKIP"}}
              \union {FirstMode(plugin, codec)}

(* Wherever the stream is entered, no picture is decoded before the ones   *)
(* it refers to: the B pictures behind the first I picture are skipped     *)
(* (NEXT_STEP).                                                            *)
NoneBroken == ~broken

(* No picture that can be decoded is skipped: the search ends at the first *)
(* I picture, and the skipping of B pictures with the second reference     *)
(* (NEXT_STEP).                                                            *)
NoneLost == ~lost

(* In the end nothing is skipped any more (NEXT_STEP).                     *)
SkippingEnds == <>[](Request = "disable")

================================================================================
