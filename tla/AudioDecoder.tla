------------------------------ MODULE AudioDecoder -------------------------------
(***************************************************************************)
(* The audio decoder (audio_decoder.c), the plugin interface that loads    *)
(* its four plugins, and what the plugins keep between two calls: the end  *)
(* of the stream that was too short for the codec library.                 *)
(*                                                                         *)
(* The stream is a sequence of units; the libraries, which are not in the  *)
(* tree, take a frame of them at a time.  Calls come from one thread, one  *)
(* Init for each handle; a call into a library that is not loaded ends a   *)
(* handle's behaviour.  Channel orders and codec parameters are data.      *)
(***************************************************************************)
EXTENDS Integers, Sequences

CONSTANTS
  Codecs,      \* "aac", "mp3", "pcm", "ddp"; others are not supported
  WithData,    \* the codecs that are given codec data
  Channels,    \* channels the library puts out
  Faults,      \* "load", "open", "set", "init", "stream"
  Misuses,     \* calls after a failed Init: "deinit", "decode"
  FrameUnits,  \* units in a frame, of all codecs but PCM
  MaxChunk, MaxUnits, MaxCalls, MaxHandles  \* bounds

AudioConstants ==
  /\ WithData \subseteq Codecs /\ Channels \subseteq 1..8
  /\ Faults \subseteq {"load", "open", "set", "init", "stream"}
  /\ Misuses \subseteq {"deinit", "decode"}
  /\ FrameUnits \in Nat \ {0}
  /\ {MaxChunk, MaxUnits, MaxCalls, MaxHandles} \subseteq Nat

VARIABLES
  handle,      \* "none", "created", "working", "failed", "deinited", "lost"
  eCodec,
  hPlugin_IF,  \* the plugin's library is loaded
  ptPluginDesc, \* where it points: "null", "loaded", "unloaded"
  plugin,      \* its memory, see Opened, or NoPlugin
  channels,    \* m_uiNumberOfChannel of the output
  ret,         \* what the last Decode returned
  calls, handles,
  given,       \* history: units given since Init
  start,       \* history: units given when the stream was last dropped
  decoded,     \* history: units decoded since then
  frames,      \* history: first units of the frames of successful calls
  heard,       \* history: first units of the frames the caller was given
  used,        \* history: where ptPluginDesc pointed when it was last used
  leaked       \* history: what was left when a handle was destroyed

history == <<given, start, decoded, frames, heard>>
vars == <<handle, eCodec, hPlugin_IF, ptPluginDesc, plugin, channels, ret, calls, handles,
          history, used, leaked>>

NoPlugin == [open |-> FALSE, decoder |-> FALSE, data |-> FALSE,
             pucStream |-> <<>>, uiOffset |-> 0, uiStreamLen |-> 0]

Init ==
  /\ handle = "none" /\ eCodec = "none" /\ hPlugin_IF = FALSE /\ ptPluginDesc = "null"
  /\ plugin = NoPlugin /\ channels = 2 /\ ret = "none" /\ calls = 0 /\ handles = 0
  /\ given = 0 /\ start = 0 /\ decoded = <<>> /\ frames = <<>> /\ heard = <<>>
  /\ used = "loaded" /\ leaked = {}
-----------------------------------------------------------------------------
(* The life of a handle.                                                   *)

AudioDecoder_Create ==
  /\ handle = "none" /\ handles < MaxHandles
  /\ handle' = "created" /\ handles' = handles + 1
  /\ eCodec' = "none" /\ hPlugin_IF' = FALSE /\ ptPluginDesc' = "null" /\ plugin' = NoPlugin
  /\ given' = 0 /\ start' = 0 /\ decoded' = <<>> /\ frames' = <<>> /\ heard' = <<>>
  /\ calls' = 0 /\ ret' = "none"
  /\ UNCHANGED <<channels, used, leaked>>

(* decoder_plugin_interface_Load: no library, or none with a descriptor.   *)
LoadFails == hPlugin_IF' = FALSE /\ ptPluginDesc' = "null" /\ plugin' = NoPlugin

(* The plugin's codec library is missing: the plugin is unloaded.          *)
OpenFails == hPlugin_IF' = FALSE /\ ptPluginDesc' = "unloaded" /\ plugin' = NoPlugin

Opened(c, inited) ==
  /\ hPlugin_IF' = TRUE /\ ptPluginDesc' = "loaded"
  /\ plugin' = [NoPlugin EXCEPT !.open = TRUE, !.decoder = inited, !.data = (c \in WithData)]

(* An unknown codec fails before anything is loaded; an unsupported        *)
(* profile or a library that refuses leaves the plugin open.               *)
AudioDecoder_Init(c) ==
  /\ handle = "created"
  /\ eCodec' = c
  /\ \/ c \notin Codecs /\ handle' = "failed" /\ UNCHANGED <<hPlugin_IF, ptPluginDesc, plugin>>
     \/ c \in Codecs /\ "load" \in Faults /\ handle' = "failed" /\ LoadFails
     \/ c \in Codecs /\ "open" \in Faults /\ handle' = "failed" /\ OpenFails
     \/ c = "aac" /\ c \in Codecs /\ "set" \in Faults /\ handle' = "failed" /\ Opened(c, FALSE)
     \/ c \in Codecs /\ "init" \in Faults /\ handle' = "failed" /\ Opened(c, FALSE)
     \/ c \in Codecs /\ handle' = "working" /\ Opened(c, TRUE)
  /\ channels' \in Channels
  /\ UNCHANGED <<ret, calls, handles, history, used, leaked>>

(* The plugin's Deinit: only AAC's frees the codec data.                   *)
Deinited(c, p) ==
  [NoPlugin EXCEPT !.open = p.open, !.data = (p.data /\ c # "aac")]

AudioDecoder_Deinit ==
  /\ \/ handle = "working"
     \/ handle = "failed" /\ "deinit" \in Misuses
  /\ IF ptPluginDesc = "null"
     THEN UNCHANGED <<plugin, used>>
     ELSE used' = ptPluginDesc /\ plugin' = Deinited(eCodec, plugin)
  /\ handle' = IF used' = "unloaded" THEN "lost" ELSE "deinited"
  /\ UNCHANGED <<eCodec, hPlugin_IF, ptPluginDesc, channels, ret, calls, handles, history, leaked>>

(* Close frees the plugin and nothing it points to.                        *)
Left(p) ==
  (IF p.data THEN {"data"} ELSE {})
    \union (IF p.decoder THEN {"decoder"} ELSE {})
    \union (IF p.pucStream # <<>> THEN {"stream"} ELSE {})

AudioDecoder_Destroy ==
  /\ handle \in {"created", "failed", "deinited"}
  /\ used' = IF plugin.open THEN ptPluginDesc ELSE used
  /\ leaked' = leaked \union {<<what, handle>> : what \in Left(plugin)}
  /\ handle' = "none" /\ plugin' = NoPlugin /\ hPlugin_IF' = FALSE /\ ptPluginDesc' = "null"
  /\ UNCHANGED <<eCodec, channels, ret, calls, handles, history>>
-----------------------------------------------------------------------------
(* A Decode.                                                               *)

Units(c) == IF c = "pcm" THEN 1 ELSE FrameUnits

Chunk(n) == [i \in 1..n |-> given + i]

(* Mutant: the old buffer is copied from its beginning.                    *)
Appended_FromStart(p, chunk) == SubSeq(p.pucStream, 1, p.uiStreamLen) \o chunk

(* The rest of the last call goes before the new units.                    *)
Appended(p, chunk) ==
  SubSeq(p.pucStream, p.uiOffset + 1, p.uiOffset + p.uiStreamLen) \o chunk

(* The library takes k frames; why it stops.                               *)
Library(stream, k, why) ==
  LET rest == Len(stream) - k * Units(eCodec) IN
    /\ rest >= 0
    /\ why = CASE rest = 0              -> "end"
               [] rest >= Units(eCodec) -> "error"
               [] OTHER                 -> why
    /\ why = "error" => "stream" \in Faults

(* What the library did not take stays in the plugin.                      *)
Kept(p, stream, k) ==
  LET taken == k * Units(eCodec) IN
    IF taken = Len(stream)
    THEN [p EXCEPT !.pucStream = <<>>, !.uiOffset = 0, !.uiStreamLen = 0]
    ELSE [p EXCEPT !.pucStream = stream, !.uiOffset = taken, !.uiStreamLen = Len(stream) - taken]

FirstUnits(stream, k) == [i \in 1..k |-> stream[(i - 1) * Units(eCodec) + 1]]

(* Only two channels are ever put out.                                     *)
PutOut(stream, k, why) == IF channels = 2 /\ why # "error" THEN FirstUnits(stream, k) ELSE <<>>

(* Nothing given and nothing left: no memory is allocated, an error.       *)
Decode_Empty ==
  /\ plugin.uiStreamLen = 0
  /\ ret' = "decoding_fail" /\ used' = ptPluginDesc
  /\ UNCHANGED <<plugin, given, start, decoded, frames, heard>>

Decode_Stream(n) ==
  \E k \in 0..MaxUnits, why \in {"end", "more", "error"} :
    LET stream == Appended(plugin, Chunk(n)) IN
      /\ Library(stream, k, why)
      /\ given' = given + n /\ used' = ptPluginDesc
      /\ heard' = heard \o PutOut(stream, k, why)
      /\ IF why = "error"
         THEN /\ plugin' = [plugin EXCEPT !.pucStream = <<>>, !.uiOffset = 0, !.uiStreamLen = 0]
              /\ start' = given' /\ decoded' = <<>> /\ UNCHANGED frames
              /\ ret' = "decoding_fail"
         ELSE /\ plugin' = Kept(plugin, stream, k)
              /\ decoded' = decoded \o SubSeq(stream, 1, k * Units(eCodec))
              /\ frames' = frames \o FirstUnits(stream, k)
              /\ ret' = "none" /\ UNCHANGED start

AudioDecoder_Decode(n) ==
  /\ handle = "working" /\ calls < MaxCalls /\ given + n <= MaxUnits
  /\ calls' = calls + 1
  /\ IF n = 0 /\ plugin.uiStreamLen = 0 THEN Decode_Empty ELSE Decode_Stream(n)
  /\ UNCHANGED <<handle, eCodec, hPlugin_IF, ptPluginDesc, channels, handles, leaked>>

(* After a failed Init the codec is set, whatever else is: the plugin is   *)
(* called where there is one, and its library has no decoder.              *)
AudioDecoder_DecodeFailed ==
  /\ handle = "failed" /\ "decode" \in Misuses
  /\ used' = ptPluginDesc
  /\ IF used' = "loaded"
     THEN ret' = "decoding_fail" /\ UNCHANGED handle
     ELSE handle' = "lost" /\ UNCHANGED ret
  /\ UNCHANGED <<eCodec, hPlugin_IF, ptPluginDesc, plugin, channels, calls, handles, history,
                 leaked>>

Next ==
  \/ AudioDecoder_Create
  \/ \E c \in Codecs \union {"other"} : AudioDecoder_Init(c)
  \/ \E n \in 0..MaxChunk : AudioDecoder_Decode(n)
  \/ AudioDecoder_DecodeFailed
  \/ AudioDecoder_Deinit
  \/ AudioDecoder_Destroy

Spec == Init /\ [][Next]_vars
-----------------------------------------------------------------------------
(* The type of the variables; a plugin is open only while it is loaded.    *)
AudioTypeOK ==
  /\ handle \in {"none", "created", "working", "failed", "deinited", "lost"}
  /\ eCodec \in Codecs \union {"none", "other"} /\ channels \in Channels \union {2}
  /\ ptPluginDesc \in {"null", "loaded", "unloaded"}
  /\ plugin.open => hPlugin_IF /\ ptPluginDesc = "loaded"
  /\ plugin.uiOffset + plugin.uiStreamLen <= Len(plugin.pucStream)
  /\ ret \in {"none", "decoding_fail"}

(* Since the stream was last dropped every unit is decoded once and in     *)
(* order, however it was cut into calls: "Previous input stream data is    *)
(* copied so there is no longer needed" (the plugins' Decode); a call that *)
(* fails leaves nothing of the stream behind.                              *)
InputInOrder ==
  handle = "working" =>
    /\ ret = "decoding_fail" => plugin.uiStreamLen = 0
    /\ decoded \o SubSeq(plugin.pucStream, plugin.uiOffset + 1, plugin.uiOffset + plugin.uiStreamLen)
         = [i \in 1..(given - start) |-> start + i]

(* The caller hears the frames of the calls that succeed, and of no other. *)
HeardInOrder == handle = "working" => heard = IF channels = 2 THEN frames ELSE <<>>

(* When a handle that was initialised has been deinitialised and           *)
(* destroyed, nothing it allocated is left (the plugins' Deinit, Close).   *)
NothingLeft == \A l \in leaked : l[2] # "deinited"

================================================================================
