--------------------------- MODULE Failures_proofs -----------------------------
(***************************************************************************)
(* Proofs about Failures, and PluginBuffers in it, for every value of the  *)
(* constants: any codecs, sizes and frame counts, any number of sequence   *)
(* headers, frames, handles and inits, and any set of failing steps but    *)
(* those OldCovered names.  What a decoder's plugin copies and registers   *)
(* has a place, every component gives back what it took, and what is coded *)
(* or decoded is the picture that was given.                               *)
(***************************************************************************)
EXTENDS Failures, SequenceTheorems, FiniteSetTheorems, TLAPS


------------------------------------------------------------------------------
(* The inductive invariant.                                                *)

(* A bitstream buffer with a size was granted, and has an address.         *)
StreamInv ==
  /\ stream.va = "mapped" => stream.size = StreamSize
  /\ stream.size # 0 /\ calls = "working" =>
       stream.va # "null" /\ <<"stream", 0>> \in granted

(* What is mapped: the bitstream buffer at its size, and frames of no       *)
(* later header than frameVa; those of frameVa at the size the plugin has  *)
(* noted, unless a header behind it noted another.                         *)
MapsInv ==
  calls # "deinited" =>
    /\ \A m \in maps : m.id = 0 => stream.va = "mapped" /\ m.size = StreamSize
    /\ \A m \in maps : m.id # 0 =>
         m.id <= frameVa /\ (m.id = frameVa => sized > frameVa \/ m.size = iFrameBufferSize)
    /\ frameVa # 0 =>
         sized > frameVa \/ [id |-> frameVa, size |-> iFrameBufferSize] \in maps
    /\ frameVa <= sized
    /\ unmapped = NothingUnmapped

OpenInv ==
  calls = "open" =>
    /\ maps = {} /\ granted = {} /\ headers = 0 /\ frameVa = 0
    /\ stream = [va |-> "null", size |-> 0] /\ ret = "none"

BufInv ==
  BufTypeOK /\ StreamInv /\ MapsInv /\ OpenInv /\ FramesInMapping /\ DeinitReleases

------------------------------------------------------------------------------
(* The least of two and of three numbers.                                  *)

LEMMA LeastOfTwo ==
  ASSUME NEW a \in Int, NEW b \in Int
  PROVE  Least({a, b}) = IF a <= b THEN a ELSE b
<1> DEFINE P(x) == x \in {a, b} /\ \A y \in {a, b} : x <= y
           z == IF a <= b THEN a ELSE b
<1>1. P(z)
  OBVIOUS
<1>2. \A x : P(x) => x = z
  OBVIOUS
<1>3. P(Least({a, b}))
  BY <1>1 DEF Least
<1> QED
  BY <1>2, <1>3

LEMMA LeastOfThree ==
  ASSUME NEW a \in Int, NEW b \in Int, NEW c \in Int
  PROVE  /\ Least({a, b, c}) \in {a, b, c}
         /\ Least({a, b, c}) <= a /\ Least({a, b, c}) <= b /\ Least({a, b, c}) <= c
<1> DEFINE P(x) == x \in {a, b, c} /\ \A y \in {a, b, c} : x <= y
<1>1. \E x : P(x)
  <2>1. CASE a <= b /\ a <= c
    <3>1. P(a)
      BY <2>1
    <3> QED
      BY <3>1
  <2>2. CASE b <= a /\ b <= c
    <3>1. P(b)
      BY <2>2
    <3> QED
      BY <3>1
  <2>3. CASE c <= a /\ c <= b
    <3>1. P(c)
      BY <2>3
    <3> QED
      BY <3>1
  <2> QED
    BY <2>1, <2>2, <2>3
<1>2. P(Least({a, b, c}))
  BY <1>1 DEF Least
<1> QED
  BY <1>2

(* A header is cut to what fits, and nothing is copied past the end.       *)
LEMMA HeaderFits ==
  ASSUME BufferConstants, BufTypeOK, StreamInv, NEW len \in 1..(StreamSize + 1)
  PROVE  /\ HeaderLength(len) \in Nat /\ HeaderLength(len) <= stream.size
         /\ HeaderLength(len) # 0 => stream.size # 0
<1>1. stream.size \in Nat /\ len \in Nat \ {0}
  BY DEF BufTypeOK, BufferConstants
<1>2. HeaderLength(len) = IF len <= stream.size THEN len ELSE stream.size
  BY <1>1, LeastOfTwo DEF HeaderLength
<1> QED
  BY <1>1, <1>2

LEMMA CopyFits ==
  ASSUME BufferConstants, BufTypeOK, StreamInv, NEW len \in Nat,
         stream.va = "mapped" => len <= stream.size
  PROVE  CopyTo(len) = IF stream.va = "mapped" THEN "buffer" ELSE stream.va
<1>1. stream.size \in Nat
  BY DEF BufTypeOK, BufferConstants
<1> QED
  BY <1>1 DEF CopyTo

------------------------------------------------------------------------------
(* The steps.                                                              *)

LEMMA PluginRows ==
  ASSUME BufferConstants, NEW c \in Codecs
  PROVE  /\ Len(Plugin[c].buffers) \in Nat \ {0} /\ Plugin[c].buffers[1] = "stream"
         /\ Plugin[c].checked \/ c = "mjpeg"
<1>1. c \in {"h264", "h263", "mpeg2", "mpeg4", "vp8", "vp9", "h265", "mjpeg"}
  BY DEF BufferConstants
<1>2. CASE c = "h264"
  BY <1>2 DEF Plugin, h264
<1>3. CASE c = "h263"
  BY <1>3 DEF Plugin, h263
<1>4. CASE c = "mpeg2"
  BY <1>4 DEF Plugin, mpeg2
<1>5. CASE c = "mpeg4"
  BY <1>5 DEF Plugin, mpeg4
<1>6. CASE c = "vp8"
  BY <1>6 DEF Plugin, vp8
<1>7. CASE c = "vp9"
  BY <1>7 DEF Plugin, vp9
<1>8. CASE c = "h265"
  BY <1>8 DEF Plugin, h265
<1>9. CASE c = "mjpeg"
  BY <1>9 DEF Plugin, mjpeg
<1> QED
  BY <1>1, <1>2, <1>3, <1>4, <1>5, <1>6, <1>7, <1>8, <1>9

(* A plugin that was opened has nothing.                                   *)
OpenState ==
  /\ codec \in Codecs /\ bInited = FALSE
  /\ stream = [va |-> "null", size |-> 0]
  /\ iExtraFrameCount = 0 /\ iMinFrameBufferCount = 0
  /\ iFrameBufferCount = 0 /\ iFrameBufferSize = 0
  /\ frameVa = 0 /\ registered = 0
  /\ maps = {} /\ granted = {}
  /\ calls = "open" /\ headers = 0 /\ copied = "nowhere" /\ ret = "none"
  /\ avail = 0 /\ sized = 0 /\ unmapped = NothingUnmapped

LEMMA OpenKeeps == ASSUME BufferConstants, OpenState PROVE BufInv
<1>1. BufTypeOK
  <2>1. bInited \in BOOLEAN
    BY Zenon DEF OpenState
  <2>2. unmapped \in [id : 0..headers, exact : BOOLEAN] /\ sized \in 0..headers
    <3>1. headers = 0 /\ sized = 0 /\ unmapped = NothingUnmapped
      BY Zenon DEF OpenState
    <3> QED
      BY <3>1 DEF NothingUnmapped
  <2> QED
    BY <2>1, <2>2 DEF OpenState, BufTypeOK, BufferConstants
<1>2. StreamInv /\ MapsInv /\ OpenInv
  BY DEF OpenState, StreamInv, MapsInv, OpenInv
<1>3. FramesInMapping
  BY DEF OpenState, FramesInMapping, RegisteredFramesMapped, CopiesIntoBuffer, HeaderNeedsStream
<1>4. DeinitReleases
  BY DEF OpenState, DeinitReleases, DeinitFrees, UnmappedAsMapped, NothingUnmapped
<1> QED
  BY <1>1, <1>2, <1>3, <1>4 DEF BufInv

LEMMA InitKeeps == ASSUME BufferConstants, BufInv, Plugin_Init PROVE BufInv'
<1> DEFINE all == Len(Plugin[codec].buffers)
<1>1. /\ calls = "open" /\ calls' = "working"
      /\ codec' = codec /\ iExtraFrameCount' = iExtraFrameCount
      /\ iMinFrameBufferCount' = iMinFrameBufferCount /\ iFrameBufferCount' = iFrameBufferCount
      /\ iFrameBufferSize' = iFrameBufferSize /\ frameVa' = frameVa /\ registered' = registered
      /\ headers' = headers /\ copied' = copied /\ ret' = ret /\ avail' = avail
      /\ sized' = sized /\ unmapped' = unmapped
  BY DEF Plugin_Init, counts, frames, history
<1>2. /\ BufTypeOK /\ CopiesIntoBuffer /\ UnmappedAsMapped
      /\ maps = {} /\ granted = {} /\ headers = 0 /\ frameVa = 0 /\ ret = "none"
      /\ stream = [va |-> "null", size |-> 0]
  BY <1>1 DEF BufInv, OpenInv, FramesInMapping, DeinitReleases
<1>3. /\ bInited' \in BOOLEAN
      /\ \/ stream' = stream /\ maps' = {}
         \/ /\ <<"stream", 0>> \in granted'
            /\ \/ stream' = [va |-> "mapped", size |-> StreamSize]
                  /\ maps' = {[id |-> 0, size |-> StreamSize]}
               \/ stream' = [va |-> "failed", size |-> StreamSize] /\ maps' = {}
  <2>1. CASE UNCHANGED <<bInited, stream, maps, granted>>
    BY <1>2, <2>1 DEF BufTypeOK
  <2>2. CASE bInited' = TRUE /\ \E got \in 0..all, mapped \in BOOLEAN : AllocMemory(got, mapped)
    <3>1. PICK got \in 0..all : \E mapped \in BOOLEAN : AllocMemory(got, mapped)
      BY <2>2
    <3>2. PICK mapped \in BOOLEAN : AllocMemory(got, mapped)
      BY <3>1
    <3>3. CASE got = 0
      BY <1>2, <2>2, <3>2, <3>3 DEF AllocMemory
    <3>4. CASE got # 0
      <4>1. codec \in Codecs
        BY <1>2 DEF BufTypeOK
      <4>2. 1 \in 1..got /\ Plugin[codec].buffers[1] = "stream"
        BY <3>4, <4>1, PluginRows
      <4>3. <<"stream", 0>> \in granted'
        BY <3>2, <4>2 DEF AllocMemory
      <4> QED
        BY <2>2, <3>2, <3>4, <4>3 DEF AllocMemory
    <3> QED
      BY <3>3, <3>4
  <2>3. codec \in Codecs
    BY <1>2 DEF BufTypeOK
  <2>4. all \in Nat
    BY <2>3, PluginRows
  <2>5. \/ UNCHANGED <<bInited, stream, maps, granted>>
        \/ bInited' = TRUE /\ \E got \in 0..all, mapped \in BOOLEAN : AllocMemory(got, mapped)
    <3>1. CASE UNCHANGED <<bInited, stream, maps, granted>>
      BY <3>1
    <3>2. CASE /\ bInited' = TRUE
               /\ \E got \in (IF "alloc" \in Faults THEN 0 ELSE all)..all,
                     mapped \in (IF "map" \in Faults THEN BOOLEAN ELSE {TRUE}) :
                    AllocMemory(got, mapped)
      <4>1. PICK got \in (IF "alloc" \in Faults THEN 0 ELSE all)..all :
              \E mapped \in (IF "map" \in Faults THEN BOOLEAN ELSE {TRUE}) : AllocMemory(got, mapped)
        BY <3>2, Zenon
      <4>2. PICK mapped \in (IF "map" \in Faults THEN BOOLEAN ELSE {TRUE}) : AllocMemory(got, mapped)
        BY <4>1, Zenon
      <4>3. got \in 0..all
        BY <2>4
      <4>4. mapped \in BOOLEAN
        BY Zenon
      <4> QED
        BY <3>2, <4>2, <4>3, <4>4, Zenon
    <3> QED
      BY <3>1, <3>2, Zenon DEF Plugin_Init
  <2> QED
    BY <2>1, <2>2, <2>5
<1>4. BufTypeOK'
  BY <1>1, <1>2, <1>3 DEF BufTypeOK, BufferConstants
<1>5. StreamInv' /\ MapsInv' /\ OpenInv'
  <2>1. sized = 0 /\ unmapped = NothingUnmapped
    BY <1>1, <1>2 DEF BufInv, BufTypeOK, MapsInv
  <2>2. \A m \in maps' : m.id = 0 /\ m.size = StreamSize /\ stream'.va = "mapped"
    BY <1>3
  <2> QED
    BY <1>1, <1>2, <1>3, <2>1, <2>2 DEF StreamInv, MapsInv, OpenInv
<1>6. FramesInMapping'
  BY <1>1, <1>2
     DEF FramesInMapping, RegisteredFramesMapped, CopiesIntoBuffer, HeaderNeedsStream
<1>7. DeinitReleases'
  BY <1>1, <1>2 DEF DeinitReleases, DeinitFrees, UnmappedAsMapped
<1> QED
  BY <1>4, <1>5, <1>6, <1>7 DEF BufInv

LEMMA ExtraKeeps == ASSUME BufferConstants, BufInv, Plugin_Set_ExtraFrameCount PROVE BufInv'
<1>1. /\ calls = "working" /\ calls' = calls /\ iExtraFrameCount' \in Extras /\ ret' = "none"
      /\ codec' = codec /\ bInited' = bInited /\ stream' = stream
      /\ iMinFrameBufferCount' = iMinFrameBufferCount /\ iFrameBufferCount' = iFrameBufferCount
      /\ iFrameBufferSize' = iFrameBufferSize /\ frameVa' = frameVa /\ registered' = registered
      /\ maps' = maps /\ granted' = granted /\ headers' = headers /\ copied' = copied
      /\ avail' = avail /\ sized' = sized /\ unmapped' = unmapped
  BY DEF Plugin_Set_ExtraFrameCount, frames
<1>2. BufTypeOK'
  BY <1>1 DEF BufInv, BufTypeOK
<1>3. StreamInv' /\ MapsInv' /\ OpenInv'
  BY <1>1 DEF BufInv, StreamInv, MapsInv, OpenInv
<1>4. FramesInMapping'
  BY <1>1 DEF BufInv, FramesInMapping, RegisteredFramesMapped, CopiesIntoBuffer, HeaderNeedsStream
<1>5. DeinitReleases'
  BY <1>1 DEF BufInv, DeinitReleases, DeinitFrees, UnmappedAsMapped
<1> QED
  BY <1>2, <1>3, <1>4, <1>5 DEF BufInv

LEMMA DecodeKeeps == ASSUME BufferConstants, BufInv, Plugin_Decode PROVE BufInv'
<1>1. /\ calls = "working" /\ calls' = calls
      /\ codec' = codec /\ bInited' = bInited /\ stream' = stream
      /\ iExtraFrameCount' = iExtraFrameCount
      /\ iMinFrameBufferCount' = iMinFrameBufferCount /\ iFrameBufferCount' = iFrameBufferCount
      /\ iFrameBufferSize' = iFrameBufferSize /\ frameVa' = frameVa /\ registered' = registered
      /\ maps' = maps /\ granted' = granted /\ headers' = headers /\ ret' = ret
      /\ avail' = avail /\ sized' = sized /\ unmapped' = unmapped
  BY DEF Plugin_Decode, frames, counts
<1>2. PICK len \in 1..StreamSize :
        copied' = IF Plugin[codec].checked /\ stream.va = "null" THEN copied ELSE CopyTo(len)
  BY DEF Plugin_Decode
<1>3. BufTypeOK /\ StreamInv /\ codec \in Codecs /\ len \in Nat /\ CopiesIntoBuffer
  BY <1>2 DEF BufInv, BufTypeOK, FramesInMapping
<1>4. CopyTo(len) = IF stream.va = "mapped" THEN "buffer" ELSE stream.va
  <2>1. stream.va = "mapped" => len <= stream.size
    BY <1>2, <1>3 DEF StreamInv
  <2> QED
    BY <1>3, <2>1, CopyFits
<1>5. Plugin[codec].checked \/ codec = "mjpeg"
  BY <1>3, PluginRows
<1>6. stream.va \in {"null", "mapped", "failed"} /\ copied \in {"nowhere", "null", "failed", "beyond", "buffer"}
  BY <1>3 DEF BufTypeOK
<1>7. copied' \in {"nowhere", "null", "failed", "beyond", "buffer"}
  BY <1>2, <1>4, <1>6
<1>8. CopiesIntoBuffer'
  BY <1>1, <1>2, <1>3, <1>4, <1>5, <1>6 DEF CopiesIntoBuffer
<1>9. BufTypeOK'
  BY <1>1, <1>7 DEF BufInv, BufTypeOK
<1>10. StreamInv' /\ MapsInv' /\ OpenInv'
  BY <1>1 DEF BufInv, StreamInv, MapsInv, OpenInv
<1>11. FramesInMapping'
  BY <1>1, <1>8 DEF BufInv, FramesInMapping, RegisteredFramesMapped, HeaderNeedsStream
<1>12. DeinitReleases'
  BY <1>1 DEF BufInv, DeinitReleases, DeinitFrees, UnmappedAsMapped
<1> QED
  BY <1>9, <1>10, <1>11, <1>12 DEF BufInv

(* What a header does that got as far as its step "failed": frames are     *)
(* mapped and registered only by the number that memory and table allow.   *)
LEMMA HeaderDoes ==
  ASSUME BufferConstants, BufTypeOK, headers' = headers + 1,
         NEW failed \in 1..7, NEW min \in MinCounts, NEW left \in 0..MaxAvail,
         NEW mapped \in BOOLEAN, HeaderSteps(failed, min, left, mapped)
  PROVE  \E count \in Nat :
           /\ iMinFrameBufferCount' \in MinCounts \cup {0}
           /\ iFrameBufferCount' = count /\ iFrameBufferSize' \in 0..MaxFrames
           /\ granted \subseteq granted' /\ avail' = left
           /\ \/ maps' = maps /\ frameVa' = frameVa
              \/ /\ maps' = maps \cup {[id |-> headers', size |-> count]} /\ frameVa' = headers'
                 /\ count > 0 /\ iFrameBufferSize' = count /\ sized' = headers'
           /\ sized' = headers' \/ (sized' = sized /\ iFrameBufferSize' = iFrameBufferSize)
           /\ registered' \in 0..MaxFrames /\ ret' \in {"ok", "failed"}
           /\ ret' = "ok" =>
                /\ registered' = count /\ iFrameBufferSize' = count
                /\ count > 0 /\ count <= left /\ count <= MaxFrames
<1> DEFINE Past(step) == \E i \in DOMAIN Steps : Steps[i] = step /\ failed > i
           asked == IF Past("slice") THEN FrameCount ELSE iFrameBufferCount
           count == IF Past("freemem") THEN FrameBufferCount(asked, left) ELSE asked
           got == Past("frames")
           done == got /\ count > 0
<1>1. /\ iMinFrameBufferCount' = IF Past("poll") THEN min ELSE iMinFrameBufferCount
      /\ iFrameBufferCount' = count
      /\ iFrameBufferSize' = IF Past("freemem") THEN count ELSE iFrameBufferSize
      /\ sized' = IF Past("freemem") THEN headers' ELSE sized
      /\ granted' = granted
           \cup (IF Plugin[codec].slice /\ Past("slice") THEN {<<"slice", headers'>>} ELSE {})
           \cup (IF got THEN {<<"frame", headers'>>} ELSE {})
      /\ IF done THEN MapFrames(count, mapped) ELSE UNCHANGED <<maps, frameVa>>
      /\ registered' = IF done /\ Past("register") THEN count ELSE registered
      /\ avail' = left
      /\ ret' = IF done /\ Past("resolution") THEN "ok" ELSE "failed"
  BY Zenon DEF HeaderSteps
<1>2. /\ Past("frames") => Past("freemem")
      /\ Past("resolution") => Past("register")
  <2>1. DOMAIN Steps = 1..6
    BY DEF Steps
  <2>2. /\ Steps[1] = "poll" /\ Steps[2] = "slice" /\ Steps[3] = "freemem"
        /\ Steps[4] = "frames" /\ Steps[5] = "register" /\ Steps[6] = "resolution"
    BY DEF Steps
  <2>3. Past("frames") => failed > 4
    BY <2>1, <2>2
  <2>4. Past("resolution") => failed > 6
    BY <2>1, <2>2
  <2>5. failed > 3 => Past("freemem")
    BY <2>1, <2>2
  <2>6. failed > 5 => Past("register")
    BY <2>1, <2>2
  <2> QED
    BY <2>3, <2>4, <2>5, <2>6
<1>3. FrameCount \in Nat /\ iFrameBufferCount \in Nat /\ left \in Nat /\ MaxFrames \in Nat
  BY DEF FrameCount, BufTypeOK, BufferConstants
<1> HIDE DEF Past
<1>4. asked \in Nat
  BY <1>3
<1>5. /\ FrameBufferCount(asked, left) \in Nat /\ FrameBufferCount(asked, left) <= left
      /\ FrameBufferCount(asked, left) <= MaxFrames
  <2> HIDE DEF asked
  <2>1. asked \in Int /\ left \in Int /\ MaxFrames \in Int
    BY <1>3, <1>4
  <2>2. /\ Least({asked, left, MaxFrames}) \in {asked, left, MaxFrames}
        /\ Least({asked, left, MaxFrames}) <= left /\ Least({asked, left, MaxFrames}) <= MaxFrames
    BY <2>1, LeastOfThree
  <2> QED
    BY <1>3, <1>4, <2>2 DEF FrameBufferCount
<1>6. count \in Nat /\ (Past("freemem") => count <= left /\ count <= MaxFrames)
  BY <1>4, <1>5
<1>7. done => count > 0 /\ Past("freemem")
  BY <1>2
<1> HIDE DEF count, done, got
<1>8. iMinFrameBufferCount' \in MinCounts \cup {0} /\ iFrameBufferSize' \in 0..MaxFrames
  BY <1>1, <1>3, <1>6 DEF BufTypeOK
<1>9. \/ maps' = maps /\ frameVa' = frameVa
      \/ /\ maps' = maps \cup {[id |-> headers', size |-> count]} /\ frameVa' = headers'
         /\ count > 0 /\ iFrameBufferSize' = count /\ sized' = headers'
  BY <1>1, <1>7 DEF MapFrames
<1>13. sized' = headers' \/ (sized' = sized /\ iFrameBufferSize' = iFrameBufferSize)
  BY <1>1
<1>10. registered' \in 0..MaxFrames
  BY <1>1, <1>3, <1>6, <1>7 DEF BufTypeOK
<1>11. ret' = "ok" =>
         /\ registered' = count /\ iFrameBufferSize' = count
         /\ count > 0 /\ count <= left /\ count <= MaxFrames
  BY <1>1, <1>2, <1>6, <1>7
<1>12. granted \subseteq granted' /\ avail' = left /\ ret' \in {"ok", "failed"}
  BY <1>1
<1> QED
  BY <1>1, <1>6, <1>8, <1>9, <1>10, <1>11, <1>12, <1>13

LEMMA HeaderKeeps == ASSUME BufferConstants, BufInv, Plugin_Set_SequenceHeader PROVE BufInv'
<1>1. /\ calls = "working" /\ calls' = calls /\ headers < MaxHeaders /\ headers' = headers + 1
      /\ codec' = codec /\ bInited' = bInited /\ stream' = stream /\ unmapped' = unmapped
  BY DEF Plugin_Set_SequenceHeader
<1>2. BufTypeOK /\ StreamInv /\ MapsInv /\ FramesInMapping /\ UnmappedAsMapped
  BY DEF BufInv, DeinitReleases
<1>3. /\ headers \in Nat /\ headers' \in 0..MaxHeaders /\ headers' \in Nat \ {0}
      /\ \A m \in maps : m.id \in 0..headers /\ m.size \in Nat \ {0}
      /\ frameVa \in 0..headers
  BY <1>1, <1>2 DEF BufTypeOK, BufferConstants
<1>4. PICK len \in 1..(StreamSize + 1) :
        IF HeaderLength(len) = 0
        THEN /\ ret' = "failed"
             /\ UNCHANGED <<counts, frames, maps, granted, copied, avail, sized>>
        ELSE /\ copied' = CopyTo(HeaderLength(len))
             /\ \E failed \in {i \in DOMAIN Steps : MayFail(Steps[i])} \cup {7},
                   min \in MinCounts, left \in 0..MaxAvail,
                   mapped \in (IF "framemap" \in Faults THEN BOOLEAN ELSE {TRUE}) :
                  /\ Steps[2] = "slice" /\ ~Plugin[codec].slice => failed # 2
                  /\ HeaderSteps(failed, min, left, mapped)
             /\ UNCHANGED iExtraFrameCount
  BY Zenon DEF Plugin_Set_SequenceHeader
<1>5. /\ HeaderLength(len) \in Nat /\ HeaderLength(len) <= stream.size
      /\ HeaderLength(len) # 0 => stream.size # 0
  BY <1>2, HeaderFits
<1>6. UnmappedAsMapped'
  BY <1>1, <1>2 DEF UnmappedAsMapped, MapsInv, NothingUnmapped
<1>7. DeinitReleases' /\ OpenInv'
  BY <1>1, <1>6 DEF DeinitReleases, DeinitFrees, OpenInv
<1>8. CASE HeaderLength(len) = 0
  <2>1. /\ ret' = "failed" /\ iExtraFrameCount' = iExtraFrameCount
        /\ iMinFrameBufferCount' = iMinFrameBufferCount /\ iFrameBufferCount' = iFrameBufferCount
        /\ iFrameBufferSize' = iFrameBufferSize /\ frameVa' = frameVa /\ registered' = registered
        /\ maps' = maps /\ granted' = granted /\ copied' = copied /\ avail' = avail
        /\ sized' = sized
    BY <1>4, <1>8 DEF counts, frames
  <2>2. BufTypeOK'
    BY <1>1, <1>2, <1>3, <2>1 DEF BufTypeOK
  <2>3. StreamInv' /\ MapsInv'
    BY <1>1, <1>2, <1>3, <2>1 DEF StreamInv, MapsInv
  <2>4. FramesInMapping'
    BY <1>1, <1>2, <2>1
       DEF FramesInMapping, RegisteredFramesMapped, CopiesIntoBuffer, HeaderNeedsStream
  <2> QED
    BY <1>7, <2>2, <2>3, <2>4 DEF BufInv
<1>9. CASE HeaderLength(len) # 0
  <2>1. /\ copied' = CopyTo(HeaderLength(len)) /\ iExtraFrameCount' = iExtraFrameCount
        /\ \E failed \in {i \in DOMAIN Steps : MayFail(Steps[i])} \cup {7},
              min \in MinCounts, left \in 0..MaxAvail,
              mapped \in (IF "framemap" \in Faults THEN BOOLEAN ELSE {TRUE}) :
             HeaderSteps(failed, min, left, mapped)
    BY <1>4, <1>9, Zenon
  <2>2. PICK failed \in {i \in DOMAIN Steps : MayFail(Steps[i])} \cup {7} :
          \E min \in MinCounts, left \in 0..MaxAvail,
             mapped \in (IF "framemap" \in Faults THEN BOOLEAN ELSE {TRUE}) :
            HeaderSteps(failed, min, left, mapped)
    BY <2>1, Zenon
  <2>3. PICK min \in MinCounts :
          \E left \in 0..MaxAvail,
             mapped \in (IF "framemap" \in Faults THEN BOOLEAN ELSE {TRUE}) :
            HeaderSteps(failed, min, left, mapped)
    BY <2>2, Zenon
  <2>4. PICK left \in 0..MaxAvail :
          \E mapped \in (IF "framemap" \in Faults THEN BOOLEAN ELSE {TRUE}) :
            HeaderSteps(failed, min, left, mapped)
    BY <2>3, Zenon
  <2>5. PICK mapped \in (IF "framemap" \in Faults THEN BOOLEAN ELSE {TRUE}) :
          HeaderSteps(failed, min, left, mapped)
    BY <2>4, Zenon
  <2>6. failed \in 1..7
    <3>1. DOMAIN Steps = 1..6
      BY DEF Steps
    <3> QED
      BY <3>1
  <2>7. mapped \in BOOLEAN
    BY Zenon
  <2>8. PICK count \in Nat :
          /\ iMinFrameBufferCount' \in MinCounts \cup {0}
          /\ iFrameBufferCount' = count /\ iFrameBufferSize' \in 0..MaxFrames
          /\ granted \subseteq granted' /\ avail' = left
          /\ \/ maps' = maps /\ frameVa' = frameVa
             \/ /\ maps' = maps \cup {[id |-> headers', size |-> count]} /\ frameVa' = headers'
                /\ count > 0 /\ iFrameBufferSize' = count /\ sized' = headers'
          /\ sized' = headers' \/ (sized' = sized /\ iFrameBufferSize' = iFrameBufferSize)
          /\ registered' \in 0..MaxFrames /\ ret' \in {"ok", "failed"}
          /\ ret' = "ok" =>
               /\ registered' = count /\ iFrameBufferSize' = count
               /\ count > 0 /\ count <= left /\ count <= MaxFrames
    BY <1>1, <1>2, <2>5, <2>6, <2>7, HeaderDoes
  <2>9. CopyTo(HeaderLength(len)) = IF stream.va = "mapped" THEN "buffer" ELSE stream.va
    BY <1>2, <1>5, CopyFits
  <2>10. stream.va \in {"mapped", "failed"} /\ <<"stream", 0>> \in granted
    BY <1>1, <1>2, <1>5, <1>9 DEF StreamInv, BufTypeOK
  <2>11. copied' \in {"buffer", "failed"}
    BY <2>1, <2>9, <2>10
  <2>12. /\ frameVa' \in 0..headers'
         /\ \A m \in maps' : m.id \in 0..headers' /\ m.size \in Nat \ {0}
    <3>1. \A m \in maps : m.id \in 0..headers' /\ m.size \in Nat \ {0}
      BY <1>1, <1>3
    <3>2. frameVa \in 0..headers' /\ headers' \in 0..headers'
      <4>1. headers' = headers + 1
        BY <1>1
      <4>2. headers \in Nat /\ frameVa \in 0..headers
        BY <1>3
      <4> QED
        BY <4>1, <4>2
    <3>3. CASE maps' = maps /\ frameVa' = frameVa
      BY <3>1, <3>2, <3>3
    <3>4. CASE maps' = maps \cup {[id |-> headers', size |-> count]} /\ frameVa' = headers' /\ count > 0
      <4>1. \A m \in maps' : m \in maps \/ (m.id = headers' /\ m.size = count)
        BY <3>4
      <4> QED
        BY <3>1, <3>2, <3>4, <4>1
    <3> QED
      BY <2>8, <3>3, <3>4
  <2>13. BufTypeOK'
    BY <1>1, <1>2, <1>3, <2>1, <2>8, <2>11, <2>12 DEF BufTypeOK
  <2>14. StreamInv'
    BY <1>1, <1>2, <2>8 DEF StreamInv
  <2>15. MapsInv'
    <3>1. /\ \A m \in maps : m.id = 0 => stream.va = "mapped" /\ m.size = StreamSize
          /\ \A m \in maps : m.id # 0 =>
               m.id <= frameVa /\ (m.id = frameVa => sized > frameVa \/ m.size = iFrameBufferSize)
          /\ frameVa # 0 =>
               sized > frameVa \/ [id |-> frameVa, size |-> iFrameBufferSize] \in maps
          /\ frameVa <= sized /\ unmapped = NothingUnmapped
      BY <1>1, <1>2 DEF MapsInv
    <3>2. \A m \in maps' : m.id = 0 => stream'.va = "mapped" /\ m.size = StreamSize
      BY <1>1, <1>3, <2>8, <3>1
    <3>3. sized \in 0..headers /\ sized' \in Nat /\ frameVa \in Nat
      BY <1>1, <1>2, <1>3, <2>8 DEF BufTypeOK
    <3>4. CASE maps' = maps /\ frameVa' = frameVa
      <4>1. CASE sized' = headers'
        <5>1. sized' > frameVa'
          BY <1>1, <1>3, <3>4, <4>1
        <5> QED
          BY <1>1, <3>1, <3>2, <3>3, <3>4, <5>1 DEF MapsInv
      <4>2. CASE sized' = sized /\ iFrameBufferSize' = iFrameBufferSize
        BY <1>1, <3>1, <3>2, <3>4, <4>2 DEF MapsInv
      <4> QED
        BY <2>8, <4>1, <4>2
    <3>5. CASE /\ maps' = maps \cup {[id |-> headers', size |-> count]} /\ frameVa' = headers'
               /\ iFrameBufferSize' = count /\ sized' = headers'
      <4>1. \A m \in maps' : m \in maps \/ m = [id |-> headers', size |-> count]
        BY <3>5
      <4>2. \A m \in maps' : m.id # 0 =>
              m.id <= frameVa' /\ (m.id = frameVa' => m.size = iFrameBufferSize')
        BY <1>1, <1>3, <3>5, <4>1
      <4>3. [id |-> frameVa', size |-> iFrameBufferSize'] \in maps' /\ frameVa' <= sized'
        BY <1>3, <3>5
      <4> QED
        BY <1>1, <3>1, <3>2, <4>2, <4>3 DEF MapsInv
    <3> QED
      BY <2>8, <3>4, <3>5
  <2>16. RegisteredFramesMapped'
    <3> SUFFICES ASSUME ret' = "ok"
                 PROVE  /\ registered' \in 1..Least({avail', MaxFrames})
                        /\ \A m \in maps' : m.id = headers' =>
                             frameVa' = headers' /\ m.size = registered'
      BY DEF RegisteredFramesMapped
    <3>1. registered' = count /\ count > 0 /\ count <= left /\ count <= MaxFrames /\ avail' = left
      BY <2>8
    <3>2. Least({left, MaxFrames}) = IF left <= MaxFrames THEN left ELSE MaxFrames
      BY LeastOfTwo DEF BufferConstants
    <3>3. registered' \in 1..Least({avail', MaxFrames})
      BY <3>1, <3>2 DEF BufferConstants
    <3>4. \A m \in maps : m.id # headers'
      BY <1>1, <1>3
    <3> QED
      BY <2>8, <3>1, <3>3, <3>4
  <2>17. CopiesIntoBuffer' /\ HeaderNeedsStream'
    BY <1>1, <2>8, <2>10, <2>11 DEF CopiesIntoBuffer, HeaderNeedsStream
  <2> QED
    BY <1>7, <2>13, <2>14, <2>15, <2>16, <2>17 DEF BufInv, FramesInMapping
<1> QED
  BY <1>8, <1>9

(* Deinit unmaps what the invariant says is mapped.                        *)
LEMMA DeinitKeeps == ASSUME BufferConstants, BufInv, Plugin_Deinit PROVE BufInv'
<1>1. /\ calls = "working" /\ calls' = "deinited"
      /\ codec' = codec /\ bInited' = bInited /\ headers' = headers
      /\ iExtraFrameCount' = iExtraFrameCount
      /\ iMinFrameBufferCount' = iMinFrameBufferCount /\ iFrameBufferCount' = iFrameBufferCount
      /\ iFrameBufferSize' = iFrameBufferSize
      /\ copied' = copied /\ ret' = ret /\ avail' = avail /\ sized' = sized
  BY DEF Plugin_Deinit, counts
<1>2. BufTypeOK /\ StreamInv /\ MapsInv /\ CopiesIntoBuffer /\ UnmappedAsMapped
  BY DEF BufInv, FramesInMapping, DeinitReleases
<1>3. StreamInv' /\ MapsInv' /\ OpenInv' /\ FramesInMapping'
  <2>1. /\ StreamInv'
    <3>1. CASE bInited
      <4>1. stream' = [stream EXCEPT !.va = "null"]
        BY <3>1 DEF Plugin_Deinit, free_alloc_buffers
      <4>2. stream'.va = "null"
        BY <1>2, <4>1 DEF BufTypeOK
      <4> QED
        BY <1>1, <4>2 DEF StreamInv
    <3>2. CASE ~bInited
      <4>1. stream' = stream
        BY <3>2 DEF Plugin_Deinit
      <4> QED
        BY <1>1, <1>2, <4>1 DEF StreamInv
    <3> QED
      BY <3>1, <3>2
  <2>2. MapsInv' /\ OpenInv'
    BY <1>1 DEF MapsInv, OpenInv
  <2>3. FramesInMapping'
    BY <1>1, <1>2
       DEF FramesInMapping, RegisteredFramesMapped, CopiesIntoBuffer, HeaderNeedsStream
  <2> QED
    BY <2>1, <2>2, <2>3
<1>4. CASE ~bInited
  <2>1. /\ stream' = stream /\ frameVa' = frameVa /\ registered' = registered
        /\ maps' = maps /\ granted' = granted /\ unmapped' = unmapped
    BY <1>4 DEF Plugin_Deinit, frames
  <2>2. BufTypeOK'
    BY <1>1, <1>2, <2>1 DEF BufTypeOK
  <2>3. DeinitReleases'
    BY <1>1, <1>2, <1>4, <2>1 DEF DeinitReleases, DeinitFrees, UnmappedAsMapped
  <2> QED
    BY <1>3, <2>2, <2>3 DEF BufInv
<1>5. CASE bInited
  <2> DEFINE after == IF stream.va = "mapped" THEN Unmap(maps, 0, stream.size) ELSE maps
  <2>1. /\ maps' = IF frameVa # 0 THEN Unmap(after, frameVa, iFrameBufferSize) ELSE after
        /\ unmapped' = [id |-> frameVa,
                        exact |-> frameVa = 0
                                    \/ [id |-> frameVa, size |-> iFrameBufferSize] \in maps]
        /\ stream' = [stream EXCEPT !.va = "null"] /\ frameVa' = 0
        /\ granted' = {} /\ registered' = 0
    BY <1>5 DEF Plugin_Deinit, free_alloc_buffers
  <2>2. /\ \A m \in maps : m.id \in 0..headers /\ m.size \in Nat \ {0}
        /\ headers \in Nat /\ frameVa \in 0..headers /\ iFrameBufferSize \in Nat
        /\ StreamSize \in Nat /\ sized \in 0..headers
    BY <1>2 DEF BufTypeOK, BufferConstants
  <2>3. /\ \A m \in maps : m.id = 0 => stream.va = "mapped" /\ m.size = StreamSize
        /\ stream.va = "mapped" => stream.size = StreamSize
        /\ \A m \in maps : m.id # 0 =>
             m.id <= frameVa /\ (m.id = frameVa => sized > frameVa \/ m.size = iFrameBufferSize)
        /\ frameVa # 0 =>
             sized > frameVa \/ [id |-> frameVa, size |-> iFrameBufferSize] \in maps
    BY <1>1, <1>2 DEF MapsInv, StreamInv
  <2>4. after \subseteq maps /\ \A m \in after : m.id # 0
    BY <2>2, <2>3 DEF Unmap
  <2> HIDE DEF after
  <2>5. maps' \subseteq after
    BY <2>1 DEF Unmap
  <2>14. unmapped'.id = frameVa /\ sized' = sized
    BY <1>1, <2>1
  <2>6. \A m \in maps' : m.id # 0 /\ (m.id < frameVa \/ (m.id = frameVa /\ sized > m.id))
    <3> SUFFICES ASSUME NEW m \in maps'
                 PROVE  m.id # 0 /\ (m.id < frameVa \/ (m.id = frameVa /\ sized > m.id))
      OBVIOUS
    <3>1. /\ m \in maps /\ m.id # 0 /\ m.id <= frameVa /\ m.size \in Nat /\ m.id \in Nat
          /\ m.id = frameVa => sized > frameVa \/ m.size = iFrameBufferSize
      BY <2>2, <2>3, <2>4, <2>5
    <3>2. frameVa # 0 /\ m \in Unmap(after, frameVa, iFrameBufferSize)
      BY <2>1, <2>2, <3>1
    <3>3. m.id # frameVa \/ m.size > iFrameBufferSize
      BY <3>2 DEF Unmap
    <3> QED
      BY <2>2, <3>1, <3>3
  <2>7. DeinitFrees'
    BY <1>1, <2>1, <2>6, <2>14 DEF DeinitFrees
  <2>8. unmapped'.exact
          = (frameVa = 0 \/ [id |-> frameVa, size |-> iFrameBufferSize] \in maps)
    BY <2>1, Zenon
  <2>9. UnmappedAsMapped'
    BY <2>3, <2>8, <2>14, Zenon DEF UnmappedAsMapped
  <2>10. unmapped' \in [id : 0..headers', exact : BOOLEAN]
    <3> DEFINE e == frameVa = 0 \/ [id |-> frameVa, size |-> iFrameBufferSize] \in maps
    <3>1. e \in BOOLEAN
      BY Zenon
    <3> HIDE DEF e
    <3>2. unmapped' = [id |-> frameVa, exact |-> e]
      BY <2>1 DEF e
    <3> QED
      BY <1>1, <2>2, <3>1, <3>2
  <2>11. stream' \in [va : {"null", "mapped", "failed"}, size : {0, StreamSize}]
    BY <1>2, <2>1 DEF BufTypeOK
  <2>12. /\ frameVa' \in 0..headers' /\ registered' \in 0..MaxFrames
         /\ \A m \in maps' : m.id \in 0..headers' /\ m.size \in Nat \ {0}
    BY <1>1, <2>1, <2>2, <2>4, <2>5 DEF BufferConstants
  <2>13. BufTypeOK'
    BY <1>1, <1>2, <2>10, <2>11, <2>12 DEF BufTypeOK
  <2> QED
    BY <1>3, <2>7, <2>9, <2>13 DEF BufInv, DeinitReleases
<1> QED
  BY <1>4, <1>5

LEMMA CloseKeeps == ASSUME BufferConstants, Plugin_Close PROVE BufInv'
<1>1. OpenState'
  BY DEF Plugin_Close, OpenState
<1>2. OpenState' => BufInv'
  BY OpenKeeps, PTL
<1> QED
  BY <1>1, <1>2

LEMMA StutterKeeps == ASSUME BufInv, UNCHANGED vars PROVE BufInv'
<1>1. /\ codec' = codec /\ bInited' = bInited /\ stream' = stream
      /\ iExtraFrameCount' = iExtraFrameCount
      /\ iMinFrameBufferCount' = iMinFrameBufferCount /\ iFrameBufferCount' = iFrameBufferCount
      /\ iFrameBufferSize' = iFrameBufferSize /\ frameVa' = frameVa /\ registered' = registered
      /\ maps' = maps /\ granted' = granted /\ calls' = calls /\ headers' = headers
      /\ copied' = copied /\ ret' = ret /\ avail' = avail /\ sized' = sized /\ unmapped' = unmapped
  BY DEF vars
<1>2. BufTypeOK'
  BY <1>1 DEF BufInv, BufTypeOK
<1>3. StreamInv' /\ MapsInv' /\ OpenInv'
  BY <1>1 DEF BufInv, StreamInv, MapsInv, OpenInv
<1>4. FramesInMapping'
  BY <1>1 DEF BufInv, FramesInMapping, RegisteredFramesMapped, CopiesIntoBuffer, HeaderNeedsStream
<1>5. DeinitReleases'
  BY <1>1 DEF BufInv, DeinitReleases, DeinitFrees, UnmappedAsMapped
<1> QED
  BY <1>2, <1>3, <1>4, <1>5 DEF BufInv

LEMMA BufHolds == ASSUME BufferConstants PROVE Spec => []BufInv
<1>1. Init => BufInv
  BY OpenKeeps DEF Init, OpenState
<1>2. ASSUME BufInv, [Next]_vars PROVE BufInv'
  <2>1. CASE Plugin_Init
    BY <1>2, <2>1, InitKeeps
  <2>2. CASE Plugin_Set_ExtraFrameCount
    BY <1>2, <2>2, ExtraKeeps
  <2>3. CASE Plugin_Set_SequenceHeader
    BY <1>2, <2>3, HeaderKeeps
  <2>4. CASE Plugin_Decode
    BY <1>2, <2>4, DecodeKeeps
  <2>5. CASE Plugin_Deinit
    BY <1>2, <2>5, DeinitKeeps
  <2>6. CASE Plugin_Close
    BY <2>6, CloseKeeps
  <2>7. CASE UNCHANGED vars
    BY <1>2, <2>7, StutterKeeps
  <2> QED
    BY <1>2, <2>1, <2>2, <2>3, <2>4, <2>5, <2>6, <2>7 DEF Next
<1> QED
  BY <1>1, <1>2, PTL DEF Spec

------------------------------------------------------------------------------
(* The theorems.                                                           *)

(* Addresses, sizes and counts are only those the driver or the caller     *)
(* gave, within the tables of the plugin.                                  *)
THEOREM BufTypeCorrect == ASSUME BufferConstants PROVE Spec => []BufTypeOK
<1>1. BufInv => BufTypeOK
  BY DEF BufInv
<1> QED
  BY BufHolds, <1>1, PTL

(* FramesInMapping: through repeated headers, of which each may stop at    *)
(* any step, the frames registered with the VPU fit the memory that is     *)
(* left and the mapping addresses are taken from; a header succeeds only   *)
(* with a stream buffer, and what is copied into it fits.                  *)
THEOREM FramesMapped == ASSUME BufferConstants PROVE Spec => []FramesInMapping
<1>1. BufInv => FramesInMapping
  BY DEF BufInv
<1> QED
  BY BufHolds, <1>1, PTL

(* DeinitReleases: whatever failed before, and with any number of headers, *)
(* Deinit leaves the driver no memory.  The process keeps no mapping but   *)
(* of frames that a later header replaced, and of the last frames that     *)
(* were mapped when a header behind them computed a new size and mapped    *)
(* none; but for this last case it unmaps by the size that was mapped.     *)
THEOREM EverythingReleased == ASSUME BufferConstants PROVE Spec => []DeinitReleases
<1>1. BufInv => DeinitReleases
  BY DEF BufInv
<1> QED
  BY BufHolds, <1>1, PTL

------------------------------------------------------------------------------
(* The encoder.                                                            *)

(* The plugin's record; a header is not begun before it was asked for.     *)
EncBuffers == {"stream", "work", "me", "slice", "raw", "frame", "seqheader"}

PluginSet ==
  [codec : EncoderSetup.codecs, bInited : BOOLEAN, sized : BOOLEAN,
   iMgrFd : -1..3, iVpuFd : -1..3, va : SUBSET EncBuffers, min : {0, 1},
   isSeqHeaderDone : BOOLEAN, header : Seq({"sps", "pps", "all", "unwritten"}),
   result : {"ok", "error"}, coded : Nat, out : Nat]

EncTypes ==
  /\ plugin \in PluginSet
  /\ e_calls \in {"created", "working", "failed", "deinited", "destroyed"}
  /\ e_inits \in Nat /\ e_frames \in Nat

(* The current resource is that of the last Init, unless it failed to load *)
(* its plugin; it has drivers just while it works.                         *)
EncResource ==
  /\ e_resource \in {0, e_inits} /\ (e_resource = 0 <=> e_codec = "none")
  /\ e_resource # 0 => plugin.codec = e_codec
  /\ e_calls = "working" =>
       e_resource # 0 /\ plugin.bInited /\ plugin.iVpuFd >= 0
  /\ e_calls = "failed" /\ e_resource # 0 => ~plugin.bInited /\ ~plugin.sized /\ plugin.iVpuFd = -1

(* What a plugin that works has open and mapped, it has a record of.       *)
EncOpen ==
  /\ files \ (IF e_calls = "working" THEN {plugin.iMgrFd, plugin.iVpuFd} ELSE {}) \subseteq {0}
  /\ \A m \in e_maps :
       \/ m[1] \in 1..e_inits /\ m[2] \in {"work", "me", "slice"}
       \/ /\ e_calls = "working" /\ m[1] = e_resource
          /\ m[2] \in Encoder!free_alloc_buffers \cap plugin.va

EncHeap ==
  heap \subseteq 1..e_inits /\ (e_calls # "destroyed" /\ e_inits <= 1 => heap \subseteq {e_resource})

EncHeader == ~plugin.isSeqHeaderDone => plugin.header = <<>>

EncInv ==
  /\ EncTypes /\ EncResource /\ EncOpen /\ EncHeap /\ EncHeader
  /\ Encoder!DeinitReleases /\ Encoder!DestroyFrees /\ Encoder!CodedIsCurrent
  /\ Encoder!HeaderComplete /\ Encoder!CopiesIntoRaw

LEMMA EncInitInv ==
  ASSUME Encoder!Init
  PROVE  EncInv
<1>1. PICK c \in EncoderSetup.codecs : plugin = Encoder!Open(c)
  BY EncoderAssumption DEF Encoder!Init, Encoder!EncoderConstants
<1>2. plugin \in PluginSet
  BY <1>1, EmptySeq DEF Encoder!Open, PluginSet
<1>3. EncTypes
  BY <1>2 DEF EncTypes, Encoder!Init
<1>4. EncResource /\ EncOpen /\ EncHeap
  BY DEF Encoder!Init, EncResource, EncOpen, EncHeap
<1>5. EncHeader
  BY <1>1 DEF Encoder!Open, EncHeader
<1>6. Encoder!DeinitReleases /\ Encoder!DestroyFrees
  BY DEF Encoder!Init, Encoder!DeinitReleases, Encoder!DestroyFrees
<1>7. Encoder!CodedIsCurrent /\ Encoder!HeaderComplete /\ Encoder!CopiesIntoRaw
  BY DEF Encoder!Init, Encoder!Nothing, Encoder!CodedIsCurrent, Encoder!HeaderComplete,
         Encoder!CopiesIntoRaw
<1>. QED  BY <1>3, <1>4, <1>5, <1>6, <1>7 DEF EncInv

(* The descriptors a plugin opens, when only 0 may be open before.         *)
LEMMA OpenedFiles ==
  ASSUME files \subseteq {0}, NEW at \in Encoder!OpenSteps
  PROVE  LET o == Encoder!Opened(at)
         IN  IF at = "none"
             THEN /\ o.mgr \in 0..3 /\ o.vpu \in 0..3 /\ o.files = files \cup {o.mgr, o.vpu}
             ELSE o.files \subseteq {0}
<1>. DEFINE mgr == Encoder!Lowest(files)
            vpu == Encoder!Lowest(files \cup {mgr})
<1>1. \A fds : \A n \in 0..3 :
        n \notin fds /\ (\A k \in 0..3 : k < n => k \in fds) => Encoder!Lowest(fds) \in 0..3
  BY DEF Encoder!Lowest
<1>2. mgr \in 0..3 /\ (files = {} => mgr = 0) /\ (files # {} => mgr = 1)
  <2>1. CASE files = {}
    BY <2>1 DEF Encoder!Lowest
  <2>2. CASE files = {0}
    BY <2>2 DEF Encoder!Lowest
  <2>. QED  BY <2>1, <2>2
<1>3. vpu \in 0..3
  <2>1. CASE files = {}
    <3>1. files \cup {mgr} = {0}
      BY <1>2, <2>1
    <3>2. Encoder!Lowest({0}) = 1
      BY DEF Encoder!Lowest
    <3>. QED  BY <3>1, <3>2
  <2>2. CASE files = {0}
    <3>1. files \cup {mgr} = {0, 1}
      BY <1>2, <2>2
    <3>2. Encoder!Lowest({0, 1}) = 2
      BY DEF Encoder!Lowest
    <3>. QED  BY <3>1, <3>2
  <2>. QED  BY <2>1, <2>2
<1>4. CASE at = "none"
  BY <1>2, <1>3, <1>4 DEF Encoder!Opened
<1>5. CASE at # "none"
  BY <1>5 DEF Encoder!Opened, Encoder!OpenSteps
<1>. QED  BY <1>4, <1>5

LEMMA PluginOfCodec ==
  ASSUME NEW c \in EncoderSetup.codecs
  PROVE  /\ c \in {"h264", "h265", "mjpeg", "dummy"} /\ c # "none"
         /\ Encoder!Plugin[c].buffers \subseteq {"stream", "work", "me", "slice", "raw"}
         /\ c # "mjpeg" => Encoder!Plugin[c].header \in {<<"sps", "pps">>, <<"all", "all">>}
<1>1. c \in {"h264", "h265", "mjpeg", "dummy"}
  BY EncoderAssumption DEF Encoder!EncoderConstants
<1>. QED
  BY <1>1 DEF Encoder!Plugin, Encoder!h264, Encoder!h265, Encoder!mjpeg, Encoder!dummy

LEMMA EncInitKeeps ==
  ASSUME EncInv, Encoder!VideoEncoder_Init
  PROVE  EncInv'
<1>. USE DEF EncInv
<1>1. /\ e_calls \in {"created", "failed", "deinited"}
      /\ e_inits' = e_inits + 1 /\ e_last' = Encoder!Nothing /\ e_frames' = e_frames
      /\ e_inits \in Nat /\ e_frames \in Nat
  BY DEF Encoder!VideoEncoder_Init, EncTypes
<1>2. files \subseteq {0} /\ \A m \in e_maps : m[1] \in 1..e_inits /\ m[2] \in {"work", "me", "slice"}
  BY <1>1 DEF EncOpen
<1>3. heap \subseteq 1..e_inits
  BY DEF EncHeap
<1>4. /\ Encoder!CodedIsCurrent' /\ Encoder!HeaderComplete' /\ Encoder!CopiesIntoRaw'
  BY <1>1 DEF Encoder!Nothing, Encoder!CodedIsCurrent, Encoder!HeaderComplete,
              Encoder!CopiesIntoRaw
<1>5. PICK c \in EncoderSetup.codecs, failed \in BOOLEAN :
        /\ Encoder!SetCodec(c, ~failed)
        /\ IF failed THEN e_calls' = "failed" /\ UNCHANGED <<plugin, files, e_maps>>
           ELSE \E at, refused, initialised :
                  /\ at \in Encoder!OpenSteps
                  /\ Encoder!Plugin_Init(c, at, refused, initialised)
                  /\ e_calls' = IF at = "none" THEN "working" ELSE "failed"
  <2>1. PICK c \in EncoderSetup.codecs, failed \in Encoder!MayFail("load") :
          /\ Encoder!SetCodec(c, ~failed)
          /\ IF failed THEN e_calls' = "failed" /\ UNCHANGED <<plugin, files, e_maps>>
             ELSE \E at \in (IF "drivers" \in EncoderSetup.faults THEN Encoder!OpenSteps
                             ELSE {"none"}),
                     refused \in (IF "alloc" \in EncoderSetup.faults
                                  THEN {{}} \cup {{b} : b \in Encoder!Plugin[c].buffers}
                                  ELSE {{}}),
                     uninitialised \in Encoder!MayFail("command") :
                    /\ Encoder!Plugin_Init(c, at, refused, ~uninitialised)
                    /\ e_calls' = IF at = "none" THEN "working" ELSE "failed"
    BY Zenon DEF Encoder!VideoEncoder_Init, Encoder!process
  <2>2. failed \in BOOLEAN
    BY Zenon DEF Encoder!MayFail
  <2>3. CASE failed
    BY <2>1, <2>2, <2>3
  <2>4. CASE ~failed
    <3>1. PICK at, refused, uninitialised :
                    /\ at \in (IF "drivers" \in EncoderSetup.faults THEN Encoder!OpenSteps
                              ELSE {"none"})
                    /\ Encoder!Plugin_Init(c, at, refused, ~uninitialised)
                    /\ e_calls' = IF at = "none" THEN "working" ELSE "failed"
      BY <2>1, <2>4, Zenon
    <3>2. at \in Encoder!OpenSteps
      BY <3>1 DEF Encoder!OpenSteps
    <3>. QED  BY <2>1, <2>2, <2>4, <3>1, <3>2, Zenon
  <2>. QED  BY <2>3, <2>4
<1>6. e_resource' = (IF failed THEN 0 ELSE e_inits') /\ e_codec' = (IF failed THEN "none" ELSE c)
  BY <1>5 DEF Encoder!SetCodec
<1>7. EncHeap'
  <2>1. heap' = IF failed THEN heap ELSE heap \cup {e_inits'}
    BY <1>5 DEF Encoder!SetCodec
  <2>2. e_inits' <= 1 => heap = {}
    BY <1>1, <1>3
  <2>. QED  BY <1>1, <1>3, <1>6, <2>1, <2>2 DEF EncHeap
<1>8. CASE failed
  <2>1. e_calls' = "failed" /\ UNCHANGED <<plugin, files, e_maps>> /\ e_resource' = 0
    BY <1>5, <1>6, <1>8
  <2>2. EncTypes'
    BY <1>1, <2>1 DEF EncTypes
  <2>3. EncResource' /\ EncOpen' /\ EncHeader'
    BY <1>1, <1>2, <1>6, <1>8, <2>1 DEF EncResource, EncOpen, EncHeader
  <2>4. Encoder!DeinitReleases' /\ Encoder!DestroyFrees'
    BY <2>1 DEF Encoder!DeinitReleases, Encoder!DestroyFrees
  <2>. QED  BY <1>4, <1>7, <2>2, <2>3, <2>4
<1>9. CASE ~failed
  <2>1. PICK at, refused, initialised :
                  /\ at \in Encoder!OpenSteps
                  /\ Encoder!Plugin_Init(c, at, refused, initialised)
                  /\ e_calls' = IF at = "none" THEN "working" ELSE "failed"
    BY <1>5, <1>9, Zenon
  <2>. DEFINE o == Encoder!Opened(at)
  <2>2. files' = o.files /\ (at # "none" => o.files \subseteq {0})
    BY <1>2, <2>1, OpenedFiles DEF Encoder!Plugin_Init
  <2>3. c # "none" /\ e_resource' = e_inits' /\ e_codec' = c /\ e_resource' # 0
    BY <1>1, <1>6, <1>9, PluginOfCodec
  <2>4. Encoder!DeinitReleases' /\ Encoder!DestroyFrees'
    BY <2>1 DEF Encoder!DeinitReleases, Encoder!DestroyFrees
  <2>5. CASE at # "none"
    <3>1. /\ plugin' = [Encoder!Open(c) EXCEPT !.iMgrFd = -1, !.iVpuFd = -1, !.sized = FALSE]
          /\ e_maps' = e_maps /\ e_calls' = "failed"
      BY <2>1, <2>5 DEF Encoder!Plugin_Init, Encoder!SizeSet
    <3>2. /\ plugin' \in PluginSet /\ plugin'.codec = c /\ plugin'.header = <<>>
          /\ plugin'.iVpuFd = -1
      <4>1. plugin' = [codec |-> c, bInited |-> FALSE, sized |-> FALSE, iMgrFd |-> -1,
                       iVpuFd |-> -1, va |-> {}, min |-> 0, isSeqHeaderDone |-> FALSE,
                       header |-> <<>>, result |-> "ok", coded |-> 0, out |-> 0]
        BY <3>1 DEF Encoder!Open
      <4>. QED  BY <4>1, EmptySeq DEF PluginSet
    <3>3. ~plugin'.bInited /\ ~plugin'.sized
      BY <3>1 DEF Encoder!Open
    <3>4. EncTypes'
      BY <1>1, <3>1, <3>2 DEF EncTypes
    <3>5. EncResource' /\ EncOpen' /\ EncHeader'
      BY <1>1, <1>2, <2>2, <2>3, <2>5, <3>1, <3>2, <3>3 DEF EncResource, EncOpen, EncHeader
    <3>. QED  BY <1>4, <1>7, <2>4, <3>4, <3>5
  <2>6. CASE at = "none"
    <3>. DEFINE va == Encoder!Plugin[c].buffers \ refused
    <3>1. /\ o.mgr \in 0..3 /\ o.vpu \in 0..3 /\ o.files = files \cup {o.mgr, o.vpu}
      BY <1>2, <2>1, <2>6, OpenedFiles
    <3>. HIDE DEF o
    <3>2. /\ e_calls' = "working"
          /\ e_maps' = e_maps \cup ({e_resource'} \X va)
          /\ plugin' = [Encoder!Open(c) EXCEPT
                     !.bInited = TRUE, !.sized = TRUE, !.iMgrFd = o.mgr, !.iVpuFd = o.vpu,
                     !.va = va, !.min = IF initialised /\ c # "mjpeg" THEN 1 ELSE 0]
      BY <2>1, <2>6 DEF Encoder!Plugin_Init, Encoder!SizeSet, o
    <3>3. va \subseteq {"stream", "work", "me", "slice", "raw"}
      BY PluginOfCodec
    <3>. HIDE DEF va
    <3>4. /\ plugin' \in PluginSet /\ plugin'.codec = c /\ plugin'.header = <<>>
          /\ plugin'.iVpuFd = o.vpu /\ plugin'.iMgrFd = o.mgr /\ plugin'.va = va
      <4>. DEFINE min == IF initialised /\ c # "mjpeg" THEN 1 ELSE 0
      <4>1. min \in {0, 1}
        OBVIOUS
      <4>. HIDE DEF min
      <4>2. plugin' = [codec |-> c, bInited |-> TRUE, sized |-> TRUE, iMgrFd |-> o.mgr,
                       iVpuFd |-> o.vpu, va |-> va, min |-> min, isSeqHeaderDone |-> FALSE,
                       header |-> <<>>, result |-> "ok", coded |-> 0, out |-> 0]
        BY <3>2 DEF Encoder!Open, min
      <4>. QED  BY <3>1, <3>3, <4>1, <4>2, EmptySeq DEF PluginSet, EncBuffers
    <3>5. plugin'.bInited
      BY <3>2 DEF Encoder!Open
    <3>6. EncTypes'
      BY <1>1, <3>2, <3>4 DEF EncTypes
    <3>7. EncResource' /\ EncHeader'
      BY <1>1, <2>3, <3>1, <3>2, <3>4, <3>5 DEF EncResource, EncHeader
    <3>8. EncOpen'
      <4>1. files' \ {plugin'.iMgrFd, plugin'.iVpuFd} \subseteq {0}
        BY <1>2, <2>2, <3>1, <3>4
      <4>2. ASSUME NEW m \in e_maps'
            PROVE  \/ m[1] \in 1..e_inits' /\ m[2] \in {"work", "me", "slice"}
                   \/ /\ e_calls' = "working" /\ m[1] = e_resource'
                      /\ m[2] \in Encoder!free_alloc_buffers \cap plugin'.va
        <5>1. CASE m \in e_maps
          BY <1>1, <1>2, <5>1
        <5>2. CASE m \in {e_resource'} \X va
          <6>1. m[1] = e_resource' /\ m[2] \in va
            BY <5>2
          <6>. QED
            BY <1>1, <2>3, <3>2, <3>3, <3>4, <6>1 DEF Encoder!free_alloc_buffers
        <5>. QED  BY <3>2, <5>1, <5>2
      <4>. QED  BY <3>2, <4>1, <4>2 DEF EncOpen
    <3>. QED  BY <1>4, <1>7, <2>4, <3>6, <3>7, <3>8
  <2>. QED  BY <2>5, <2>6
<1>. QED  BY <1>8, <1>9

(* What the parts of a header add up to.                                   *)
LEMMA HeaderParts ==
  ASSUME EncInv, e_resource # 0, plugin.codec # "mjpeg", NEW failed \in 1..3, NEW buffer
  PROVE  /\ Encoder!HeaderUpTo(failed, buffer) \in Seq({"sps", "pps", "all", "unwritten"})
         /\ Encoder!HeaderResult(failed) \in {"ok", "error"}
         /\ Encoder!HeaderResult(failed) = "ok" =>
              <<>> \o Encoder!HeaderUpTo(failed, buffer) = Encoder!Row.header
<1>. DEFINE S == {"sps", "pps", "all", "unwritten"}
            more == IF failed <= Len(Encoder!Row.header) /\ buffer THEN <<"unwritten">> ELSE <<>>
<1>1. plugin.codec \in EncoderSetup.codecs
  BY DEF EncInv, EncTypes, PluginSet
<1>2. Encoder!Row.header \in {<<"sps", "pps">>, <<"all", "all">>}
  BY <1>1, PluginOfCodec DEF Encoder!Row
<1>3. Encoder!Row.header \in Seq(S) /\ Len(Encoder!Row.header) = 2
  <2>1. <<"sps", "pps">> \in Seq(S) /\ Len(<<"sps", "pps">>) = 2
    OBVIOUS
  <2>2. <<"all", "all">> \in Seq(S) /\ Len(<<"all", "all">>) = 2
    OBVIOUS
  <2>. QED  BY <1>2, <2>1, <2>2
<1>4. SubSeq(Encoder!Row.header, 1, failed - 1) \in Seq(S)
  BY <1>2, <1>3, SubSeqProperties
<1>5. more \in Seq(S)
  <2>1. <<"unwritten">> \in Seq(S) /\ <<>> \in Seq(S)
    BY EmptySeq
  <2>. QED  BY <2>1
<1>. HIDE DEF more
<1>6. Encoder!HeaderUpTo(failed, buffer) = SubSeq(Encoder!Row.header, 1, failed - 1) \o more
  BY DEF Encoder!HeaderUpTo, more
<1>7. Encoder!HeaderUpTo(failed, buffer) \in Seq(S)
  BY <1>4, <1>5, <1>6
<1>8. CASE failed = 3
  <2>1. more = <<>> /\ SubSeq(Encoder!Row.header, 1, failed - 1) = Encoder!Row.header
    <3>1. more = <<>>
      BY <1>3, <1>8 DEF more
    <3>2. SubSeq(Encoder!Row.header, 1, 2) = Encoder!Row.header
      BY <1>2
    <3>. QED  BY <1>8, <3>1, <3>2
  <2>. QED  BY <1>3, <1>6, <1>7, <1>8, <2>1, ConcatEmptySeq DEF Encoder!HeaderResult
<1>9. CASE failed # 3
  BY <1>3, <1>7, <1>9 DEF Encoder!HeaderResult
<1>. QED  BY <1>8, <1>9

LEMMA EncHeaderKeeps ==
  ASSUME EncInv, Encoder!VideoEncoder_Set_Header
  PROVE  EncInv'
<1>. USE DEF EncInv
<1>1. /\ e_calls \in {"working", "failed"}
      /\ UNCHANGED <<e_codec, e_resource, heap, files, e_calls, e_inits, e_frames>>
  BY DEF Encoder!VideoEncoder_Set_Header, Encoder!Callable
<1>2. EncHeap' /\ Encoder!DeinitReleases' /\ Encoder!DestroyFrees'
  BY <1>1 DEF EncHeap, Encoder!DeinitReleases, Encoder!DestroyFrees
<1>3. CASE /\ e_last' = [Encoder!Nothing EXCEPT !.call = "header"]
           /\ UNCHANGED <<plugin, e_maps>>
  <2>1. EncTypes' /\ EncResource' /\ EncOpen' /\ EncHeader'
    BY <1>1, <1>3 DEF EncTypes, EncResource, EncOpen, EncHeader
  <2>2. e_last'.call = "header" /\ e_last'.header = <<>> /\ e_last'.copied = "nowhere"
    BY <1>3 DEF Encoder!Nothing
  <2>3. Encoder!CodedIsCurrent' /\ Encoder!HeaderComplete' /\ Encoder!CopiesIntoRaw'
    BY <2>2 DEF Encoder!CodedIsCurrent, Encoder!HeaderComplete, Encoder!CopiesIntoRaw
  <2>. QED  BY <1>2, <2>1, <2>3
<1>4. CASE ~(/\ e_last' = [Encoder!Nothing EXCEPT !.call = "header"]
             /\ UNCHANGED <<plugin, e_maps>>)
  <2>1. e_resource # 0 /\ plugin.codec # "mjpeg" /\ ~plugin.isSeqHeaderDone
    BY <1>4 DEF Encoder!VideoEncoder_Set_Header, Encoder!Process_Seq_Header, Encoder!HeaderDone
  <2>2. PICK failed, gotFrames, gotHeader :
          /\ failed \in 1..3
          /\ Encoder!Process_Seq_Header(failed, gotFrames, gotHeader)
          /\ gotFrames \/ gotHeader => Encoder!Drivers
    <3>1. PICK failed \in (IF ~Encoder!Drivers THEN {1} ELSE
                           IF "command" \in EncoderSetup.faults THEN 1..3 ELSE {3}),
               noFrames \in Encoder!MayFail("alloc"), noHeader \in Encoder!MayFail("alloc") :
            Encoder!Process_Seq_Header(failed, Encoder!Drivers /\ plugin.min > 0 /\ ~noFrames,
                                       Encoder!Drivers /\ ~noHeader)
      BY <2>1, Zenon DEF Encoder!VideoEncoder_Set_Header
    <3>2. failed \in 1..3
      OBVIOUS
    <3>. QED  BY <3>1, <3>2, Zenon
  <2>. DEFINE added == (IF gotFrames THEN {"frame"} ELSE {})
                         \cup (IF gotHeader THEN {"seqheader"} ELSE {})
              parts == plugin.header \o Encoder!HeaderUpTo(failed, gotHeader)
  <2>3. /\ plugin' = [plugin EXCEPT !.isSeqHeaderDone = TRUE, !.va = @ \cup added,
                                    !.header = parts]
        /\ e_maps' = e_maps \cup ({e_resource} \X added)
        /\ e_last' = [Encoder!Nothing EXCEPT !.call = "header",
                        !.plugin = Encoder!HeaderResult(failed), !.header = plugin'.header]
    BY <2>1, <2>2 DEF Encoder!Process_Seq_Header, Encoder!HeaderDone
  <2>4. added \subseteq {"frame", "seqheader"} /\ (added # {} => Encoder!Drivers)
    BY <2>2
  <2>5. /\ plugin.header = <<>> /\ parts \in Seq({"sps", "pps", "all", "unwritten"})
        /\ Encoder!HeaderResult(failed) = "ok" => parts = Encoder!Row.header
    <3>1. plugin.header = <<>>
      BY <2>1 DEF EncHeader
    <3>. QED  BY <2>1, <2>2, <3>1, HeaderParts, EmptySeq
  <2>. HIDE DEF added, parts
  <2>6. /\ plugin' \in PluginSet /\ plugin'.codec = plugin.codec /\ plugin'.header = parts
        /\ plugin'.va = plugin.va \cup added
        /\ plugin'.iMgrFd = plugin.iMgrFd /\ plugin'.iVpuFd = plugin.iVpuFd
    BY <2>3, <2>4, <2>5 DEF EncTypes, PluginSet, EncBuffers
  <2>7. plugin'.isSeqHeaderDone /\ plugin'.bInited = plugin.bInited /\ plugin'.sized = plugin.sized
    BY <2>3 DEF EncTypes, PluginSet
  <2>8. EncTypes' /\ EncResource' /\ EncHeader'
    BY <1>1, <2>6, <2>7 DEF EncTypes, EncResource, EncHeader
  <2>9. EncOpen'
    <3>1. files' \ (IF e_calls' = "working" THEN {plugin'.iMgrFd, plugin'.iVpuFd} ELSE {})
            \subseteq {0}
      BY <1>1, <2>6 DEF EncOpen
    <3>2. ASSUME NEW m \in e_maps'
          PROVE  \/ m[1] \in 1..e_inits' /\ m[2] \in {"work", "me", "slice"}
                 \/ /\ e_calls' = "working" /\ m[1] = e_resource'
                    /\ m[2] \in Encoder!free_alloc_buffers \cap plugin'.va
      <4>1. CASE m \in e_maps
        BY <1>1, <2>6, <4>1 DEF EncOpen
      <4>2. CASE m \in {e_resource} \X added
        <5>1. m[1] = e_resource /\ m[2] \in added /\ Encoder!Drivers
          BY <2>4, <4>2
        <5>2. e_calls = "working"
          BY <1>1, <2>1, <5>1 DEF EncResource, Encoder!Drivers
        <5>. QED  BY <1>1, <2>4, <2>6, <5>1, <5>2 DEF Encoder!free_alloc_buffers
      <4>. QED  BY <2>3, <4>1, <4>2
    <3>. QED  BY <3>1, <3>2 DEF EncOpen
  <2>10. /\ e_last'.call = "header" /\ e_last'.copied = "nowhere"
         /\ e_last'.plugin = "ok" => e_last'.header = Encoder!Row'.header
    BY <2>3, <2>5, <2>6 DEF Encoder!Nothing, Encoder!Row
  <2>11. Encoder!CodedIsCurrent' /\ Encoder!HeaderComplete' /\ Encoder!CopiesIntoRaw'
    BY <2>10 DEF Encoder!CodedIsCurrent, Encoder!HeaderComplete, Encoder!CopiesIntoRaw
  <2>. QED  BY <1>2, <2>8, <2>9, <2>11
<1>. QED  BY <1>3, <1>4

LEMMA EncEncodeKeeps ==
  ASSUME EncInv, Encoder!VideoEncoder_Encode
  PROVE  EncInv'
<1>. USE DEF EncInv
<1>1. /\ e_calls \in {"working", "failed"} /\ e_frames' = e_frames + 1
      /\ e_frames \in Nat /\ e_frames' \in Nat
      /\ UNCHANGED <<e_codec, e_resource, heap, files, e_maps, e_calls, e_inits>>
  BY DEF Encoder!VideoEncoder_Encode, Encoder!Callable, Encoder!process, EncTypes
<1>2. EncHeap' /\ Encoder!DestroyFrees' /\ Encoder!DeinitReleases'
  BY <1>1 DEF EncHeap, Encoder!DeinitReleases, Encoder!DestroyFrees
<1>3. CASE e_resource = 0
  <2>1. plugin' = plugin /\ e_last' = [Encoder!Nothing EXCEPT !.call = "encode"]
    BY <1>3 DEF Encoder!VideoEncoder_Encode
  <2>2. EncTypes' /\ EncResource' /\ EncOpen' /\ EncHeader'
    BY <1>1, <2>1 DEF EncTypes, EncResource, EncOpen, EncHeader
  <2>3. e_last'.call = "encode" /\ e_last'.coded = 0 /\ e_last'.copied = "nowhere"
    BY <2>1 DEF Encoder!Nothing
  <2>4. Encoder!CodedIsCurrent' /\ Encoder!HeaderComplete' /\ Encoder!CopiesIntoRaw'
    BY <2>3 DEF Encoder!CodedIsCurrent, Encoder!HeaderComplete, Encoder!CopiesIntoRaw
  <2>. QED  BY <1>2, <2>2, <2>4
<1>4. CASE e_resource # 0
  <2>1. PICK outcome, planes :
          /\ outcome \in Encoder!Outcomes(e_frames')
          /\ Encoder!Plugin_Encode(outcome, planes)
    BY <1>4, Zenon DEF Encoder!VideoEncoder_Encode
  <2>. DEFINE out == Encoder!ResultInfo(outcome.coded)
  <2>2. /\ plugin.result \in {"ok", "error"} /\ plugin.coded \in Nat /\ plugin.out \in Nat
        /\ plugin.codec = e_codec
    BY <1>4 DEF EncTypes, PluginSet, EncResource
  <2>3. /\ outcome.result \in {"ok", "error"} /\ outcome.coded \in Nat
        /\ outcome.ret = "ok" /\ outcome.fetched => outcome.coded \in {0, e_frames'}
    <3>1. CASE outcome \in {[result |-> "ok", coded |-> e_frames', ret |-> "ok", fetched |-> TRUE],
                            [result |-> "ok", coded |-> 0, ret |-> "ok", fetched |-> TRUE],
                            [result |-> "error", coded |-> 0, ret |-> "error", fetched |-> TRUE]}
      BY <1>1, <3>1
    <3>2. CASE outcome = Encoder!Last("error", TRUE)
      BY <2>2, <3>2 DEF Encoder!Last
    <3>3. CASE outcome = Encoder!Last(plugin.result, FALSE)
      BY <2>2, <3>3 DEF Encoder!Last
    <3>. QED  BY <2>1, <3>1, <3>2, <3>3 DEF Encoder!Outcomes
  <2>4. /\ plugin' = [plugin EXCEPT !.result = outcome.result, !.coded = outcome.coded,
                                    !.out = out]
        /\ e_last' = [Encoder!Nothing EXCEPT !.call = "encode",
                        !.plugin = Encoder!Encode_Error(outcome.ret, out),
                        !.coded = out, !.fetched = outcome.fetched,
                        !.copied = Encoder!CopyPicture(planes)]
    BY <2>1 DEF Encoder!Plugin_Encode
  <2>5. out \in Nat /\ (e_codec # "mjpeg" => out = outcome.coded)
    BY <2>2, <2>3 DEF Encoder!ResultInfo
  <2>. HIDE DEF out
  <2>6. /\ plugin' \in PluginSet /\ plugin'.codec = plugin.codec /\ plugin'.header = plugin.header
        /\ plugin'.va = plugin.va
        /\ plugin'.iMgrFd = plugin.iMgrFd /\ plugin'.iVpuFd = plugin.iVpuFd
        /\ plugin'.isSeqHeaderDone = plugin.isSeqHeaderDone
        /\ plugin'.bInited = plugin.bInited /\ plugin'.sized = plugin.sized
    BY <2>3, <2>4, <2>5 DEF EncTypes, PluginSet
  <2>7. EncTypes' /\ EncResource' /\ EncOpen' /\ EncHeader'
    BY <1>1, <2>6 DEF EncTypes, EncResource, EncOpen, EncHeader
  <2>8. /\ e_last'.call = "encode" /\ e_last'.coded = out
        /\ e_last'.plugin = Encoder!Encode_Error(outcome.ret, out)
        /\ e_last'.copied = Encoder!CopyPicture(planes)
    BY <2>4 DEF Encoder!Nothing
  <2>9. e_last'.fetched = outcome.fetched
    BY <2>4 DEF Encoder!Nothing
  <2>10. Encoder!CodedIsCurrent'
    <3>. SUFFICES ASSUME e_last'.plugin = "ok", e_last'.fetched, e_codec' # "mjpeg"
                  PROVE  e_last'.coded \in {0, e_frames'}
      BY DEF Encoder!CodedIsCurrent
    <3>1. outcome.ret = "ok" /\ out = outcome.coded
      BY <1>1, <2>5, <2>8 DEF Encoder!Encode_Error
    <3>. QED  BY <2>3, <2>8, <2>9, <3>1
  <2>11. Encoder!HeaderComplete'
    BY <2>8 DEF Encoder!HeaderComplete
  <2>12. Encoder!CopiesIntoRaw'
    <3>1. e_last'.copied = "null" => plugin.sized /\ "raw" \notin plugin.va
      BY <2>8 DEF Encoder!CopyPicture
    <3>2. plugin.sized => plugin.iVpuFd >= 0
      BY <1>1, <1>4 DEF EncResource
    <3>. QED  BY <2>6, <3>1, <3>2 DEF Encoder!CopiesIntoRaw, Encoder!Drivers
  <2>. QED  BY <1>2, <2>7, <2>10, <2>11, <2>12
<1>. QED  BY <1>3, <1>4

(* Without a resource, or with one that has nothing open, Deinit has       *)
(* nothing to do.                                                          *)
LEMMA EncDeinitKeeps ==
  ASSUME EncInv, Encoder!VideoEncoder_Deinit
  PROVE  EncInv'
<1>. USE DEF EncInv
<1>1. /\ e_calls \in {"working", "failed"} /\ e_calls' = "deinited" /\ e_last' = Encoder!Nothing
      /\ UNCHANGED <<e_codec, e_resource, heap, e_inits, e_frames>>
  BY DEF Encoder!VideoEncoder_Deinit, Encoder!Callable
<1>2. EncHeap' /\ Encoder!DestroyFrees'
  BY <1>1 DEF EncHeap, Encoder!DestroyFrees
<1>3. Encoder!CodedIsCurrent' /\ Encoder!HeaderComplete' /\ Encoder!CopiesIntoRaw'
  BY <1>1 DEF Encoder!Nothing, Encoder!CodedIsCurrent, Encoder!HeaderComplete,
              Encoder!CopiesIntoRaw
<1>4. CASE e_resource = 0 \/ ~plugin.bInited
  <2>1. UNCHANGED <<plugin, files, e_maps>> /\ e_calls = "failed"
    BY <1>1, <1>4 DEF Encoder!VideoEncoder_Deinit, Encoder!Plugin_Deinit, Encoder!process,
                      EncResource
  <2>2. EncTypes' /\ EncResource' /\ EncOpen' /\ EncHeader'
    BY <1>1, <2>1 DEF EncTypes, EncResource, EncOpen, EncHeader
  <2>3. Encoder!DeinitReleases'
    BY <2>1 DEF EncOpen, Encoder!DeinitReleases
  <2>. QED  BY <1>2, <1>3, <2>2, <2>3
<1>5. CASE e_resource # 0 /\ plugin.bInited
  <2>1. e_calls = "working"
    BY <1>1, <1>5 DEF EncResource
  <2>2. /\ plugin' = [plugin EXCEPT !.iMgrFd = -1, !.iVpuFd = -1]
        /\ files' = files \ {plugin.iMgrFd, plugin.iVpuFd}
        /\ e_maps' = {m \in e_maps : m[1] # e_resource
                                     \/ m[2] \notin Encoder!free_alloc_buffers \cap plugin.va}
    BY <1>5 DEF Encoder!VideoEncoder_Deinit, Encoder!Plugin_Deinit
  <2>3. /\ files' \subseteq {0}
        /\ \A m \in e_maps' : m[1] \in 1..e_inits' /\ m[2] \in {"work", "me", "slice"}
    BY <1>1, <2>1, <2>2 DEF EncOpen
  <2>4. /\ plugin' \in PluginSet /\ plugin'.codec = plugin.codec /\ plugin'.header = plugin.header
        /\ plugin'.isSeqHeaderDone = plugin.isSeqHeaderDone
    <3>1. plugin' \in PluginSet
      <4>1. \A n \in -1..3 : [plugin EXCEPT !.iMgrFd = n, !.iVpuFd = n] \in PluginSet
        BY DEF EncTypes, PluginSet
      <4>2. -1 \in -1..3
        OBVIOUS
      <4>. QED  BY <2>2, <4>1, <4>2
    <3>2. plugin'.codec = plugin.codec /\ plugin'.header = plugin.header
      BY <2>2 DEF EncTypes, PluginSet
    <3>3. plugin'.isSeqHeaderDone = plugin.isSeqHeaderDone
      BY <2>2 DEF EncTypes, PluginSet
    <3>. QED  BY <3>1, <3>2, <3>3
  <2>5. EncTypes' /\ EncResource' /\ EncOpen' /\ EncHeader'
    BY <1>1, <2>3, <2>4 DEF EncTypes, EncResource, EncOpen, EncHeader
  <2>6. Encoder!DeinitReleases'
    BY <2>3 DEF Encoder!DeinitReleases
  <2>. QED  BY <1>2, <1>3, <2>5, <2>6
<1>. QED  BY <1>4, <1>5

LEMMA EncDestroyKeeps ==
  ASSUME EncInv, Encoder!VideoEncoder_Destroy
  PROVE  EncInv'
<1>. USE DEF EncInv
<1>1. /\ e_calls \in {"created", "failed", "deinited"} /\ e_calls' = "destroyed"
      /\ e_last' = Encoder!Nothing
      /\ heap' = IF e_codec # "none" THEN heap \ {e_resource} ELSE heap
      /\ UNCHANGED <<e_codec, e_resource, plugin, files, e_maps, e_inits, e_frames>>
  BY DEF Encoder!VideoEncoder_Destroy, Encoder!process
<1>2. EncTypes' /\ EncResource' /\ EncOpen' /\ EncHeader'
  BY <1>1 DEF EncTypes, EncResource, EncOpen, EncHeader
<1>3. EncHeap' /\ Encoder!DestroyFrees'
  <2>1. e_codec = "none" /\ e_inits <= 1 => heap = {}
    BY <1>1 DEF EncHeap, EncResource, EncTypes
  <2>. QED  BY <1>1, <2>1 DEF EncHeap, Encoder!DestroyFrees
<1>4. Encoder!CodedIsCurrent' /\ Encoder!HeaderComplete' /\ Encoder!CopiesIntoRaw'
  BY <1>1 DEF Encoder!Nothing, Encoder!CodedIsCurrent, Encoder!HeaderComplete,
              Encoder!CopiesIntoRaw
<1>5. Encoder!DeinitReleases'
  BY <1>1 DEF Encoder!DeinitReleases
<1>. QED  BY <1>2, <1>3, <1>4, <1>5

LEMMA EncCreateKeeps ==
  ASSUME Encoder!VideoEncoder_Create
  PROVE  EncInv'
<1>1. PICK c \in EncoderSetup.codecs : plugin' = Encoder!Open(c)
  BY EncoderAssumption DEF Encoder!VideoEncoder_Create, Encoder!EncoderConstants
<1>2. plugin' \in PluginSet
  BY <1>1, EmptySeq DEF Encoder!Open, PluginSet
<1>3. EncTypes'
  BY <1>2 DEF EncTypes, Encoder!VideoEncoder_Create
<1>4. EncResource' /\ EncOpen' /\ EncHeap'
  BY DEF Encoder!VideoEncoder_Create, EncResource, EncOpen, EncHeap
<1>5. EncHeader'
  BY <1>1 DEF Encoder!Open, EncHeader
<1>6. Encoder!DeinitReleases' /\ Encoder!DestroyFrees'
  BY DEF Encoder!VideoEncoder_Create, Encoder!DeinitReleases, Encoder!DestroyFrees
<1>7. Encoder!CodedIsCurrent' /\ Encoder!HeaderComplete' /\ Encoder!CopiesIntoRaw'
  BY DEF Encoder!VideoEncoder_Create, Encoder!Nothing, Encoder!CodedIsCurrent,
         Encoder!HeaderComplete, Encoder!CopiesIntoRaw
<1>. QED  BY <1>3, <1>4, <1>5, <1>6, <1>7 DEF EncInv

LEMMA EncStep ==
  ASSUME EncInv, Encoder!Next
  PROVE  EncInv'
BY EncInitKeeps, EncHeaderKeeps, EncEncodeKeeps, EncDeinitKeeps, EncDestroyKeeps, EncCreateKeeps
DEF Encoder!Next

------------------------------------------------------------------------------
(* The old library's handles: devices, memory and commands.                *)

(* An instance of a handle, and the device of an index.                    *)
OldInstances ==
  [index : OldSetup.indices, env : BOOLEAN, opened : BOOLEAN, va : SUBSET Old!AllMapped,
   extra : Int, frames : Int, seq : BOOLEAN, first : BOOLEAN, half : Int,
   stream : Seq(Int)]

OldTypes ==
  /\ inst \in [OldSetup.handles -> OldInstances \cup {Old!NoInstance}]
  /\ dev \in [OldSetup.indices ->
                [mem : SUBSET (OldSetup.handles \X Old!Buffers), open : BOOLEAN]]
  /\ o_codec \in [OldSetup.handles -> OldSetup.codecs]
  /\ o_calls \in [OldSetup.handles -> {"created", "working", "failed", "failed_header",
                                       "decoding", "decoded", "deinited"}]
  /\ o_maps \subseteq OldSetup.handles \X Old!AllMapped
  /\ taken \subseteq OldSetup.indices /\ other \subseteq taken

(* Memory on a device is that of the handle whose instance it belongs to;  *)
(* a handle's mappings are those its instance has a record of, and each    *)
(* has its memory.                                                         *)
OldMemory ==
  /\ \A k \in OldSetup.indices : \A m \in dev[k].mem :
       inst[m[1]] # Old!NoInstance /\ inst[m[1]].index = k
  /\ \A m \in o_maps : inst[m[1]] # Old!NoInstance /\ m[2] \in inst[m[1]].va
  /\ \A h \in Old!Live : \A b \in inst[h].va :
       <<h, b>> \in o_maps /\ <<h, b>> \in dev[inst[h].index].mem

(* Where a handle is: an instance that is closed has nothing, one that     *)
(* works has its environment, its buffers and its codec open.              *)
Life(call, c, i, d) ==
  /\ call \in {"created", "deinited"} => i = Old!NoInstance
  /\ i # Old!NoInstance => (i.opened => d.open) /\ (~i.env => i.va = {} /\ d.mem = {})
  /\ call = "failed" /\ i # Old!NoInstance => ~i.env /\ ~i.opened
  /\ call \in {"working", "decoding", "decoded", "failed_header"} =>
       /\ i # Old!NoInstance /\ i.env /\ i.opened
       /\ {Old!Ready(c)[k] : k \in DOMAIN Old!Ready(c)} \ Old!Physical \subseteq i.va

OldLife ==
  \A h \in OldSetup.handles : Life(o_calls[h], o_codec[h], inst[h], dev[inst[h].index])

OldInv ==
  /\ OldTypes /\ OldMemory /\ OldLife
  /\ Old!IndexOwned /\ Old!NoIndexLost /\ Old!CommandsInOrder

(* A call works on the instance and the device of its handle: what it has  *)
(* is its own, and the other handles' mappings stay.                       *)
CallOK(h, s) ==
  /\ s \in [h : {h}, i : OldInstances, d : [mem : SUBSET ({h} \X Old!Buffers), open : BOOLEAN],
            m : SUBSET (OldSetup.handles \X Old!AllMapped), stray : BOOLEAN]
  /\ {h} \X s.i.va \subseteq s.d.mem
  /\ s.m = ({h} \X s.i.va) \cup {m \in o_maps : m[1] # h}
  /\ s.i.opened => s.d.open
  /\ ~s.i.env => s.i.va = {} /\ s.d.mem = {}
  /\ ~s.stray

HasEnv(s) == s.i.env
IsOpen(s) == s.i.opened

(* What a function of a codec keeps of an open instance.                   *)
Kept(s, r) ==
  /\ r.i.index = s.i.index /\ s.i.va \subseteq r.i.va
  /\ HasEnv(s) => HasEnv(r)
  /\ IsOpen(s) => IsOpen(r)

LEMMA OldSets ==
  /\ OldSetup.codecs \subseteq {"vpu", "hevc", "4kd2", "mjpeg"}
  /\ OldSetup.indices \subseteq Nat /\ 0 \in OldSetup.indices
  /\ OldSetup.pictures \subseteq Int /\ OldSetup.extras \subseteq Int
  /\ OldSetup.minFrames \in Int /\ OldSetup.avail \in Int /\ OldSetup.maxFrames \in Int
  /\ -1 \notin OldSetup.indices
BY OldAssumption DEF Old!OldVdecConstants

(* One field of an instance is changed.                                    *)
LEMMA OldRecord ==
  ASSUME NEW i \in OldInstances
  PROVE  i = [index |-> i.index, env |-> i.env, opened |-> i.opened, va |-> i.va,
              extra |-> i.extra, frames |-> i.frames, seq |-> i.seq, first |-> i.first,
              half |-> i.half, stream |-> i.stream]
BY DEF OldInstances

LEMMA SetVa ==
  ASSUME NEW i \in OldInstances, NEW v \in SUBSET Old!AllMapped
  PROVE  /\ [i EXCEPT !.va = v] \in OldInstances
         /\ [i EXCEPT !.va = v].index = i.index
         /\ [i EXCEPT !.va = v].env = i.env
         /\ [i EXCEPT !.va = v].opened = i.opened
         /\ [i EXCEPT !.va = v].seq = i.seq
         /\ [i EXCEPT !.va = v].va = v
<1>. DEFINE j == [i EXCEPT !.va = v]
<1>1. j = [index |-> i.index, env |-> i.env, opened |-> i.opened, va |-> v, extra |->
           i.extra, frames |-> i.frames, seq |-> i.seq, first |-> i.first, half |->
           i.half, stream |-> i.stream]
  BY OldRecord
<1>. HIDE DEF j
<1>2. j \in OldInstances
  BY <1>1 DEF OldInstances
<1>3. j.index = i.index
  BY <1>1
<1>4. j.env = i.env
  BY <1>1
<1>5. j.opened = i.opened
  BY <1>1
<1>6. j.seq = i.seq
  BY <1>1
<1>7. j.va = v
  BY <1>1
<1>. QED  BY <1>2, <1>3, <1>4, <1>5, <1>6, <1>7 DEF j

LEMMA SetEnv ==
  ASSUME NEW i \in OldInstances, NEW b \in BOOLEAN
  PROVE  /\ [i EXCEPT !.env = b] \in OldInstances
         /\ [i EXCEPT !.env = b].va = i.va
         /\ [i EXCEPT !.env = b].index = i.index
         /\ [i EXCEPT !.env = b].opened = i.opened
         /\ [i EXCEPT !.env = b].seq = i.seq
         /\ [i EXCEPT !.env = b].env = b
<1>. DEFINE j == [i EXCEPT !.env = b]
<1>1. j = [index |-> i.index, env |-> b, opened |-> i.opened, va |-> i.va, extra |->
           i.extra, frames |-> i.frames, seq |-> i.seq, first |-> i.first, half |->
           i.half, stream |-> i.stream]
  BY OldRecord
<1>. HIDE DEF j
<1>2. j \in OldInstances
  BY <1>1 DEF OldInstances
<1>3. j.va = i.va
  BY <1>1
<1>4. j.index = i.index
  BY <1>1
<1>5. j.opened = i.opened
  BY <1>1
<1>6. j.seq = i.seq
  BY <1>1
<1>7. j.env = b
  BY <1>1
<1>. QED  BY <1>2, <1>3, <1>4, <1>5, <1>6, <1>7 DEF j

LEMMA SetOpened ==
  ASSUME NEW i \in OldInstances, NEW b \in BOOLEAN
  PROVE  /\ [i EXCEPT !.opened = b] \in OldInstances
         /\ [i EXCEPT !.opened = b].va = i.va
         /\ [i EXCEPT !.opened = b].index = i.index
         /\ [i EXCEPT !.opened = b].env = i.env
         /\ [i EXCEPT !.opened = b].seq = i.seq
         /\ [i EXCEPT !.opened = b].opened = b
<1>. DEFINE j == [i EXCEPT !.opened = b]
<1>1. j = [index |-> i.index, env |-> i.env, opened |-> b, va |-> i.va, extra |->
           i.extra, frames |-> i.frames, seq |-> i.seq, first |-> i.first, half |->
           i.half, stream |-> i.stream]
  BY OldRecord
<1>. HIDE DEF j
<1>2. j \in OldInstances
  BY <1>1 DEF OldInstances
<1>3. j.va = i.va
  BY <1>1
<1>4. j.index = i.index
  BY <1>1
<1>5. j.env = i.env
  BY <1>1
<1>6. j.seq = i.seq
  BY <1>1
<1>7. j.opened = b
  BY <1>1
<1>. QED  BY <1>2, <1>3, <1>4, <1>5, <1>6, <1>7 DEF j

LEMMA SetExtra ==
  ASSUME NEW i \in OldInstances, NEW n \in Int
  PROVE  /\ [i EXCEPT !.extra = n] \in OldInstances
         /\ [i EXCEPT !.extra = n].va = i.va
         /\ [i EXCEPT !.extra = n].index = i.index
         /\ [i EXCEPT !.extra = n].env = i.env
         /\ [i EXCEPT !.extra = n].opened = i.opened
         /\ [i EXCEPT !.extra = n].seq = i.seq
         /\ [i EXCEPT !.extra = n].extra = n
<1>. DEFINE j == [i EXCEPT !.extra = n]
<1>1. j = [index |-> i.index, env |-> i.env, opened |-> i.opened, va |-> i.va, extra |->
           n, frames |-> i.frames, seq |-> i.seq, first |-> i.first, half |-> i.half,
           stream |-> i.stream]
  BY OldRecord
<1>. HIDE DEF j
<1>2. j \in OldInstances
  BY <1>1 DEF OldInstances
<1>3. j.va = i.va
  BY <1>1
<1>4. j.index = i.index
  BY <1>1
<1>5. j.env = i.env
  BY <1>1
<1>6. j.opened = i.opened
  BY <1>1
<1>7. j.seq = i.seq
  BY <1>1
<1>8. j.extra = n
  BY <1>1
<1>. QED  BY <1>2, <1>3, <1>4, <1>5, <1>6, <1>7, <1>8 DEF j

LEMMA SetHalf ==
  ASSUME NEW i \in OldInstances, NEW n \in Int
  PROVE  /\ [i EXCEPT !.half = n] \in OldInstances
         /\ [i EXCEPT !.half = n].va = i.va
         /\ [i EXCEPT !.half = n].index = i.index
         /\ [i EXCEPT !.half = n].env = i.env
         /\ [i EXCEPT !.half = n].opened = i.opened
         /\ [i EXCEPT !.half = n].seq = i.seq
         /\ [i EXCEPT !.half = n].half = n
<1>. DEFINE j == [i EXCEPT !.half = n]
<1>1. j = [index |-> i.index, env |-> i.env, opened |-> i.opened, va |-> i.va, extra |->
           i.extra, frames |-> i.frames, seq |-> i.seq, first |-> i.first, half |-> n,
           stream |-> i.stream]
  BY OldRecord
<1>. HIDE DEF j
<1>2. j \in OldInstances
  BY <1>1 DEF OldInstances
<1>3. j.va = i.va
  BY <1>1
<1>4. j.index = i.index
  BY <1>1
<1>5. j.env = i.env
  BY <1>1
<1>6. j.opened = i.opened
  BY <1>1
<1>7. j.seq = i.seq
  BY <1>1
<1>8. j.half = n
  BY <1>1
<1>. QED  BY <1>2, <1>3, <1>4, <1>5, <1>6, <1>7, <1>8 DEF j

LEMMA SetFrames ==
  ASSUME NEW i \in OldInstances, NEW n \in Int
  PROVE  /\ [i EXCEPT !.frames = n] \in OldInstances
         /\ [i EXCEPT !.frames = n].va = i.va
         /\ [i EXCEPT !.frames = n].index = i.index
         /\ [i EXCEPT !.frames = n].env = i.env
         /\ [i EXCEPT !.frames = n].opened = i.opened
         /\ [i EXCEPT !.frames = n].seq = i.seq
         /\ [i EXCEPT !.frames = n].frames = n
<1>. DEFINE j == [i EXCEPT !.frames = n]
<1>1. j = [index |-> i.index, env |-> i.env, opened |-> i.opened, va |-> i.va, extra |->
           i.extra, frames |-> n, seq |-> i.seq, first |-> i.first, half |-> i.half,
           stream |-> i.stream]
  BY OldRecord
<1>. HIDE DEF j
<1>2. j \in OldInstances
  BY <1>1 DEF OldInstances
<1>3. j.va = i.va
  BY <1>1
<1>4. j.index = i.index
  BY <1>1
<1>5. j.env = i.env
  BY <1>1
<1>6. j.opened = i.opened
  BY <1>1
<1>7. j.seq = i.seq
  BY <1>1
<1>8. j.frames = n
  BY <1>1
<1>. QED  BY <1>2, <1>3, <1>4, <1>5, <1>6, <1>7, <1>8 DEF j

LEMMA SetSeq ==
  ASSUME NEW i \in OldInstances, NEW b \in BOOLEAN
  PROVE  /\ [i EXCEPT !.seq = b] \in OldInstances
         /\ [i EXCEPT !.seq = b].va = i.va
         /\ [i EXCEPT !.seq = b].index = i.index
         /\ [i EXCEPT !.seq = b].env = i.env
         /\ [i EXCEPT !.seq = b].opened = i.opened
         /\ [i EXCEPT !.seq = b].seq = b
<1>. DEFINE j == [i EXCEPT !.seq = b]
<1>1. j = [index |-> i.index, env |-> i.env, opened |-> i.opened, va |-> i.va, extra |->
           i.extra, frames |-> i.frames, seq |-> b, first |-> i.first, half |-> i.half,
           stream |-> i.stream]
  BY OldRecord
<1>. HIDE DEF j
<1>2. j \in OldInstances
  BY <1>1 DEF OldInstances
<1>3. j.va = i.va
  BY <1>1
<1>4. j.index = i.index
  BY <1>1
<1>5. j.env = i.env
  BY <1>1
<1>6. j.opened = i.opened
  BY <1>1
<1>7. j.seq = b
  BY <1>1
<1>. QED  BY <1>2, <1>3, <1>4, <1>5, <1>6, <1>7 DEF j

LEMMA SetFirst ==
  ASSUME NEW i \in OldInstances, NEW b \in BOOLEAN
  PROVE  /\ [i EXCEPT !.first = b] \in OldInstances
         /\ [i EXCEPT !.first = b].va = i.va
         /\ [i EXCEPT !.first = b].index = i.index
         /\ [i EXCEPT !.first = b].env = i.env
         /\ [i EXCEPT !.first = b].opened = i.opened
         /\ [i EXCEPT !.first = b].seq = i.seq
         /\ [i EXCEPT !.first = b].first = b
<1>. DEFINE j == [i EXCEPT !.first = b]
<1>1. j = [index |-> i.index, env |-> i.env, opened |-> i.opened, va |-> i.va, extra |->
           i.extra, frames |-> i.frames, seq |-> i.seq, first |-> b, half |-> i.half,
           stream |-> i.stream]
  BY OldRecord
<1>. HIDE DEF j
<1>2. j \in OldInstances
  BY <1>1 DEF OldInstances
<1>3. j.va = i.va
  BY <1>1
<1>4. j.index = i.index
  BY <1>1
<1>5. j.env = i.env
  BY <1>1
<1>6. j.opened = i.opened
  BY <1>1
<1>7. j.seq = i.seq
  BY <1>1
<1>8. j.first = b
  BY <1>1
<1>. QED  BY <1>2, <1>3, <1>4, <1>5, <1>6, <1>7, <1>8 DEF j

LEMMA SetStream ==
  ASSUME NEW i \in OldInstances, NEW q \in Seq(Int)
  PROVE  /\ [i EXCEPT !.stream = q] \in OldInstances
         /\ [i EXCEPT !.stream = q].va = i.va
         /\ [i EXCEPT !.stream = q].index = i.index
         /\ [i EXCEPT !.stream = q].env = i.env
         /\ [i EXCEPT !.stream = q].opened = i.opened
         /\ [i EXCEPT !.stream = q].seq = i.seq
         /\ [i EXCEPT !.stream = q].stream = q
<1>. DEFINE j == [i EXCEPT !.stream = q]
<1>1. j = [index |-> i.index, env |-> i.env, opened |-> i.opened, va |-> i.va, extra |->
           i.extra, frames |-> i.frames, seq |-> i.seq, first |-> i.first, half |->
           i.half, stream |-> q]
  BY OldRecord
<1>. HIDE DEF j
<1>2. j \in OldInstances
  BY <1>1 DEF OldInstances
<1>3. j.va = i.va
  BY <1>1
<1>4. j.index = i.index
  BY <1>1
<1>5. j.env = i.env
  BY <1>1
<1>6. j.opened = i.opened
  BY <1>1
<1>7. j.seq = i.seq
  BY <1>1
<1>8. j.stream = q
  BY <1>1
<1>. QED  BY <1>2, <1>3, <1>4, <1>5, <1>6, <1>7, <1>8 DEF j

(* Each function a call is made of keeps what the call works on in order.  *)
LEMMA CommandOK ==
  ASSUME NEW h \in OldSetup.handles, NEW s, CallOK(h, s), s.d.open
  PROVE  CallOK(h, Old!Command(s)) /\ Old!Command(s).i = s.i /\ Old!Command(s).d = s.d
<1>1. s.stray \in BOOLEAN /\ s.d.open \in BOOLEAN
  BY DEF CallOK
<1>2. (s.stray \/ ~s.d.open) = s.stray
  BY <1>1, Zenon
<1>3. Old!Command(s) = s
  BY <1>2 DEF Old!Command, CallOK
<1>. QED  BY <1>3

LEMMA MallocOK ==
  ASSUME NEW h \in OldSetup.handles, NEW s, CallOK(h, s), HasEnv(s),
         NEW buffers \in Seq(Old!Buffers), NEW n \in 0..Len(buffers), NEW how,
         NEW r, r = Old!malloc_dual_addr(s, buffers, n, how)
  PROVE  /\ CallOK(h, r) /\ HasEnv(r) /\ Kept(s, r)
         /\ n = Len(buffers) =>
              {buffers[k] : k \in DOMAIN buffers} \ Old!Physical \subseteq r.i.va
<1>. DEFINE there  == {buffers[k] : k \in 1..n}
            half   == IF n < Len(buffers) /\ how = "va" /\ buffers[n + 1] \notin Old!Physical
                      THEN {buffers[n + 1]} ELSE {}
            mapped == there \ Old!Physical
<1>1. there \subseteq Old!Buffers /\ half \subseteq Old!Buffers /\ mapped \subseteq Old!AllMapped
  <2>1. \A k \in 1..Len(buffers) : buffers[k] \in Old!Buffers
    OBVIOUS
  <2>2. n \in 0..Len(buffers) /\ Len(buffers) \in Nat
    OBVIOUS
  <2>3. there \subseteq Old!Buffers /\ half \subseteq Old!Buffers
    BY <2>1, <2>2
  <2>. QED  BY <2>3 DEF Old!Buffers, Old!AllMapped, Old!Physical
<1>2. n = Len(buffers) => mapped = {buffers[k] : k \in DOMAIN buffers} \ Old!Physical
  OBVIOUS
<1>3. r = [s EXCEPT !.d.mem = @ \cup ({s.h} \X (there \cup half)),
                    !.i.va = @ \cup mapped, !.m = @ \cup ({s.h} \X mapped)]
  BY DEF Old!malloc_dual_addr
<1>4. mapped \subseteq there
  OBVIOUS
<1>. HIDE DEF there, half, mapped
<1>5. /\ s.h = h /\ s.i.va \subseteq Old!AllMapped
      /\ s.d.mem \subseteq {h} \X Old!Buffers /\ s.m \subseteq OldSetup.handles \X Old!AllMapped
  BY DEF CallOK, OldInstances
<1>6. r = [h |-> h, i |-> [s.i EXCEPT !.va = @ \cup mapped],
           d |-> [s.d EXCEPT !.mem = @ \cup ({h} \X (there \cup half))],
           m |-> s.m \cup ({h} \X mapped), stray |-> s.stray]
  BY <1>3, <1>5 DEF CallOK
<1>7. /\ r.i = [s.i EXCEPT !.va = @ \cup mapped]
      /\ r.d = [s.d EXCEPT !.mem = @ \cup ({h} \X (there \cup half))]
      /\ r.m = s.m \cup ({h} \X mapped) /\ r.stray = s.stray /\ r.h = h
  BY <1>6
<1>8. /\ r.i.va = s.i.va \cup mapped /\ r.i \in OldInstances /\ r.i.index = s.i.index
      /\ r.d.mem = s.d.mem \cup ({h} \X (there \cup half))
  <2>1. s.i \in OldInstances /\ s.d \in [mem : SUBSET ({h} \X Old!Buffers), open : BOOLEAN]
    BY DEF CallOK
  <2>2. r.i \in OldInstances /\ r.i.va = s.i.va \cup mapped /\ r.i.index = s.i.index
    <3>1. s.i.va \cup mapped \in SUBSET Old!AllMapped
      BY <1>1, <1>5
    <3>2. r.i = [s.i EXCEPT !.va = s.i.va \cup mapped]
      BY <1>7
    <3>3. s.i \in OldInstances
      BY <2>1
    <3>4. /\ [s.i EXCEPT !.va = s.i.va \cup mapped] \in OldInstances
          /\ [s.i EXCEPT !.va = s.i.va \cup mapped].va = s.i.va \cup mapped
      BY <3>1, <3>3, SetVa
    <3>5. [s.i EXCEPT !.va = s.i.va \cup mapped].index = s.i.index
      BY <3>1, <3>3, SetVa
    <3>6. r.i \in OldInstances
      BY <3>2, <3>4
    <3>7. r.i.va = s.i.va \cup mapped
      BY <3>2, <3>4
    <3>8. r.i.index = s.i.index
      BY <3>2, <3>5
    <3>. QED  BY <3>6, <3>7, <3>8
  <2>3. r.d.mem = s.d.mem \cup ({h} \X (there \cup half))
    BY <1>7, <2>1
  <2>. QED  BY <2>2, <2>3
<1>9. /\ r.i.env = s.i.env /\ r.i.opened = s.i.opened /\ r.i.seq = s.i.seq
      /\ r.d.open = s.d.open
  BY <1>7 DEF CallOK, OldInstances
<1>10. r.d \in [mem : SUBSET ({h} \X Old!Buffers), open : BOOLEAN]
  BY <1>1, <1>5, <1>7 DEF CallOK
<1>11. r \in [h : {h}, i : OldInstances, d : [mem : SUBSET ({h} \X Old!Buffers), open : BOOLEAN],
            m : SUBSET (OldSetup.handles \X Old!AllMapped), stray : BOOLEAN]
  <2>1. s.stray \in BOOLEAN
    BY DEF CallOK
  <2>2. s.m \cup ({h} \X mapped) \subseteq OldSetup.handles \X Old!AllMapped
    BY <1>1, <1>5
  <2>. QED  BY <1>6, <1>7, <1>8, <1>10, <2>1, <2>2
<1>12. /\ {h} \X r.i.va \subseteq r.d.mem
       /\ r.m = ({h} \X r.i.va) \cup {m \in o_maps : m[1] # h}
  BY <1>4, <1>7, <1>8 DEF CallOK
<1>13. CallOK(h, r)
  BY <1>7, <1>8, <1>9, <1>11, <1>12 DEF CallOK, HasEnv
<1>14. HasEnv(r)
  BY <1>9, Zenon DEF HasEnv
<1>15. IsOpen(s) => IsOpen(r)
  BY <1>9, Zenon DEF IsOpen
<1>16. s.i.va \subseteq r.i.va /\ r.i.index = s.i.index
  BY <1>8
<1>17. Kept(s, r)
  BY <1>14, <1>15, <1>16, Zenon DEF Kept
<1>. QED  BY <1>2, <1>8, <1>13, <1>14, <1>17

LEMMA EnvOpenOK ==
  ASSUME NEW h \in OldSetup.handles, NEW s, CallOK(h, s)
  PROVE  /\ CallOK(h, Old!vpu_env_open(s)) /\ HasEnv(Old!vpu_env_open(s))
         /\ Old!vpu_env_open(s).i.index = s.i.index
<1>. DEFINE j == [s.i EXCEPT !.env = TRUE, !.extra = 4]
            r == Old!vpu_env_open(s)
<1>1. s.i \in OldInstances
  BY DEF CallOK
<1>2. r = [s EXCEPT !.i = j]
  BY <1>1 DEF Old!vpu_env_open, CallOK, OldInstances
<1>3. /\ j \in OldInstances /\ j.va = s.i.va /\ j.index = s.i.index
      /\ j.opened = s.i.opened /\ j.env = TRUE
  <2>. DEFINE k == [s.i EXCEPT !.env = TRUE]
  <2>1. j = [k EXCEPT !.extra = 4]
    BY <1>1 DEF OldInstances
  <2>2. k \in OldInstances /\ k.va = s.i.va /\ k.index = s.i.index
    BY <1>1, TRUE \in BOOLEAN, SetEnv
  <2>3. k.opened = s.i.opened
    BY <1>1, TRUE \in BOOLEAN, SetEnv
  <2>4. k.env = TRUE
    BY <1>1, TRUE \in BOOLEAN, SetEnv, Zenon
  <2>. HIDE DEF j, k
  <2>5. j \in OldInstances /\ j.va = s.i.va /\ j.index = s.i.index
    BY <2>1, <2>2, 4 \in Int, SetExtra
  <2>6. j.opened = s.i.opened
    BY <2>1, <2>2, <2>3, 4 \in Int, SetExtra
  <2>7. j.env = TRUE
    BY <2>1, <2>2, <2>4, 4 \in Int, SetExtra, Zenon
  <2>. QED  BY <2>5, <2>6, <2>7
<1>4. j.opened = s.i.opened /\ j.env
  BY <1>3
<1>. HIDE DEF j, r
<1>5. r.i = j /\ r.d = s.d /\ r.m = s.m /\ r.stray = s.stray /\ r.h = s.h
  BY <1>2 DEF CallOK
<1>6. r \in [h : {h}, i : OldInstances, d : [mem : SUBSET ({h} \X Old!Buffers), open : BOOLEAN],
            m : SUBSET (OldSetup.handles \X Old!AllMapped), stray : BOOLEAN]
  BY <1>2, <1>3 DEF CallOK
<1>7. /\ {h} \X r.i.va \subseteq r.d.mem
      /\ r.m = ({h} \X r.i.va) \cup {m \in o_maps : m[1] # h}
  BY <1>3, <1>5 DEF CallOK
<1>8. r.i.opened => r.d.open
  BY <1>4, <1>5 DEF CallOK
<1>9. r.i.env /\ ~r.stray
  BY <1>4, <1>5 DEF CallOK
<1>10. CallOK(h, r)
  BY <1>6, <1>7, <1>8, <1>9 DEF CallOK
<1>11. HasEnv(r)
  BY <1>9 DEF HasEnv
<1>. QED  BY <1>3, <1>5, <1>10, <1>11 DEF r

LEMMA SetOpen ==
  ASSUME NEW h, NEW d \in [mem : SUBSET ({h} \X Old!Buffers), open : BOOLEAN], NEW b \in BOOLEAN
  PROVE  /\ [d EXCEPT !.open = b] \in [mem : SUBSET ({h} \X Old!Buffers), open : BOOLEAN]
         /\ [d EXCEPT !.open = b].mem = d.mem /\ [d EXCEPT !.open = b].open = b
OBVIOUS

(* What the INIT and the CLOSE of a codec make of an instance and a device *)
(* whose other fields stay.                                                *)
LEMMA OpenedOK ==
  ASSUME NEW h \in OldSetup.handles, NEW s, CallOK(h, s),
         NEW j \in OldInstances, j.va = s.i.va, j.index = s.i.index, j.env = s.i.env,
         NEW open \in BOOLEAN, j.opened => open
  PROVE  CallOK(h, [s EXCEPT !.i = j, !.d.open = open])
<1>. DEFINE e == [s.d EXCEPT !.open = open]
            r == [s EXCEPT !.i = j, !.d.open = open]
<1>1. s.d \in [mem : SUBSET ({h} \X Old!Buffers), open : BOOLEAN]
  BY DEF CallOK
<1>2. r = [s EXCEPT !.i = j, !.d = e]
  BY DEF CallOK
<1>3. e \in [mem : SUBSET ({h} \X Old!Buffers), open : BOOLEAN] /\ e.mem = s.d.mem
  BY <1>1, SetOpen
<1>4. e.open = open
  BY <1>1, SetOpen
<1>. HIDE DEF e, r
<1>5. r.i = j /\ r.d = e /\ r.m = s.m /\ r.stray = s.stray /\ r.h = s.h
  BY <1>2 DEF CallOK
<1>6. r \in [h : {h}, i : OldInstances, d : [mem : SUBSET ({h} \X Old!Buffers), open : BOOLEAN],
            m : SUBSET (OldSetup.handles \X Old!AllMapped), stray : BOOLEAN]
  BY <1>2, <1>3 DEF CallOK
<1>7. /\ {h} \X r.i.va \subseteq r.d.mem
      /\ r.m = ({h} \X r.i.va) \cup {m \in o_maps : m[1] # h}
  BY <1>3, <1>5 DEF CallOK
<1>8. r.i.opened => r.d.open
  BY <1>4, <1>5
<1>9. ~r.stray
  BY <1>5 DEF CallOK
<1>10. r.i.va = s.i.va /\ r.d.mem = s.d.mem
  BY <1>3, <1>5
<1>11. r.i.env = s.i.env
  BY <1>5
<1>12. ~r.i.env => r.i.va = {} /\ r.d.mem = {}
  BY <1>10, <1>11 DEF CallOK
<1>13. CallOK(h, r)
  BY <1>6, <1>7, <1>8, <1>9, <1>12 DEF CallOK
<1>. QED  BY <1>13 DEF r

OldCodecs == {"vpu", "hevc", "4kd2"}

CodecInit(c, s, failed) ==
  CASE c = "vpu"   -> Old!vdec_vpu_INIT(s, failed)
    [] c = "hevc"  -> Old!vdec_hevc_INIT(s, failed)
    [] c = "4kd2"  -> Old!vdec_vpu_4k_d2_INIT(s, failed)

LEMMA CodecInitOK ==
  ASSUME NEW h \in OldSetup.handles, NEW s, CallOK(h, s), HasEnv(s), NEW failed \in BOOLEAN,
         NEW c \in OldCodecs,
         NEW r, r = CodecInit(c, s, failed)
  PROVE  /\ CallOK(h, r) /\ HasEnv(r) /\ r.i.index = s.i.index /\ r.i.va = s.i.va
         /\ ~failed => IsOpen(r)
<1>. DEFINE b == (s.i.opened \/ ~failed)
            o == (s.d.open \/ ~failed)
<1>1. s.i \in OldInstances /\ s.d \in [mem : SUBSET ({h} \X Old!Buffers), open : BOOLEAN]
  BY DEF CallOK
<1>2. b \in BOOLEAN /\ o \in BOOLEAN
  BY Zenon
<1>3. b => o
  BY Zenon DEF CallOK
<1>4. ~failed => b
  BY Zenon
<1>5. \E j \in {[s.i EXCEPT !.opened = b], [[s.i EXCEPT !.opened = b] EXCEPT !.half = 0]} :
        r = [s EXCEPT !.i = j, !.d.open = o]
  <2>2. CASE c = "vpu"
    <3>1. r = [[s EXCEPT !.d.open = o] EXCEPT !.i.opened = b]
      BY <2>2 DEF CodecInit, Old!vdec_vpu_INIT, Old!InitCommand, CallOK
    <3>2. r = [s EXCEPT !.i = [s.i EXCEPT !.opened = b], !.d.open = o]
      BY <3>1 DEF CallOK
    <3>. QED  BY <3>2
  <2>3. CASE c = "hevc"
    <3>1. r = [[s EXCEPT !.d.open = o] EXCEPT !.i.opened = b, !.i.half = 0]
      BY <2>3 DEF CodecInit, Old!vdec_hevc_INIT, Old!InitCommand, CallOK
    <3>2. r = [s EXCEPT !.i = [[s.i EXCEPT !.opened = b] EXCEPT !.half = 0], !.d.open = o]
      BY <3>1 DEF CallOK
    <3>. QED  BY <3>2
  <2>4. CASE c = "4kd2"
    <3>1. r = [[s EXCEPT !.d.open = o] EXCEPT !.i.opened = b, !.i.half = 0]
      BY <2>4 DEF CodecInit, Old!vdec_vpu_4k_d2_INIT, Old!InitCommand, CallOK
    <3>2. r = [s EXCEPT !.i = [[s.i EXCEPT !.opened = b] EXCEPT !.half = 0], !.d.open = o]
      BY <3>1 DEF CallOK
    <3>. QED  BY <3>2
  <2>. QED  BY <2>2, <2>3, <2>4 DEF OldCodecs
<1>. HIDE DEF b, o
<1>6. PICK j \in OldInstances :
        /\ r = [s EXCEPT !.i = j, !.d.open = o]
        /\ j.va = s.i.va /\ j.index = s.i.index /\ j.env = s.i.env /\ j.opened = b
  <2>. DEFINE k == [s.i EXCEPT !.opened = b]
  <2>1. k \in OldInstances /\ k.va = s.i.va /\ k.index = s.i.index
    BY <1>1, <1>2, SetOpened
  <2>2. k.env = s.i.env
    BY <1>1, <1>2, SetOpened
  <2>3. k.opened = b
    BY <1>1, <1>2, SetOpened
  <2>. HIDE DEF k
  <2>. DEFINE l == [k EXCEPT !.half = 0]
  <2>4. l \in OldInstances /\ l.va = s.i.va /\ l.index = s.i.index
    BY <2>1, 0 \in Int, SetHalf
  <2>5. l.env = s.i.env
    BY <2>1, <2>2, 0 \in Int, SetHalf
  <2>6. l.opened = b
    BY <2>1, <2>3, 0 \in Int, SetHalf
  <2>. HIDE DEF l
  <2>7. \E j \in {k, l} : r = [s EXCEPT !.i = j, !.d.open = o]
    BY <1>5 DEF k, l
  <2>8. CASE r = [s EXCEPT !.i = k, !.d.open = o]
    BY <2>1, <2>2, <2>3, <2>8, Zenon
  <2>9. CASE r = [s EXCEPT !.i = l, !.d.open = o]
    BY <2>4, <2>5, <2>6, <2>9, Zenon
  <2>. QED  BY <2>7, <2>8, <2>9, Zenon
<1>7. CallOK(h, r)
  <2>1. j.opened => o
    BY <1>3, <1>6, Zenon
  <2>2. CallOK(h, [s EXCEPT !.i = j, !.d.open = o])
    BY <1>2, <1>6, <2>1, OpenedOK, Zenon
  <2>. QED  BY <1>6, <2>2, Zenon
<1>8. r.i = j
  BY <1>6 DEF CallOK
<1>9. HasEnv(r)
  BY <1>6, <1>8 DEF HasEnv
<1>10. ~failed => IsOpen(r)
  BY <1>4, <1>6, <1>8 DEF IsOpen
<1>. QED  BY <1>6, <1>7, <1>8, <1>9, <1>10

LEMMA ReadyOK ==
  ASSUME NEW c \in OldCodecs
  PROVE  Old!Ready(c) \in Seq(Old!Buffers)
<1>1. {"stream", "ps", "work"} \subseteq Old!Buffers
  BY DEF Old!Buffers
<1>2. /\ Old!vpu_dec_ready \in Seq(Old!Buffers) /\ Old!hevc_dec_ready \in Seq(Old!Buffers)
      /\ Old!vpu_4k_d2_dec_ready \in Seq(Old!Buffers)
  BY <1>1 DEF Old!vpu_dec_ready, Old!hevc_dec_ready, Old!vpu_4k_d2_dec_ready
<1>. QED  BY <1>2 DEF OldCodecs, Old!Ready

(* INIT: the environment is open whatever fails, and once nothing has, the *)
(* buffers are there and the codec is open.                                *)
LEMMA InitOK ==
  ASSUME NEW h \in OldSetup.handles, NEW s, CallOK(h, s), NEW c \in OldCodecs,
         NEW n \in 0..Len(Old!Ready(c)), NEW how, NEW failed \in BOOLEAN,
         NEW r, r = Old!VDEC_INIT(c, s, n, how, failed)
  PROVE  /\ CallOK(h, r) /\ HasEnv(r) /\ r.i.index = s.i.index
         /\ n = Len(Old!Ready(c)) /\ ~failed =>
              /\ IsOpen(r)
              /\ {Old!Ready(c)[k] : k \in DOMAIN Old!Ready(c)} \ Old!Physical \subseteq r.i.va
<1>. DEFINE e == Old!vpu_env_open(s)
            m == Old!malloc_dual_addr(e, Old!Ready(c), n, how)
<1>1. CallOK(h, e) /\ HasEnv(e) /\ e.i.index = s.i.index
  BY EnvOpenOK
<1>2. Old!Ready(c) \in Seq(Old!Buffers)
  BY ReadyOK
<1>3. r = IF n < Len(Old!Ready(c)) THEN m
          ELSE CASE c = "vpu"   -> Old!vdec_vpu_INIT(m, failed)
                 [] c = "hevc"  -> Old!vdec_hevc_INIT(m, failed)
                 [] c = "4kd2"  -> Old!vdec_vpu_4k_d2_INIT(m, failed)
                 [] c = "mjpeg" -> Old!vdec_mjpeg_jpu_INIT(m, failed)
  BY DEF Old!VDEC_INIT
<1>3a. m = Old!malloc_dual_addr(e, Old!Ready(c), n, how)
  OBVIOUS
<1>. HIDE DEF e, m
<1>4. /\ CallOK(h, m) /\ HasEnv(m) /\ Kept(e, m)
      /\ n = Len(Old!Ready(c)) =>
           {Old!Ready(c)[k] : k \in DOMAIN Old!Ready(c)} \ Old!Physical \subseteq m.i.va
  BY <1>1, <1>2, <1>3a, MallocOK
<1>4a. m.i.index = s.i.index
  BY <1>1, <1>4 DEF Kept
<1>5. CASE n < Len(Old!Ready(c))
  <2>1. r = m /\ n # Len(Old!Ready(c))
    BY <1>2, <1>3, <1>5
  <2>. QED  BY <1>4, <1>4a, <2>1
<1>6. CASE ~(n < Len(Old!Ready(c)))
  <2>1. n = Len(Old!Ready(c))
    BY <1>2, <1>6
  <2>2. r = CodecInit(c, m, failed)
    BY <1>3, <1>6 DEF OldCodecs, CodecInit
  <2>3. /\ CallOK(h, r) /\ HasEnv(r) /\ r.i.index = m.i.index /\ r.i.va = m.i.va
        /\ ~failed => IsOpen(r)
    BY <1>4, <2>2, CodecInitOK
  <2>. QED  BY <1>4, <1>4a, <2>1, <2>3
<1>. QED  BY <1>5, <1>6

(* CLOSE: whatever fails, the handle has nothing afterwards.               *)
LEMMA FreeAllOK ==
  ASSUME NEW h \in OldSetup.handles, NEW s, CallOK(h, s),
         NEW r, r = Old!vpu_env_close(Old!free_virtual_addr(s, Old!AllMapped))
  PROVE  /\ CallOK(h, r) /\ ~HasEnv(r) /\ r.i.index = s.i.index
         /\ ~IsOpen(s) => ~IsOpen(r)
         /\ r.d.mem = {} /\ r.i.va = {}
<1>. DEFINE v == [s.i EXCEPT !.va = {}]
            j == [v EXCEPT !.env = FALSE]
            d == [s.d EXCEPT !.mem = {}]
<1>1. /\ s.i \in OldInstances /\ s.h = h
      /\ s.d \in [mem : SUBSET ({h} \X Old!Buffers), open : BOOLEAN]
  BY DEF CallOK
<1>2. s.i.va \subseteq Old!AllMapped
  BY <1>1 DEF OldInstances
<1>3. r = [s EXCEPT !.i = j, !.d = d, !.m = s.m \ ({h} \X s.i.va)]
  <2>1. s.i.va \cap Old!AllMapped = s.i.va /\ s.i.va \ Old!AllMapped = {}
    BY <1>2
  <2>2. Old!free_virtual_addr(s, Old!AllMapped) =
          [s EXCEPT !.m = s.m \ ({h} \X s.i.va), !.i = v]
    BY <1>1, <2>1 DEF Old!free_virtual_addr, CallOK
  <2>3. r = [[s EXCEPT !.m = s.m \ ({h} \X s.i.va), !.i = v]
               EXCEPT !.i = j, !.d = d]
    BY <1>1, <2>2 DEF Old!vpu_env_close, CallOK
  <2>. QED  BY <2>3 DEF CallOK
<1>4. v \in OldInstances /\ v.va = {} /\ v.index = s.i.index
  BY <1>1, {} \in SUBSET Old!AllMapped, SetVa
<1>5. v.opened = s.i.opened
  BY <1>1, {} \in SUBSET Old!AllMapped, SetVa
<1>. HIDE DEF v
<1>6. j \in OldInstances /\ j.va = {} /\ j.index = s.i.index
  BY <1>4, FALSE \in BOOLEAN, SetEnv
<1>7. j.opened = s.i.opened
  BY <1>4, <1>5, FALSE \in BOOLEAN, SetEnv
<1>8. j.env = FALSE
  BY <1>4, FALSE \in BOOLEAN, SetEnv, Zenon
<1>9. d \in [mem : SUBSET ({h} \X Old!Buffers), open : BOOLEAN] /\ d.mem = {}
  BY <1>1
<1>10. d.open = s.d.open
  BY <1>1
<1>. HIDE DEF j, d
<1>11. r.i = j /\ r.d = d /\ r.m = s.m \ ({h} \X s.i.va) /\ r.stray = s.stray /\ r.h = s.h
  BY <1>3 DEF CallOK
<1>12. r.m \subseteq OldSetup.handles \X Old!AllMapped
  <2>1. s.m \subseteq OldSetup.handles \X Old!AllMapped
    BY DEF CallOK
  <2>. QED  BY <1>11, <2>1
<1>13. r \in [h : {h}, i : OldInstances, d : [mem : SUBSET ({h} \X Old!Buffers), open : BOOLEAN],
             m : SUBSET (OldSetup.handles \X Old!AllMapped), stray : BOOLEAN]
  BY <1>3, <1>6, <1>9, <1>11, <1>12 DEF CallOK
<1>14. /\ {h} \X r.i.va \subseteq r.d.mem
       /\ r.m = ({h} \X r.i.va) \cup {m \in o_maps : m[1] # h}
  <2>1. s.m = ({h} \X s.i.va) \cup {m \in o_maps : m[1] # h}
    BY DEF CallOK
  <2>2. r.m = {m \in o_maps : m[1] # h}
    BY <1>11, <2>1
  <2>. QED  BY <1>6, <1>11, <2>2
<1>15. r.i.opened => r.d.open
  BY <1>7, <1>10, <1>11 DEF CallOK
<1>16. ~r.stray
  BY <1>11 DEF CallOK
<1>17. r.i.va = {} /\ r.d.mem = {}
  BY <1>6, <1>9, <1>11
<1>18. CallOK(h, r)
  BY <1>13, <1>14, <1>15, <1>16, <1>17 DEF CallOK
<1>19. ~HasEnv(r)
  BY <1>8, <1>11, Zenon DEF HasEnv
<1>20. ~IsOpen(s) => ~IsOpen(r)
  BY <1>7, <1>11, Zenon DEF IsOpen
<1>. QED  BY <1>6, <1>11, <1>17, <1>18, <1>19, <1>20

(* The codec is closed if it was opened.                                   *)
CodecClose(s, failed) ==
  IF s.i.opened THEN [Old!CloseCommand(s, failed) EXCEPT !.i.opened = FALSE] ELSE s

LEMMA CodecClosed ==
  ASSUME NEW h \in OldSetup.handles, NEW s, CallOK(h, s), NEW failed \in BOOLEAN,
         NEW r, r = CodecClose(s, failed)
  PROVE  /\ CallOK(h, r) /\ ~IsOpen(r) /\ r.i.index = s.i.index
         /\ (HasEnv(r) => HasEnv(s)) /\ r.i.va = s.i.va /\ r.d.mem = s.d.mem
<1>1. CASE ~IsOpen(s)
  <2>1. r = s
    BY <1>1, Zenon DEF IsOpen, CodecClose
  <2>. QED  BY <1>1, <2>1
<1>2. CASE IsOpen(s)
  <2>. DEFINE j == [s.i EXCEPT !.opened = FALSE]
  <2>1. s.d.open
    BY <1>2 DEF CallOK, IsOpen
  <2>2. Old!Command(s) = s
    <3>1. (s.stray \/ ~s.d.open) = s.stray
      <4>1. s.stray \in BOOLEAN
        BY DEF CallOK
      <4>. QED  BY <2>1, <4>1, Zenon
    <3>. QED  BY <3>1 DEF Old!Command, CallOK
  <2>3. s.i \in OldInstances /\ s.d \in [mem : SUBSET ({h} \X Old!Buffers), open : BOOLEAN]
    BY DEF CallOK
  <2>4. r = [[s EXCEPT !.d.open = @ /\ failed] EXCEPT !.i.opened = FALSE]
    BY <1>2, <2>2, Zenon DEF Old!CloseCommand, IsOpen, CodecClose
  <2>. DEFINE o == (s.d.open /\ failed)
  <2>5. o \in BOOLEAN
    BY Zenon
  <2>6. r = [s EXCEPT !.i = j, !.d.open = o]
    BY <2>4 DEF CallOK
  <2>7. j \in OldInstances /\ j.va = s.i.va /\ j.index = s.i.index
    BY <2>3, FALSE \in BOOLEAN, SetOpened
  <2>8. j.env = s.i.env
    BY <2>3, FALSE \in BOOLEAN, SetOpened
  <2>9. j.opened = FALSE
    BY <2>3, FALSE \in BOOLEAN, SetOpened, Zenon
  <2>. HIDE DEF j, o
  <2>10. CallOK(h, r)
    <3>1. j.opened => o
      BY <2>9, Zenon
    <3>2. CallOK(h, [s EXCEPT !.i = j, !.d.open = o])
      BY <2>5, <2>7, <2>8, <3>1, OpenedOK, Zenon
    <3>. QED  BY <2>6, <3>2, Zenon
  <2>11. r.i = j /\ r.d = [s.d EXCEPT !.open = o]
    BY <2>6 DEF CallOK
  <2>12. ~IsOpen(r)
    BY <2>9, <2>11, Zenon DEF IsOpen
  <2>13. r.d.mem = s.d.mem
    BY <2>3, <2>11
  <2>14. r.i.index = s.i.index /\ r.i.va = s.i.va
    BY <2>7, <2>11
  <2>15. HasEnv(r) => HasEnv(s)
    BY <2>8, <2>11, Zenon DEF HasEnv
  <2>. QED  BY <2>10, <2>12, <2>13, <2>14, <2>15, Zenon
<1>. QED  BY <1>1, <1>2

LEMMA CloseOK ==
  ASSUME NEW h \in OldSetup.handles, NEW s, CallOK(h, s), NEW failed \in BOOLEAN,
         NEW c \in OldCodecs, NEW r, r = Old!VDEC_CLOSE(c, s, failed)
  PROVE  /\ CallOK(h, r) /\ ~HasEnv(r) /\ ~IsOpen(r) /\ r.i.index = s.i.index
         /\ r.d.mem = {} /\ r.i.va = {}
<1>. DEFINE t == CodecClose(s, failed)
            u == Old!vpu_env_close(Old!free_virtual_addr(t, Old!AllMapped))
<1>1. r = u \/ (r = t /\ ~HasEnv(s))
  BY DEF Old!VDEC_CLOSE, Old!vdec_vpu_CLOSE, Old!vdec_hevc_CLOSE, Old!vdec_vpu_4k_d2_CLOSE,
         OldCodecs, HasEnv, CodecClose
<1>1a. t = CodecClose(s, failed)
  OBVIOUS
<1>1b. u = Old!vpu_env_close(Old!free_virtual_addr(t, Old!AllMapped))
  OBVIOUS
<1>. HIDE DEF t, u
<1>2. CallOK(h, t) /\ ~IsOpen(t) /\ t.i.index = s.i.index
  BY <1>1a, CodecClosed
<1>3. t.i.va = s.i.va /\ t.d.mem = s.d.mem
  BY <1>1a, CodecClosed
<1>4. HasEnv(t) => HasEnv(s)
  BY <1>1a, CodecClosed
<1>5. CASE r = u
  BY <1>1b, <1>2, <1>5, FreeAllOK
<1>6. CASE r = t /\ ~HasEnv(s)
  <2>1. s.i.va = {} /\ s.d.mem = {}
    BY <1>6 DEF CallOK, HasEnv
  <2>. QED  BY <1>2, <1>3, <1>4, <1>6, <2>1
<1>. QED  BY <1>1, <1>5, <1>6

(* A call that changes only what an instance decodes.                      *)
SameLife(j, i) ==
  j.va = i.va /\ j.index = i.index /\ j.env = i.env /\ j.opened = i.opened

LEMMA SameLifeTwice ==
  ASSUME NEW i, NEW j, NEW k, SameLife(j, i), SameLife(k, j)
  PROVE  SameLife(k, i)
<1>1. k.va = i.va /\ k.index = i.index
  BY DEF SameLife
<1>2. k.env = i.env
  BY Zenon DEF SameLife
<1>3. k.opened = i.opened
  BY Zenon DEF SameLife
<1>. QED  BY <1>1, <1>2, <1>3, Zenon DEF SameLife

LEMMA KeptTwice ==
  ASSUME NEW s, NEW t, NEW r, Kept(s, t), Kept(t, r)
  PROVE  Kept(s, r)
BY DEF Kept

LEMMA SameKept ==
  ASSUME NEW h \in OldSetup.handles, NEW s, CallOK(h, s),
         NEW j \in OldInstances, SameLife(j, s.i), NEW r, r = [s EXCEPT !.i = j]
  PROVE  CallOK(h, r) /\ Kept(s, r) /\ r.i = j
<1>1. j.va = s.i.va /\ j.index = s.i.index
  BY DEF SameLife
<1>2. j.env = s.i.env
  BY Zenon DEF SameLife
<1>3. j.opened = s.i.opened
  BY Zenon DEF SameLife
<1>4. s.d \in [mem : SUBSET ({h} \X Old!Buffers), open : BOOLEAN]
  BY DEF CallOK
<1>5. s.d.open \in BOOLEAN
  BY <1>4
<1>6. j.opened => s.d.open
  BY <1>3, Zenon DEF CallOK
<1>7. CallOK(h, [s EXCEPT !.i = j, !.d.open = s.d.open])
  BY <1>1, <1>2, <1>5, <1>6, OpenedOK, Zenon
<1>8. [s EXCEPT !.i = j, !.d.open = s.d.open] = r
  BY <1>4 DEF CallOK
<1>9. CallOK(h, r)
  BY <1>7, <1>8, Zenon
<1>10. r.i = j
  BY DEF CallOK
<1>11. HasEnv(s) => HasEnv(r)
  BY <1>2, <1>10, Zenon DEF HasEnv
<1>12. IsOpen(s) => IsOpen(r)
  BY <1>3, <1>10, Zenon DEF IsOpen
<1>13. r.i.index = s.i.index /\ s.i.va \subseteq r.i.va
  BY <1>1, <1>10
<1>14. Kept(s, r)
  BY <1>11, <1>12, <1>13, Zenon DEF Kept
<1>. QED  BY <1>9, <1>10, <1>14

LEMMA SetSame ==
  ASSUME NEW i \in OldInstances
  PROVE  /\ \A n \in Int : /\ [i EXCEPT !.extra = n] \in OldInstances
                           /\ SameLife([i EXCEPT !.extra = n], i)
         /\ \A n \in Int : /\ [i EXCEPT !.half = n] \in OldInstances
                           /\ SameLife([i EXCEPT !.half = n], i)
         /\ \A n \in Int : /\ [i EXCEPT !.frames = n] \in OldInstances
                           /\ SameLife([i EXCEPT !.frames = n], i)
         /\ \A b \in BOOLEAN : /\ [i EXCEPT !.seq = b] \in OldInstances
                               /\ SameLife([i EXCEPT !.seq = b], i)
         /\ \A b \in BOOLEAN : /\ [i EXCEPT !.first = b] \in OldInstances
                               /\ SameLife([i EXCEPT !.first = b], i)
         /\ \A q \in Seq(Int) : /\ [i EXCEPT !.stream = q] \in OldInstances
                                /\ SameLife([i EXCEPT !.stream = q], i)
<1>1. \A n \in Int : /\ [i EXCEPT !.extra = n] \in OldInstances
                     /\ SameLife([i EXCEPT !.extra = n], i)
  BY SetExtra, Zenon DEF SameLife
<1>2. \A n \in Int : /\ [i EXCEPT !.half = n] \in OldInstances
                     /\ SameLife([i EXCEPT !.half = n], i)
  BY SetHalf, Zenon DEF SameLife
<1>3. \A n \in Int : /\ [i EXCEPT !.frames = n] \in OldInstances
                     /\ SameLife([i EXCEPT !.frames = n], i)
  BY SetFrames, Zenon DEF SameLife
<1>4. \A b \in BOOLEAN : /\ [i EXCEPT !.seq = b] \in OldInstances
                         /\ SameLife([i EXCEPT !.seq = b], i)
  BY SetSeq, Zenon DEF SameLife
<1>5. \A b \in BOOLEAN : /\ [i EXCEPT !.first = b] \in OldInstances
                         /\ SameLife([i EXCEPT !.first = b], i)
  BY SetFirst, Zenon DEF SameLife
<1>6. \A q \in Seq(Int) : /\ [i EXCEPT !.stream = q] \in OldInstances
                          /\ SameLife([i EXCEPT !.stream = q], i)
  BY SetStream, Zenon DEF SameLife
<1>. QED  BY <1>1, <1>2, <1>3, <1>4, <1>5, <1>6, Zenon

LEMMA CommandSame ==
  ASSUME NEW h \in OldSetup.handles, NEW s, CallOK(h, s), IsOpen(s)
  PROVE  Old!Command(s) = s
<1>1. s.d.open /\ s.stray \in BOOLEAN
  BY DEF CallOK, IsOpen
<1>2. (s.stray \/ ~s.d.open) = s.stray
  BY <1>1, Zenon
<1>. QED  BY <1>2 DEF Old!Command, CallOK

(* The sequence header: what is open stays open, and what is mapped stays. *)
LEMMA FramesInt ==
  ASSUME NEW s, s.i \in OldInstances, NEW room \in Int, NEW c \in OldCodecs
  PROVE  Old!Frames(s, room) \in Int /\ Old!FrameBuffers(c, s, room).extra \in Int
<1>1. s.i.extra \in Int
  BY DEF OldInstances
<1>2. Old!Frames(s, room) \in Int
  BY <1>1, OldSets DEF Old!Frames, Old!Least
<1>. QED
  BY <1>1, <1>2, OldSets
  DEF OldCodecs, Old!FrameBuffers, Old!vpu_dec_seq_header, Old!hevc_dec_seq_header,
      Old!vpu_4k_d2_dec_seq_header

LEMMA HeaderOK ==
  ASSUME NEW h \in OldSetup.handles, NEW s, CallOK(h, s), HasEnv(s), IsOpen(s),
         NEW c \in OldCodecs, NEW p \in Int, NEW extra \in Int, NEW room \in Int,
         NEW failed \in BOOLEAN, NEW n \in 0..Len(Old!HeaderBuffers(c)), NEW how,
         NEW unregistered \in BOOLEAN,
         NEW r, r = Old!Header(c, s, p, extra, room, failed, n, how, unregistered)
  PROVE  CallOK(h, r) /\ Kept(s, r)
<1>. DEFINE x == [s EXCEPT !.i.extra = extra]
            y == Old!HeaderCopied(c, x, p)
            z == [y EXCEPT !.i.extra = Old!FrameBuffers(c, y, room).extra]
            m == Old!malloc_dual_addr(z, Old!HeaderBuffers(c), n, how)
            w == [m EXCEPT !.i.frames = Old!Frames(y, room), !.i.seq = TRUE]
<1>1. CallOK(h, x) /\ Kept(s, x)
  <2>1. s.i \in OldInstances
    BY DEF CallOK
  <2>2. x = [s EXCEPT !.i = [s.i EXCEPT !.extra = extra]]
    BY DEF CallOK
  <2>. QED  BY <2>1, <2>2, SetSame, SameKept, Zenon
<1>. HIDE DEF x
<1>2. CallOK(h, y) /\ Kept(x, y)
  <2>1. x.i \in OldInstances
    BY <1>1 DEF CallOK
  <2>2. x.i.stream \in Seq(Int)
    BY <2>1 DEF OldInstances
  <2>3. [x.i.stream EXCEPT ![1] = p] \in Seq(Int)
    <3>1. CASE 1 \in 1..Len(x.i.stream)
      BY <2>2, <3>1, ExceptSeq
    <3>2. CASE 1 \notin 1..Len(x.i.stream)
      <4>1. [x.i.stream EXCEPT ![1] = p] = x.i.stream
        BY <2>2, <3>2
      <4>. QED  BY <2>2, <4>1
    <3>. QED  BY <3>1, <3>2
  <2>4. y = [x EXCEPT !.i.stream[1] = p]
    BY DEF OldCodecs, Old!HeaderCopied, Old!vdec_vpu_SEQ_HEADER, Old!vdec_hevc_SEQ_HEADER,
           Old!vdec_vpu_4k_d2_SEQ_HEADER
  <2>. HIDE DEF y
  <2>5. y = [x EXCEPT !.i = [x.i EXCEPT !.stream = [x.i.stream EXCEPT ![1] = p]]]
    BY <1>1, <2>4 DEF CallOK
  <2>. QED  BY <1>1, <2>1, <2>3, <2>5, SetSame, SameKept, Zenon
<1>3. r = LET fb    == Old!FrameBuffers(c, Old!Command(y), room)
              ready == Old!malloc_dual_addr([Old!Command(y) EXCEPT !.i.extra = fb.extra],
                                            Old!HeaderBuffers(c), n, how)
          IN IF failed THEN Old!Command(y)
             ELSE IF ~fb.enough THEN [Old!Command(y) EXCEPT !.i.extra = fb.extra]
             ELSE IF n < Len(Old!HeaderBuffers(c)) THEN ready
             ELSE IF unregistered THEN Old!Command(ready)
             ELSE [Old!Command(ready) EXCEPT
                     !.i.frames = Old!Frames(Old!Command(y), room), !.i.seq = TRUE]
  BY DEF Old!Header, x
<1>. HIDE DEF y
<1>4. HasEnv(y) /\ IsOpen(y) /\ Kept(s, y)
  BY <1>1, <1>2, KeptTwice DEF Kept
<1>5. Old!Command(y) = y
  BY <1>2, <1>4, CommandSame
<1>6. CallOK(h, z) /\ Kept(y, z) /\ HasEnv(z) /\ IsOpen(z)
  <2>1. y.i \in OldInstances
    BY <1>2 DEF CallOK
  <2>2. Old!FrameBuffers(c, y, room).extra \in Int
    BY <2>1, FramesInt
  <2>. DEFINE e == Old!FrameBuffers(c, y, room).extra
  <2>3. z = [y EXCEPT !.i = [y.i EXCEPT !.extra = e]]
    BY <1>2 DEF CallOK
  <2>2a. e \in Int
    BY <2>2
  <2>. HIDE DEF z, e
  <2>4. CallOK(h, z) /\ Kept(y, z)
    BY <1>2, <2>1, <2>2a, <2>3, SetSame, SameKept, Zenon
  <2>. QED  BY <1>4, <2>4 DEF Kept
<1>7. CallOK(h, m) /\ Kept(z, m) /\ HasEnv(m) /\ IsOpen(m)
  <2>1. Old!HeaderBuffers(c) \in Seq(Old!Buffers)
    <3>1. {"slice", "frame"} \subseteq Old!Buffers
      BY DEF Old!Buffers
    <3>. QED  BY <3>1 DEF Old!HeaderBuffers
  <2>2. m = Old!malloc_dual_addr(z, Old!HeaderBuffers(c), n, how)
    OBVIOUS
  <2>. HIDE DEF m, z
  <2>. QED  BY <1>6, <2>1, <2>2, MallocOK DEF Kept
<1>8. Old!Command(m) = m
  <2>. HIDE DEF m
  <2>. QED  BY <1>7, CommandSame
<1>9. r \in {y, z, m, w}
  <2>1. r = IF failed THEN y
            ELSE IF ~Old!FrameBuffers(c, y, room).enough THEN z
            ELSE IF n < Len(Old!HeaderBuffers(c)) THEN m
            ELSE IF unregistered THEN Old!Command(m)
            ELSE [Old!Command(m) EXCEPT
                     !.i.frames = Old!Frames(y, room), !.i.seq = TRUE]
    BY <1>3, <1>5, Zenon
  <2>2. r = y \/ r = z \/ r = m \/ r = Old!Command(m)
         \/ r = [Old!Command(m) EXCEPT !.i.frames = Old!Frames(y, room), !.i.seq = TRUE]
    BY <2>1, Zenon
  <2>. HIDE DEF y, z, m
  <2>. QED  BY <1>8, <2>2, Zenon
<1>10. Kept(s, z)
  <2>. HIDE DEF z
  <2>. QED  BY <1>4, <1>6, KeptTwice
<1>11. Kept(s, m)
  <2>. HIDE DEF z, m
  <2>. QED  BY <1>7, <1>10, KeptTwice
<1>12. CallOK(h, w) /\ Kept(m, w)
  <2>. HIDE DEF m
  <2>. DEFINE f == [m.i EXCEPT !.frames = Old!Frames(y, room)]
              g == [f EXCEPT !.seq = TRUE]
  <2>1. m.i \in OldInstances /\ y.i \in OldInstances
    BY <1>2, <1>7 DEF CallOK
  <2>2. Old!Frames(y, room) \in Int
    BY <2>1, FramesInt
  <2>3. w = [m EXCEPT !.i = g]
    BY <1>7, <2>1 DEF CallOK, OldInstances
  <2>4. f \in OldInstances /\ SameLife(f, m.i)
    BY <2>1, <2>2, SetSame, Zenon
  <2>. HIDE DEF f
  <2>5. g \in OldInstances /\ SameLife(g, f)
    BY <2>4, TRUE \in BOOLEAN, SetSame, Zenon
  <2>. HIDE DEF g, w
  <2>6. SameLife(g, m.i)
    BY <2>4, <2>5, SameLifeTwice
  <2>. QED  BY <1>7, <2>3, <2>5, <2>6, SameKept, Zenon
<1>13. Kept(s, w)
  <2>. HIDE DEF m, w
  <2>. QED  BY <1>11, <1>12, KeptTwice
<1>. HIDE DEF y, z, m, w
<1>. QED  BY <1>2, <1>4, <1>6, <1>7, <1>9, <1>10, <1>11, <1>12, <1>13, Zenon

LEMMA DecodeOK ==
  ASSUME NEW h \in OldSetup.handles, NEW s, CallOK(h, s), IsOpen(s),
         NEW q \in Seq(Int), NEW half \in Int,
         NEW r, r = [Old!Command(s) EXCEPT !.i.stream = q, !.i.half = half, !.i.first = FALSE]
  PROVE  CallOK(h, r) /\ Kept(s, r)
<1>. DEFINE a == [s.i EXCEPT !.stream = q]
            b == [a EXCEPT !.half = half]
            e == [b EXCEPT !.first = FALSE]
<1>1. Old!Command(s) = s /\ s.i \in OldInstances
  BY CommandSame DEF CallOK
<1>2. r = [s EXCEPT !.i = e]
  BY <1>1 DEF CallOK, OldInstances
<1>3. a \in OldInstances /\ SameLife(a, s.i)
  BY <1>1, SetSame, Zenon
<1>. HIDE DEF a
<1>4. b \in OldInstances /\ SameLife(b, a)
  BY <1>3, SetSame, Zenon
<1>. HIDE DEF b
<1>5. e \in OldInstances /\ SameLife(e, b)
  BY <1>4, FALSE \in BOOLEAN, SetSame, Zenon
<1>. HIDE DEF e
<1>6. SameLife(e, s.i)
  BY <1>3, <1>4, <1>5, SameLifeTwice
<1>. QED  BY <1>2, <1>5, <1>6, SameKept, Zenon

(* A call begins on what its handle has, or, with a new instance, on a     *)
(* device that nobody uses.                                                *)
LEMMA StateOK ==
  ASSUME OldInv, NEW h \in OldSetup.handles, inst[h] # Old!NoInstance
  PROVE  /\ CallOK(h, Old!State(h, inst[h])) /\ Old!State(h, inst[h]).i = inst[h]
         /\ inst[h].index \in OldSetup.indices
         /\ \A g \in OldSetup.handles : g # h /\ inst[g] # Old!NoInstance =>
              inst[g].index # inst[h].index
<1>. DEFINE s == Old!State(h, inst[h])
            k == inst[h].index
<1>1. inst[h] \in OldInstances /\ k \in OldSetup.indices
  BY DEF OldInv, OldTypes, OldInstances
<1>2. s = [h |-> h, i |-> inst[h], d |-> dev[k], m |-> o_maps, stray |-> stray]
  BY DEF Old!State
<1>3. /\ dev[k] \in [mem : SUBSET (OldSetup.handles \X Old!Buffers), open : BOOLEAN]
      /\ o_maps \subseteq OldSetup.handles \X Old!AllMapped
  BY <1>1 DEF OldInv, OldTypes
<1>4. h \in Old!Live
  BY DEF Old!Live
<1>5. \A g \in OldSetup.handles : g # h /\ inst[g] # Old!NoInstance => inst[g].index # k
  BY <1>4 DEF OldInv, Old!IndexOwned, Old!Live
<1>6. dev[k].mem \subseteq {h} \X Old!Buffers
  <2>1. dev[k].mem \subseteq OldSetup.handles \X Old!Buffers
    BY <1>3
  <2>2. \A m \in dev[k].mem : inst[m[1]] # Old!NoInstance /\ inst[m[1]].index = k
    BY <1>1 DEF OldInv, OldMemory
  <2>. QED  BY <1>5, <2>1, <2>2
<1>7. /\ {h} \X inst[h].va \subseteq dev[k].mem
      /\ o_maps = ({h} \X inst[h].va) \cup {m \in o_maps : m[1] # h}
  <2>1. \A b \in inst[h].va : <<h, b>> \in o_maps /\ <<h, b>> \in dev[k].mem
    BY <1>4 DEF OldInv, OldMemory
  <2>2. \A m \in o_maps : m[2] \in inst[m[1]].va
    BY DEF OldInv, OldMemory
  <2>. QED  BY <1>3, <2>1, <2>2
<1>8. dev[k] \in [mem : SUBSET ({h} \X Old!Buffers), open : BOOLEAN]
  BY <1>3, <1>6
<1>9. /\ inst[h].opened => dev[k].open
      /\ ~inst[h].env => inst[h].va = {} /\ dev[k].mem = {}
  <2>1. Life(o_calls[h], o_codec[h], inst[h], dev[inst[h].index])
    BY DEF OldInv, OldLife
  <2>. QED  BY <2>1, Zenon DEF Life
<1>10. stray = FALSE
  BY DEF OldInv, Old!CommandsInOrder
<1>11. s.i = inst[h] /\ s.d = dev[k] /\ s.m = o_maps /\ s.h = h
  BY <1>2
<1>12. ~s.stray
  BY <1>2, <1>10
<1>. HIDE DEF s, k
<1>13. s \in [h : {h}, i : OldInstances, d : [mem : SUBSET ({h} \X Old!Buffers), open : BOOLEAN],
             m : SUBSET (OldSetup.handles \X Old!AllMapped), stray : BOOLEAN]
  BY <1>1, <1>2, <1>3, <1>8, <1>10
<1>14. CallOK(h, s)
  BY <1>7, <1>9, <1>11, <1>12, <1>13 DEF CallOK
<1>. QED  BY <1>1, <1>5, <1>11, <1>14 DEF s, k

LEMMA NewStateOK ==
  ASSUME OldInv, NEW h \in OldSetup.handles, inst[h] = Old!NoInstance, NEW k \in Old!Free
  PROVE  /\ CallOK(h, Old!State(h, Old!Zeroed(k))) /\ Old!State(h, Old!Zeroed(k)).i.index = k
         /\ k \in OldSetup.indices
         /\ \A g \in OldSetup.handles : inst[g] # Old!NoInstance => inst[g].index # k
<1>. DEFINE i == Old!Zeroed(k)
            s == Old!State(h, i)
<1>1. k \in OldSetup.indices /\ k \notin taken
  BY DEF Old!Free
<1>2. \A g \in OldSetup.handles : inst[g] # Old!NoInstance => inst[g].index # k
  BY <1>1 DEF OldInv, Old!IndexOwned, Old!Live
<1>3. i \in OldInstances /\ i.va = {} /\ i.index = k
  BY <1>1 DEF Old!Zeroed, OldInstances
<1>4. i.opened = FALSE
  BY DEF Old!Zeroed
<1>5. s = [h |-> h, i |-> i, d |-> dev[k], m |-> o_maps, stray |-> stray]
  BY DEF Old!State, Old!Zeroed
<1>. HIDE DEF i, s
<1>6. dev[k].mem = {}
  <2>1. dev[k].mem \subseteq OldSetup.handles \X Old!Buffers
    BY <1>1 DEF OldInv, OldTypes
  <2>2. \A m \in dev[k].mem : inst[m[1]] # Old!NoInstance /\ inst[m[1]].index = k
    BY <1>1 DEF OldInv, OldMemory
  <2>. QED  BY <1>2, <2>1, <2>2
<1>7. dev[k] \in [mem : SUBSET ({h} \X Old!Buffers), open : BOOLEAN]
  <2>1. dev[k] \in [mem : SUBSET (OldSetup.handles \X Old!Buffers), open : BOOLEAN]
    BY <1>1 DEF OldInv, OldTypes
  <2>. QED  BY <1>6, <2>1
<1>8. /\ o_maps \subseteq OldSetup.handles \X Old!AllMapped
      /\ o_maps = {m \in o_maps : m[1] # h}
  <2>1. \A m \in o_maps : inst[m[1]] # Old!NoInstance
    BY DEF OldInv, OldMemory
  <2>. QED  BY <2>1 DEF OldInv, OldTypes
<1>9. stray = FALSE
  BY DEF OldInv, Old!CommandsInOrder
<1>10. s.i = i /\ s.d = dev[k] /\ s.m = o_maps /\ s.h = h
  BY <1>5
<1>11. ~s.stray
  BY <1>5, <1>9
<1>12. s \in [h : {h}, i : OldInstances, d : [mem : SUBSET ({h} \X Old!Buffers), open : BOOLEAN],
             m : SUBSET (OldSetup.handles \X Old!AllMapped), stray : BOOLEAN]
  BY <1>3, <1>5, <1>7, <1>8, <1>9
<1>13. s.i.opened => s.d.open
  BY <1>4, <1>10, Zenon
<1>14. s.i.va = {} /\ s.d.mem = {}
  BY <1>3, <1>6, <1>10
<1>15. /\ {h} \X s.i.va \subseteq s.d.mem
       /\ s.m = ({h} \X s.i.va) \cup {m \in o_maps : m[1] # h}
  BY <1>8, <1>10, <1>14
<1>16. CallOK(h, s)
  BY <1>11, <1>12, <1>13, <1>14, <1>15 DEF CallOK
<1>. QED  BY <1>1, <1>2, <1>3, <1>10, <1>16 DEF s, i

(* Where a handle is after a call.                                         *)
LEMMA LifeWorking ==
  ASSUME NEW h \in OldSetup.handles, NEW s, CallOK(h, s), HasEnv(s), IsOpen(s), NEW c,
         {Old!Ready(c)[k] : k \in DOMAIN Old!Ready(c)} \ Old!Physical \subseteq s.i.va,
         NEW call \in {"working", "decoding", "decoded", "failed_header"}
  PROVE  Life(call, c, s.i, s.d)
<1>1. s.i # Old!NoInstance
  BY OldSets DEF CallOK, OldInstances, Old!NoInstance
<1>2. s.i.env /\ s.i.opened
  BY Zenon DEF HasEnv, IsOpen
<1>3. s.d.open
  BY <1>2, Zenon DEF CallOK
<1>4. call \notin {"created", "deinited"} /\ call # "failed"
  OBVIOUS
<1>. QED  BY <1>1, <1>2, <1>3, <1>4, Zenon DEF Life

LEMMA LifeFailed ==
  ASSUME NEW h \in OldSetup.handles, NEW s, CallOK(h, s), ~HasEnv(s), ~IsOpen(s), NEW c
  PROVE  Life("failed", c, s.i, s.d)
<1>1. ~s.i.env /\ ~s.i.opened
  BY Zenon DEF HasEnv, IsOpen
<1>2. s.i.va = {} /\ s.d.mem = {}
  BY <1>1, Zenon DEF CallOK
<1>3. "failed" \notin {"created", "deinited"}
      /\ "failed" \notin {"working", "decoding", "decoded", "failed_header"}
  OBVIOUS
<1>. QED  BY <1>1, <1>2, <1>3, Zenon DEF Life

LEMMA LifeNone ==
  ASSUME NEW call \in {"created", "failed", "deinited"}, NEW c, NEW d
  PROVE  Life(call, c, Old!NoInstance, d)
<1>1. call \notin {"working", "decoding", "decoded", "failed_header"}
  OBVIOUS
<1>. QED  BY <1>1, Zenon DEF Life

(* What a call stores is in order again, and the other handles are where   *)
(* they were.                                                              *)
LEMMA StoreOK ==
  ASSUME OldInv, NEW h \in OldSetup.handles, NEW s, CallOK(h, s), Old!Store(h, s),
         inst[h] # Old!NoInstance => inst[h].index = s.i.index,
         \A g \in OldSetup.handles : g # h /\ inst[g] # Old!NoInstance =>
           inst[g].index # s.i.index
  PROVE  /\ inst' \in [OldSetup.handles -> OldInstances \cup {Old!NoInstance}]
         /\ dev' \in [OldSetup.indices ->
                        [mem : SUBSET (OldSetup.handles \X Old!Buffers), open : BOOLEAN]]
         /\ o_maps' \subseteq OldSetup.handles \X Old!AllMapped
         /\ OldMemory' /\ Old!CommandsInOrder'
         /\ inst' = [inst EXCEPT ![h] = s.i] /\ inst'[h] = s.i /\ inst'[h] # Old!NoInstance
         /\ dev'[s.i.index] = s.d
         /\ \A g \in OldSetup.handles : g # h =>
              /\ inst'[g] = inst[g]
              /\ inst[g] # Old!NoInstance => dev'[inst[g].index] = dev[inst[g].index]
<1>. DEFINE k == s.i.index
<1>1. /\ inst \in [OldSetup.handles -> OldInstances \cup {Old!NoInstance}]
      /\ dev \in [OldSetup.indices ->
                    [mem : SUBSET (OldSetup.handles \X Old!Buffers), open : BOOLEAN]]
  BY DEF OldInv, OldTypes
<1>2. /\ s.i \in OldInstances /\ k \in OldSetup.indices
      /\ s.d \in [mem : SUBSET ({h} \X Old!Buffers), open : BOOLEAN]
      /\ s.m \subseteq OldSetup.handles \X Old!AllMapped
  BY DEF CallOK, OldInstances
<1>3. /\ inst' = [inst EXCEPT ![h] = s.i] /\ dev' = [dev EXCEPT ![k] = s.d]
      /\ o_maps' = s.m
  BY DEF Old!Store
<1>4. stray' = s.stray
  BY DEF Old!Store
<1>5. s.i # Old!NoInstance
  BY <1>2, OldSets DEF OldInstances, Old!NoInstance
<1>6. s.d \in [mem : SUBSET (OldSetup.handles \X Old!Buffers), open : BOOLEAN]
  BY <1>2
<1>7. inst' \in [OldSetup.handles -> OldInstances \cup {Old!NoInstance}]
  BY <1>1, <1>2, <1>3
<1>8. dev' \in [OldSetup.indices ->
                  [mem : SUBSET (OldSetup.handles \X Old!Buffers), open : BOOLEAN]]
  BY <1>1, <1>2, <1>3, <1>6
<1>9. /\ inst'[h] = s.i /\ dev'[k] = s.d
      /\ \A g \in OldSetup.handles : g # h => inst'[g] = inst[g]
      /\ \A n \in OldSetup.indices : n # k => dev'[n] = dev[n]
  BY <1>1, <1>2, <1>3
<1>10. \A g \in OldSetup.handles : g # h /\ inst[g] # Old!NoInstance =>
         inst[g].index \in OldSetup.indices /\ inst[g].index # k
  BY <1>1 DEF OldInstances
<1>11. \A g \in OldSetup.handles : g # h /\ inst[g] # Old!NoInstance =>
         dev'[inst[g].index] = dev[inst[g].index]
  BY <1>9, <1>10
<1>12. \A n \in OldSetup.indices : \A m \in dev'[n].mem :
         inst'[m[1]] # Old!NoInstance /\ inst'[m[1]].index = n
  <2>1. TAKE n \in OldSetup.indices
  <2>2. TAKE m \in dev'[n].mem
  <2>3. CASE n = k
    <3>1. m[1] = h
      BY <1>2, <1>9, <2>3
    <3>. QED  BY <1>5, <1>9, <2>3, <3>1
  <2>4. CASE n # k
    <3>1. m \in dev[n].mem
      BY <1>9, <2>4
    <3>2. inst[m[1]] # Old!NoInstance /\ inst[m[1]].index = n
      BY <3>1 DEF OldInv, OldMemory
    <3>3. m[1] \in OldSetup.handles
      BY <1>1, <3>1
    <3>4. m[1] # h
      BY <2>4, <3>2
    <3>. QED  BY <1>9, <3>2, <3>3, <3>4
  <2>. QED  BY <2>3, <2>4
<1>13. s.m = ({h} \X s.i.va) \cup {m \in o_maps : m[1] # h}
  BY DEF CallOK
<1>14. \A m \in o_maps' : inst'[m[1]] # Old!NoInstance /\ m[2] \in inst'[m[1]].va
  <2>1. TAKE m \in o_maps'
  <2>2. CASE m \in {h} \X s.i.va
    BY <1>5, <1>9, <2>2
  <2>3. CASE m \in o_maps /\ m[1] # h
    <3>1. inst[m[1]] # Old!NoInstance /\ m[2] \in inst[m[1]].va
      BY <2>3 DEF OldInv, OldMemory
    <3>2. m[1] \in OldSetup.handles
      BY <2>3 DEF OldInv, OldTypes
    <3>. QED  BY <1>9, <2>3, <3>1, <3>2
  <2>. QED  BY <1>3, <1>13, <2>2, <2>3
<1>15. \A g \in Old!Live' : \A b \in inst'[g].va :
         <<g, b>> \in o_maps' /\ <<g, b>> \in dev'[inst'[g].index].mem
  <2>1. TAKE g \in Old!Live'
  <2>2. TAKE b \in inst'[g].va
  <2>3. g \in OldSetup.handles /\ inst'[g] # Old!NoInstance
    BY DEF Old!Live
  <2>4. CASE g = h
    <3>1. {h} \X s.i.va \subseteq s.d.mem
      BY DEF CallOK
    <3>. QED  BY <1>3, <1>9, <1>13, <2>4, <3>1
  <2>5. CASE g # h
    <3>1. inst'[g] = inst[g] /\ inst[g] # Old!NoInstance
      BY <1>9, <2>3, <2>5
    <3>2. g \in Old!Live
      BY <2>3, <3>1 DEF Old!Live
    <3>3. <<g, b>> \in o_maps /\ <<g, b>> \in dev[inst[g].index].mem
      BY <3>1, <3>2 DEF OldInv, OldMemory
    <3>4. <<g, b>> \in o_maps'
      BY <1>3, <1>13, <2>5, <3>3
    <3>. QED  BY <1>11, <2>3, <2>5, <3>1, <3>3, <3>4
  <2>. QED  BY <2>4, <2>5
<1>16. OldMemory'
  BY <1>12, <1>14, <1>15 DEF OldMemory
<1>17. Old!CommandsInOrder'
  <2>1. ~s.stray
    BY DEF CallOK
  <2>. QED  BY <1>4, <2>1, Zenon DEF Old!CommandsInOrder
<1>18. o_maps' \subseteq OldSetup.handles \X Old!AllMapped
  BY <1>2, <1>3
<1>. QED  BY <1>3, <1>5, <1>7, <1>8, <1>9, <1>11, <1>16, <1>17, <1>18

LEMMA StoreLife ==
  ASSUME OldInv, NEW h \in OldSetup.handles, NEW s, CallOK(h, s), Old!Store(h, s),
         inst[h] # Old!NoInstance => inst[h].index = s.i.index,
         \A g \in OldSetup.handles : g # h /\ inst[g] # Old!NoInstance =>
           inst[g].index # s.i.index,
         NEW call, o_calls' = [o_calls EXCEPT ![h] = call], UNCHANGED o_codec,
         Life(call, o_codec[h], s.i, s.d)
  PROVE  OldLife'
<1>1. /\ inst'[h] = s.i /\ dev'[s.i.index] = s.d
      /\ \A g \in OldSetup.handles : g # h =>
           /\ inst'[g] = inst[g]
           /\ inst[g] # Old!NoInstance => dev'[inst[g].index] = dev[inst[g].index]
  BY StoreOK
<1>2. o_calls'[h] = call /\ \A g \in OldSetup.handles : g # h => o_calls'[g] = o_calls[g]
  BY DEF OldInv, OldTypes
<1>3. ASSUME NEW g \in OldSetup.handles
      PROVE  Life(o_calls'[g], o_codec'[g], inst'[g], dev'[inst'[g].index])
  <2>1. CASE g = h
    BY <1>1, <1>2, <2>1
  <2>2. Life(o_calls[g], o_codec[g], inst[g], dev[inst[g].index])
    BY DEF OldInv, OldLife
  <2>3. CASE g # h /\ inst[g] # Old!NoInstance
    BY <1>1, <1>2, <2>2, <2>3
  <2>4. CASE g # h /\ inst[g] = Old!NoInstance
    <3>1. Life(o_calls[g], o_codec[g], Old!NoInstance, dev'[inst'[g].index])
      BY <2>2, <2>4, Zenon DEF Life
    <3>. QED  BY <1>1, <1>2, <2>4, <3>1
  <2>. QED  BY <2>1, <2>3, <2>4
<1>. QED  BY <1>3 DEF OldLife

(* The manager's indices.                                                  *)
LEMMA SameIndex ==
  ASSUME OldInv, NEW h \in OldSetup.handles, inst[h] # Old!NoInstance,
         NEW i, i # Old!NoInstance, i.index = inst[h].index,
         inst' = [inst EXCEPT ![h] = i], UNCHANGED <<taken, other>>
  PROVE  Old!IndexOwned' /\ Old!NoIndexLost'
<1>1. Old!Live' = Old!Live /\ \A g \in Old!Live : inst'[g].index = inst[g].index
  BY DEF OldInv, OldTypes, Old!Live
<1>2. Old!IndexOwned'
  BY <1>1 DEF OldInv, Old!IndexOwned
<1>3. {inst[g].index : g \in Old!Live} = {inst'[g].index : g \in Old!Live'}
  BY <1>1
<1>. QED  BY <1>2, <1>3 DEF OldInv, Old!NoIndexLost

LEMMA NewIndex ==
  ASSUME OldInv, NEW h \in OldSetup.handles, inst[h] = Old!NoInstance,
         NEW i, i # Old!NoInstance, i.index \in Old!Free,
         inst' = [inst EXCEPT ![h] = i], taken' = taken \cup {i.index}, UNCHANGED other
  PROVE  Old!IndexOwned' /\ Old!NoIndexLost'
<1>1. /\ Old!Live' = Old!Live \cup {h} /\ h \notin Old!Live /\ inst'[h] = i
      /\ \A g \in Old!Live : inst'[g] = inst[g]
  BY DEF OldInv, OldTypes, Old!Live
<1>2. i.index \notin taken /\ i.index \notin other
  BY DEF Old!Free, OldInv, OldTypes
<1>3. Old!IndexOwned'
  BY <1>1, <1>2 DEF OldInv, Old!IndexOwned
<1>4. {inst'[g].index : g \in Old!Live'} = {inst[g].index : g \in Old!Live} \cup {i.index}
  BY <1>1
<1>. QED  BY <1>3, <1>4 DEF OldInv, Old!NoIndexLost

LEMMA IndexReleased ==
  ASSUME OldInv, NEW h \in OldSetup.handles, inst[h] # Old!NoInstance,
         inst' = [inst EXCEPT ![h] = Old!NoInstance], taken' = taken \ {inst[h].index},
         UNCHANGED other
  PROVE  Old!IndexOwned' /\ Old!NoIndexLost' /\ taken' \subseteq OldSetup.indices
         /\ other' \subseteq taken'
<1>1. /\ Old!Live' = Old!Live \ {h} /\ h \in Old!Live
      /\ \A g \in Old!Live' : inst'[g] = inst[g]
  BY DEF OldInv, OldTypes, Old!Live
<1>2. /\ inst[h].index \notin other
      /\ \A g \in Old!Live' : inst[g].index # inst[h].index /\ inst[g].index \in taken \ other
  BY <1>1 DEF OldInv, Old!IndexOwned
<1>3. Old!IndexOwned'
  BY <1>1, <1>2 DEF OldInv, Old!IndexOwned
<1>4. {inst'[g].index : g \in Old!Live'} = {inst[g].index : g \in Old!Live} \ {inst[h].index}
  BY <1>1, <1>2
<1>5. taken = other \cup {inst[g].index : g \in Old!Live}
  BY DEF OldInv, Old!NoIndexLost
<1>6. Old!NoIndexLost'
  BY <1>2, <1>4, <1>5 DEF Old!NoIndexLost
<1>. QED  BY <1>2, <1>3, <1>6 DEF OldInv, OldTypes

(* A step that stores what a call of a handle with an instance made.       *)
OldCalls == {"created", "working", "failed", "failed_header", "decoding", "decoded", "deinited"}

LEMMA CallStep ==
  ASSUME OldInv, NEW h \in OldSetup.handles, NEW s, CallOK(h, s), Old!Store(h, s),
         inst[h] # Old!NoInstance => inst[h].index = s.i.index,
         \A g \in OldSetup.handles : g # h /\ inst[g] # Old!NoInstance =>
           inst[g].index # s.i.index,
         NEW call \in OldCalls, o_calls' = [o_calls EXCEPT ![h] = call], UNCHANGED o_codec,
         Life(call, o_codec[h], s.i, s.d),
         taken' \subseteq OldSetup.indices, other' \subseteq taken',
         Old!IndexOwned', Old!NoIndexLost'
  PROVE  OldInv'
<1>1. /\ inst' \in [OldSetup.handles -> OldInstances \cup {Old!NoInstance}]
      /\ dev' \in [OldSetup.indices ->
                     [mem : SUBSET (OldSetup.handles \X Old!Buffers), open : BOOLEAN]]
      /\ o_maps' \subseteq OldSetup.handles \X Old!AllMapped
      /\ OldMemory' /\ Old!CommandsInOrder'
  BY StoreOK
<1>2. OldLife'
  BY StoreLife
<1>3. /\ o_calls' \in [OldSetup.handles -> OldCalls]
      /\ o_codec' \in [OldSetup.handles -> OldSetup.codecs]
  BY DEF OldInv, OldTypes, OldCalls
<1>4. OldTypes'
  BY <1>1, <1>3 DEF OldTypes, OldCalls
<1>. QED  BY <1>1, <1>2, <1>4 DEF OldInv

(* A call of a handle with an instance, which keeps its index.             *)
LEMMA InstanceCall ==
  ASSUME OldInv, NEW h \in OldSetup.handles, inst[h] # Old!NoInstance,
         NEW s, CallOK(h, s), Old!Store(h, s), s.i.index = inst[h].index,
         NEW call \in OldCalls, o_calls' = [o_calls EXCEPT ![h] = call],
         UNCHANGED <<o_codec, taken, other>>, Life(call, o_codec[h], s.i, s.d)
  PROVE  OldInv'
<1>1. \A g \in OldSetup.handles : g # h /\ inst[g] # Old!NoInstance =>
        inst[g].index # s.i.index
  BY StateOK
<1>2. inst' = [inst EXCEPT ![h] = s.i] /\ inst'[h] = s.i /\ inst'[h] # Old!NoInstance
  BY <1>1, StoreOK
<1>3. Old!IndexOwned' /\ Old!NoIndexLost'
  BY <1>2, SameIndex
<1>4. taken' \subseteq OldSetup.indices /\ other' \subseteq taken'
  BY DEF OldInv, OldTypes
<1>. QED  BY <1>1, <1>3, <1>4, CallStep

(* The kernel answers VPU_GET_INSTANCE_IDX, and the codec is one of those  *)
(* that count as open once V_DEC_INIT has succeeded (README, section 4).   *)
OldCovered == "index" \notin OldSetup.faults /\ "mjpeg" \notin OldSetup.codecs

LEMMA CoveredCodec ==
  ASSUME OldCovered, OldInv, NEW h \in OldSetup.handles
  PROVE  o_codec[h] \in OldCodecs
BY OldSets DEF OldCovered, OldInv, OldTypes, OldCodecs

LEMMA MayFailOK ==
  ASSUME NEW f
  PROVE  Old!MayFail(f) \subseteq BOOLEAN
BY DEF Old!MayFail

LEMMA InitWithOK ==
  ASSUME OldCovered, OldInv, NEW h \in OldSetup.handles, NEW instance,
         CallOK(h, Old!State(h, instance)), Old!InitWith(h, instance)
  PROVE  \E s, call :
           /\ CallOK(h, s) /\ Old!Store(h, s) /\ s.i.index = Old!State(h, instance).i.index
           /\ call \in OldCalls /\ o_calls' = [o_calls EXCEPT ![h] = call]
           /\ Life(call, o_codec[h], s.i, s.d)
<1>. DEFINE c == o_codec[h]
            b == Old!State(h, instance)
<1>1. c \in OldCodecs
  BY CoveredCodec
<1>2. PICK n \in 0..Len(Old!Ready(c)), how \in {"pa", "va"},
           refused \in BOOLEAN, unclosed \in BOOLEAN :
        LET done == Old!VDEC_INIT(c, b, n, how, refused)
            ok == n = Len(Old!Ready(c)) /\ ~refused
        IN /\ Old!Store(h, IF ok THEN done ELSE Old!VDEC_CLOSE(c, done, unclosed))
           /\ o_calls' = [o_calls EXCEPT ![h] = IF ok THEN "working" ELSE "failed"]
  <2>1. Old!MayFail("init") \subseteq BOOLEAN /\ Old!MayFail("close") \subseteq BOOLEAN
    BY MayFailOK
  <2>2. (IF "alloc" \in OldSetup.faults THEN 0..Len(Old!Ready(c)) ELSE {Len(Old!Ready(c))})
          \subseteq 0..Len(Old!Ready(c))
    BY <1>1, ReadyOK
  <2>3. \E n \in (IF "alloc" \in OldSetup.faults
                  THEN 0..Len(Old!Ready(c)) ELSE {Len(Old!Ready(c))}),
           how \in {"pa", "va"}, refused \in Old!MayFail("init"),
           unclosed \in Old!MayFail("close") :
          LET done == Old!VDEC_INIT(c, b, n, how, refused)
              ok == n = Len(Old!Ready(c)) /\ ~refused
          IN /\ Old!Store(h, IF ok THEN done ELSE Old!VDEC_CLOSE(c, done, unclosed))
             /\ o_calls' = [o_calls EXCEPT ![h] = IF ok THEN "working" ELSE "failed"]
    BY DEF Old!InitWith
  <2>. HIDE DEF b, c
  <2>. QED  BY <2>1, <2>2, <2>3, Zenon
<1>. DEFINE done == Old!VDEC_INIT(c, b, n, how, refused)
            close == Old!VDEC_CLOSE(c, done, unclosed)
<1>3. done = Old!VDEC_INIT(c, b, n, how, refused) /\ close = Old!VDEC_CLOSE(c, done, unclosed)
  OBVIOUS
<1>4. \/ /\ n = Len(Old!Ready(c)) /\ ~refused
         /\ Old!Store(h, done) /\ o_calls' = [o_calls EXCEPT ![h] = "working"]
      \/ Old!Store(h, close) /\ o_calls' = [o_calls EXCEPT ![h] = "failed"]
  <2>. DEFINE ok == n = Len(Old!Ready(c)) /\ ~refused
  <2>1. /\ Old!Store(h, IF ok THEN done ELSE close)
        /\ o_calls' = [o_calls EXCEPT ![h] = IF ok THEN "working" ELSE "failed"]
    BY <1>2
  <2>2. CASE ok
    <3>1. ok
      BY <2>2
    <3>. HIDE DEF ok, done, close
    <3>2. Old!Store(h, done) /\ o_calls' = [o_calls EXCEPT ![h] = "working"]
      BY <2>1, <3>1, Zenon
    <3>. QED  BY <3>1, <3>2 DEF ok
  <2>3. CASE ~ok
    <3>1. ~ok
      BY <2>3
    <3>. HIDE DEF ok, done, close
    <3>2. Old!Store(h, close) /\ o_calls' = [o_calls EXCEPT ![h] = "failed"]
      BY <2>1, <3>1, Zenon
    <3>. QED  BY <3>2
  <2>. QED  BY <2>2, <2>3
<1>. HIDE DEF done, close
<1>5. CallOK(h, b)
  OBVIOUS
<1>. HIDE DEF b, c
<1>6. /\ CallOK(h, done) /\ HasEnv(done) /\ done.i.index = b.i.index
      /\ n = Len(Old!Ready(c)) /\ ~refused =>
           /\ IsOpen(done)
           /\ {Old!Ready(c)[k] : k \in DOMAIN Old!Ready(c)} \ Old!Physical \subseteq done.i.va
  BY <1>1, <1>3, <1>5, InitOK
<1>7. CallOK(h, close) /\ ~HasEnv(close) /\ ~IsOpen(close) /\ close.i.index = b.i.index
  BY <1>1, <1>3, <1>6, CloseOK
<1>8. Life("failed", c, close.i, close.d)
  BY <1>7, LifeFailed
<1>9. n = Len(Old!Ready(c)) /\ ~refused => Life("working", c, done.i, done.d)
  BY <1>6, LifeWorking
<1>10. {"working", "failed"} \subseteq OldCalls
  BY DEF OldCalls
<1>11. \E s, call :
         /\ CallOK(h, s) /\ Old!Store(h, s) /\ s.i.index = b.i.index
         /\ call \in OldCalls /\ o_calls' = [o_calls EXCEPT ![h] = call]
         /\ Life(call, c, s.i, s.d)
  BY <1>4, <1>6, <1>7, <1>8, <1>9, <1>10, Zenon
<1>. QED  BY <1>11 DEF b, c

LEMMA OldInitStep ==
  ASSUME OldCovered, OldInv, NEW h \in OldSetup.handles, Old!VideoDecoder_Init(h)
  PROVE  OldInv'
<1>1. UNCHANGED <<o_codec, other>> /\ o_calls[h] \in {"created", "failed"}
  BY DEF Old!VideoDecoder_Init
<1>2. CASE inst[h] # Old!NoInstance /\ Old!InitWith(h, inst[h]) /\ UNCHANGED taken
  <2>1. CallOK(h, Old!State(h, inst[h])) /\ Old!State(h, inst[h]).i = inst[h]
    BY <1>2, StateOK
  <2>2. PICK s, call :
          /\ CallOK(h, s) /\ Old!Store(h, s) /\ s.i.index = inst[h].index
          /\ call \in OldCalls /\ o_calls' = [o_calls EXCEPT ![h] = call]
          /\ Life(call, o_codec[h], s.i, s.d)
    BY <1>2, <2>1, InitWithOK
  <2>. QED  BY <1>1, <1>2, <2>2, InstanceCall
<1>3. CASE /\ inst[h] = Old!NoInstance
           /\ \E got \in Old!InstanceIndex :
                /\ got.index # -1 /\ Old!InitWith(h, Old!Zeroed(got.index))
                /\ taken' = got.taken
  <2>1. PICK k \in Old!Free : Old!InitWith(h, Old!Zeroed(k)) /\ taken' = taken \cup {k}
    BY <1>3 DEF OldCovered, Old!InstanceIndex
  <2>2. /\ CallOK(h, Old!State(h, Old!Zeroed(k)))
        /\ Old!State(h, Old!Zeroed(k)).i.index = k /\ k \in OldSetup.indices
        /\ \A g \in OldSetup.handles : inst[g] # Old!NoInstance => inst[g].index # k
    BY <1>3, NewStateOK
  <2>3. PICK s, call :
          /\ CallOK(h, s) /\ Old!Store(h, s) /\ s.i.index = k
          /\ call \in OldCalls /\ o_calls' = [o_calls EXCEPT ![h] = call]
          /\ Life(call, o_codec[h], s.i, s.d)
    BY <2>1, <2>2, InitWithOK
  <2>4. inst' = [inst EXCEPT ![h] = s.i] /\ inst'[h] = s.i /\ inst'[h] # Old!NoInstance
    BY <1>3, <2>2, <2>3, StoreOK
  <2>5. Old!IndexOwned' /\ Old!NoIndexLost'
    BY <1>1, <1>3, <2>1, <2>3, <2>4, NewIndex
  <2>6. taken' \subseteq OldSetup.indices /\ other' \subseteq taken'
    BY <1>1, <2>1, <2>2 DEF OldInv, OldTypes
  <2>. QED  BY <1>1, <1>3, <2>2, <2>3, <2>5, <2>6, CallStep
<1>4. CASE /\ inst[h] = Old!NoInstance
           /\ UNCHANGED taken
           /\ o_calls' = [o_calls EXCEPT ![h] = "failed"]
           /\ UNCHANGED <<inst, dev, o_maps, stray>>
  <2>1. OldTypes'
    <3>1. o_calls' \in [OldSetup.handles -> OldCalls]
      BY <1>4 DEF OldInv, OldTypes, OldCalls
    <3>. QED  BY <1>1, <1>4, <3>1 DEF OldInv, OldTypes, OldCalls
  <2>2. OldLife'
    <3>1. ASSUME NEW g \in OldSetup.handles
          PROVE  Life(o_calls'[g], o_codec[g], inst[g], dev[inst[g].index])
      <4>1. CASE g = h
        <5>1. o_calls'[g] = "failed" /\ inst[g] = Old!NoInstance
          BY <1>4, <4>1 DEF OldInv, OldTypes
        <5>. QED  BY <5>1, LifeNone
      <4>2. CASE g # h
        BY <1>4, <4>2 DEF OldInv, OldTypes, OldLife
      <4>. QED  BY <4>1, <4>2
    <3>. QED  BY <1>1, <1>4, <3>1 DEF OldLife
  <2>3. OldMemory' /\ Old!IndexOwned' /\ Old!NoIndexLost' /\ Old!CommandsInOrder'
    BY <1>1, <1>4
    DEF OldInv, OldMemory, Old!IndexOwned, Old!NoIndexLost, Old!CommandsInOrder, Old!Live
  <2>. QED  BY <2>1, <2>2, <2>3 DEF OldInv
<1>5. ASSUME NEW got \in Old!InstanceIndex, got.index # -1,
             taken' = Old!vdec_alloc_instance(got.index)
      PROVE  UNCHANGED taken
  BY <1>5 DEF OldCovered, Old!InstanceIndex, Old!vdec_alloc_instance, Old!Free
<1>. QED  BY <1>2, <1>3, <1>4, <1>5 DEF Old!VideoDecoder_Init

LEMMA WorkingState ==
  ASSUME OldInv, NEW h \in OldSetup.handles, NEW s, s = Old!State(h, inst[h]),
         o_calls[h] \in {"working", "decoding", "decoded", "failed_header"}
  PROVE  /\ inst[h] # Old!NoInstance /\ CallOK(h, s) /\ HasEnv(s) /\ IsOpen(s)
         /\ s.i = inst[h]
         /\ {Old!Ready(o_codec[h])[k] : k \in DOMAIN Old!Ready(o_codec[h])} \ Old!Physical
              \subseteq s.i.va
<1>1. Life(o_calls[h], o_codec[h], inst[h], dev[inst[h].index])
  BY DEF OldInv, OldLife
<1>2. inst[h] # Old!NoInstance
  BY <1>1, Zenon DEF Life
<1>3. CallOK(h, s) /\ s.i = inst[h]
  BY <1>2, StateOK
<1>4. {Old!Ready(o_codec[h])[k] : k \in DOMAIN Old!Ready(o_codec[h])} \ Old!Physical
        \subseteq inst[h].va
  BY <1>1, Zenon DEF Life
<1>5. HasEnv(s) /\ IsOpen(s)
  BY <1>1, <1>3, Zenon DEF Life, HasEnv, IsOpen
<1>. QED  BY <1>2, <1>3, <1>4, <1>5

LEMMA WorkingCall ==
  ASSUME OldInv, NEW h \in OldSetup.handles,
         o_calls[h] \in {"working", "decoding", "decoded", "failed_header"},
         NEW s, CallOK(h, s), Old!Store(h, s), Kept(Old!State(h, inst[h]), s),
         NEW call \in {"working", "decoding", "decoded", "failed_header"},
         o_calls' = [o_calls EXCEPT ![h] = call], UNCHANGED <<o_codec, taken, other>>
  PROVE  OldInv'
<1>. DEFINE b == Old!State(h, inst[h])
<1>1. b = Old!State(h, inst[h]) /\ Kept(b, s)
  OBVIOUS
<1>. HIDE DEF b
<1>2. /\ inst[h] # Old!NoInstance /\ HasEnv(b) /\ IsOpen(b) /\ b.i = inst[h]
      /\ {Old!Ready(o_codec[h])[k] : k \in DOMAIN Old!Ready(o_codec[h])} \ Old!Physical
           \subseteq b.i.va
  BY <1>1, WorkingState
<1>3. HasEnv(s) /\ IsOpen(s) /\ s.i.index = inst[h].index /\ b.i.va \subseteq s.i.va
  BY <1>1, <1>2 DEF Kept
<1>4. {Old!Ready(o_codec[h])[k] : k \in DOMAIN Old!Ready(o_codec[h])} \ Old!Physical
        \subseteq s.i.va
  BY <1>2, <1>3
<1>5. Life(call, o_codec[h], s.i, s.d)
  BY <1>3, <1>4, LifeWorking
<1>6. call \in OldCalls
  BY DEF OldCalls
<1>. QED  BY <1>2, <1>3, <1>5, <1>6, InstanceCall

LEMMA OldHeaderStep ==
  ASSUME OldCovered, OldInv, NEW h \in OldSetup.handles,
         Old!VideoDecoder_DecodeSequenceHeader(h)
  PROVE  OldInv'
<1>. DEFINE c == o_codec[h]
            b == Old!State(h, inst[h])
<1>1. /\ o_calls[h] = "working" /\ c \in OldCodecs
      /\ UNCHANGED <<o_codec, taken, other>>
  BY CoveredCodec DEF Old!VideoDecoder_DecodeSequenceHeader
<1>2. PICK p \in OldSetup.pictures, extra \in OldSetup.extras, room \in 0..OldSetup.avail,
           failed \in Old!MayFail("header"), how \in {"pa", "va"},
           unregistered \in Old!MayFail("frames"),
           n \in (IF "frames" \in OldSetup.faults THEN 0..2 ELSE {2}) :
        LET s == Old!Header(c, b, p, extra, room, failed,
                            Old!Least(n, Len(Old!HeaderBuffers(c))), how, unregistered)
        IN /\ Old!Store(h, s)
           /\ o_calls' = [o_calls EXCEPT
                            ![h] = IF s.i.seq THEN "decoding" ELSE "failed_header"]
           /\ o_last' = [o_last EXCEPT ![h].given = p]
  BY Zenon DEF Old!VideoDecoder_DecodeSequenceHeader
<1>. DEFINE l == Old!Least(n, Len(Old!HeaderBuffers(c)))
            s == Old!Header(c, b, p, extra, room, failed, l, how, unregistered)
            call == IF s.i.seq THEN "decoding" ELSE "failed_header"
<1>3. Old!Store(h, s) /\ o_calls' = [o_calls EXCEPT ![h] = call]
  BY <1>2
<1>4. call \in {"working", "decoding", "decoded", "failed_header"}
  OBVIOUS
<1>5. /\ p \in Int /\ extra \in Int /\ room \in Int
      /\ failed \in BOOLEAN /\ unregistered \in BOOLEAN
  BY OldSets, MayFailOK
<1>6. l \in 0..Len(Old!HeaderBuffers(c))
  <2>1. n \in 0..2
    OBVIOUS
  <2>. QED  BY <1>1, <2>1 DEF OldCodecs, Old!HeaderBuffers, Old!Least
<1>7. b = Old!State(h, inst[h])
      /\ s = Old!Header(c, b, p, extra, room, failed, l, how, unregistered)
  OBVIOUS
<1>. HIDE DEF call, s, l, b
<1>8. CallOK(h, b) /\ HasEnv(b) /\ IsOpen(b)
  BY <1>1, <1>7, WorkingState
<1>. HIDE DEF c
<1>9. CallOK(h, s) /\ Kept(b, s)
  BY <1>1, <1>5, <1>6, <1>7, <1>8, HeaderOK
<1>10. Kept(Old!State(h, inst[h]), s)
  BY <1>7, <1>9
<1>. QED  BY <1>1, <1>3, <1>4, <1>9, <1>10, WorkingCall

LEMMA OldDecodeStep ==
  ASSUME OldCovered, OldInv, NEW h \in OldSetup.handles, Old!VideoDecoder_Decode(h)
  PROVE  OldInv'
<1>. DEFINE c == o_codec[h]
            b == Old!State(h, inst[h])
<1>1. /\ o_calls[h] \in {"decoding", "decoded"} /\ c \in OldCodecs
      /\ UNCHANGED <<o_codec, taken, other>>
      /\ o_calls' = [o_calls EXCEPT ![h] = "decoded"]
  BY CoveredCodec DEF Old!VideoDecoder_Decode
<1>2. PICK p \in OldSetup.pictures,
           result \in {"success", "full"}
                       \cup (IF "decode" \in OldSetup.faults THEN {"error"} ELSE {}) :
        LET i == inst[h]
            step == Old!DecodeStep(c, i, p, result)
            data == IF step.to = 0 THEN i.stream ELSE [i.stream EXCEPT ![step.to] = p]
        IN Old!Store(h, [Old!Command(b) EXCEPT !.i.stream = data, !.i.half = step.half,
                                               !.i.first = FALSE])
  BY DEF Old!VideoDecoder_Decode
<1>. DEFINE step == Old!DecodeStep(c, inst[h], p, result)
            q == IF step.to = 0 THEN inst[h].stream
                 ELSE [inst[h].stream EXCEPT ![step.to] = p]
            s == [Old!Command(b) EXCEPT !.i.stream = q, !.i.half = step.half, !.i.first = FALSE]
<1>3. Old!Store(h, s)
  BY <1>2
<1>4. b = Old!State(h, inst[h]) /\ CallOK(h, b) /\ IsOpen(b) /\ b.i = inst[h]
  <2>1. b = Old!State(h, inst[h])
    OBVIOUS
  <2>. HIDE DEF b
  <2>. QED  BY <1>1, <2>1, WorkingState
<1>5. inst[h].stream \in Seq(Int) /\ inst[h].half \in Int
  <2>1. b.i \in OldInstances
    BY <1>4 DEF CallOK
  <2>. QED  BY <1>4, <2>1 DEF OldInstances
<1>6. step.half \in Int
  BY <1>1, <1>5
  DEF OldCodecs, Old!DecodeStep, Old!vdec_vpu_DECODE, Old!vdec_hevc_DECODE,
      Old!vdec_vpu_4k_d2_DECODE
<1>7. q \in Seq(Int)
  <2>. DEFINE t == step.to
  <2>1. p \in Int
    BY OldSets
  <2>2. q = IF t = 0 THEN inst[h].stream ELSE [inst[h].stream EXCEPT ![t] = p]
    OBVIOUS
  <2>. HIDE DEF t, q
  <2>3. CASE t \in 1..Len(inst[h].stream)
    <3>1. [inst[h].stream EXCEPT ![t] = p] \in Seq(Int)
      BY <1>5, <2>1, <2>3, ExceptSeq
    <3>. QED  BY <1>5, <2>2, <3>1
  <2>4. CASE t \notin 1..Len(inst[h].stream)
    <3>1. [inst[h].stream EXCEPT ![t] = p] = inst[h].stream
      BY <1>5, <2>4
    <3>. QED  BY <1>5, <2>2, <3>1
  <2>. QED  BY <2>3, <2>4
<1>. DEFINE half == step.half
<1>8. s = [Old!Command(b) EXCEPT !.i.stream = q, !.i.half = half, !.i.first = FALSE]
      /\ half \in Int
  BY <1>6
<1>. HIDE DEF s, q, half, b
<1>9. CallOK(h, s) /\ Kept(b, s)
  BY <1>4, <1>7, <1>8, DecodeOK
<1>10. Kept(Old!State(h, inst[h]), s)
  BY <1>4, <1>9
<1>. QED  BY <1>1, <1>3, <1>9, <1>10, WorkingCall

LEMMA OldDeinitStep ==
  ASSUME OldCovered, OldInv, NEW h \in OldSetup.handles, Old!VideoDecoder_Deinit(h)
  PROVE  OldInv'
<1>1. /\ UNCHANGED <<o_codec, other>> /\ o_calls' = [o_calls EXCEPT ![h] = "deinited"]
  BY DEF Old!VideoDecoder_Deinit
<1>2. /\ o_calls' \in [OldSetup.handles -> OldCalls] /\ o_calls'[h] = "deinited"
      /\ \A g \in OldSetup.handles : g # h => o_calls'[g] = o_calls[g]
  BY <1>1 DEF OldInv, OldTypes, OldCalls
<1>3. CASE inst[h] = Old!NoInstance /\ UNCHANGED <<inst, dev, o_maps, stray, taken>>
  <2>1. OldTypes'
    BY <1>1, <1>2, <1>3 DEF OldInv, OldTypes, OldCalls
  <2>2. OldLife'
    <3>1. ASSUME NEW g \in OldSetup.handles
          PROVE  Life(o_calls'[g], o_codec[g], inst[g], dev[inst[g].index])
      <4>1. CASE g = h
        BY <1>2, <1>3, <4>1, LifeNone
      <4>2. CASE g # h
        BY <1>2, <4>2 DEF OldInv, OldLife
      <4>. QED  BY <4>1, <4>2
    <3>. QED  BY <1>1, <1>3, <3>1 DEF OldLife
  <2>3. OldMemory' /\ Old!IndexOwned' /\ Old!NoIndexLost' /\ Old!CommandsInOrder'
    BY <1>1, <1>3
    DEF OldInv, OldMemory, Old!IndexOwned, Old!NoIndexLost, Old!CommandsInOrder, Old!Live
  <2>. QED  BY <2>1, <2>2, <2>3 DEF OldInv
<1>4. CASE inst[h] # Old!NoInstance
  <2>. DEFINE b == Old!State(h, inst[h])
              c == o_codec[h]
  <2>1. /\ CallOK(h, b) /\ b.i = inst[h] /\ inst[h].index \in OldSetup.indices
        /\ \A g \in OldSetup.handles : g # h /\ inst[g] # Old!NoInstance =>
             inst[g].index # inst[h].index
    BY <1>4, StateOK
  <2>2. PICK failed \in Old!MayFail("close") :
          LET s == Old!VDEC_CLOSE(c, b, failed)
          IN /\ dev' = [dev EXCEPT ![s.i.index] = s.d]
             /\ o_maps' = s.m /\ stray' = s.stray
    BY <1>4 DEF Old!VideoDecoder_Deinit
  <2>3. inst' = [inst EXCEPT ![h] = Old!NoInstance] /\ taken' = taken \ {inst[h].index}
    BY <1>4 DEF Old!VideoDecoder_Deinit, Old!vdec_release_instance
  <2>. DEFINE s == Old!VDEC_CLOSE(c, b, failed)
              k == inst[h].index
  <2>4. /\ dev' = [dev EXCEPT ![s.i.index] = s.d] /\ o_maps' = s.m
    BY <2>2
  <2>5. stray' = s.stray
    BY <2>2
  <2>6. s = Old!VDEC_CLOSE(c, b, failed) /\ c \in OldCodecs /\ failed \in BOOLEAN
    BY CoveredCodec, MayFailOK
  <2>. HIDE DEF s, b, c
  <2>7. CallOK(h, s) /\ s.i.index = k /\ s.d.mem = {} /\ s.i.va = {}
    BY <2>1, <2>6, CloseOK
  <2>8. /\ inst'[h] = Old!NoInstance /\ dev'[k] = s.d
        /\ inst' \in [OldSetup.handles -> OldInstances \cup {Old!NoInstance}]
        /\ \A g \in OldSetup.handles : g # h => inst'[g] = inst[g]
        /\ \A n \in OldSetup.indices : n # k => dev'[n] = dev[n]
    BY <2>1, <2>3, <2>4, <2>7 DEF OldInv, OldTypes
  <2>9. o_maps' = {m \in o_maps : m[1] # h}
    BY <2>4, <2>7 DEF CallOK
  <2>10. dev' \in [OldSetup.indices ->
                     [mem : SUBSET (OldSetup.handles \X Old!Buffers), open : BOOLEAN]]
    <3>1. s.d \in [mem : SUBSET (OldSetup.handles \X Old!Buffers), open : BOOLEAN]
      BY <2>7 DEF CallOK
    <3>. QED  BY <2>1, <2>4, <2>7, <3>1 DEF OldInv, OldTypes
  <2>11. Old!IndexOwned' /\ Old!NoIndexLost' /\ taken' \subseteq OldSetup.indices
         /\ other' \subseteq taken'
    BY <1>1, <1>4, <2>3, IndexReleased
  <2>12. OldTypes'
    BY <1>1, <1>2, <2>8, <2>9, <2>10, <2>11 DEF OldInv, OldTypes, OldCalls
  <2>13. OldMemory'
    <3>1. ASSUME NEW n \in OldSetup.indices, NEW m \in dev'[n].mem
          PROVE  inst'[m[1]] # Old!NoInstance /\ inst'[m[1]].index = n
      <4>1. n # k
        BY <2>7, <2>8, <3>1
      <4>2. m \in dev[n].mem
        BY <2>8, <3>1, <4>1
      <4>3. inst[m[1]] # Old!NoInstance /\ inst[m[1]].index = n
        BY <4>2 DEF OldInv, OldMemory
      <4>4. m[1] \in OldSetup.handles /\ m[1] # h
        BY <4>1, <4>2, <4>3 DEF OldInv, OldTypes
      <4>. QED  BY <2>8, <4>3, <4>4
    <3>2. ASSUME NEW m \in o_maps'
          PROVE  inst'[m[1]] # Old!NoInstance /\ m[2] \in inst'[m[1]].va
      <4>1. m \in o_maps /\ m[1] # h
        BY <2>9
      <4>2. inst[m[1]] # Old!NoInstance /\ m[2] \in inst[m[1]].va /\ m[1] \in OldSetup.handles
        BY <4>1 DEF OldInv, OldMemory, OldTypes
      <4>. QED  BY <2>8, <4>1, <4>2
    <3>3. ASSUME NEW g \in Old!Live', NEW a \in inst'[g].va
          PROVE  <<g, a>> \in o_maps' /\ <<g, a>> \in dev'[inst'[g].index].mem
      <4>1. g \in OldSetup.handles /\ g # h /\ g \in Old!Live /\ inst'[g] = inst[g]
        BY <2>8 DEF Old!Live
      <4>2. <<g, a>> \in o_maps /\ <<g, a>> \in dev[inst[g].index].mem
        BY <3>3, <4>1 DEF OldInv, OldMemory
      <4>3. inst[g].index # k /\ inst[g].index \in OldSetup.indices
        BY <2>1, <4>1 DEF Old!Live, OldInv, OldTypes, OldInstances
      <4>. QED  BY <2>8, <2>9, <4>1, <4>2, <4>3
    <3>. QED  BY <3>1, <3>2, <3>3 DEF OldMemory
  <2>14. OldLife'
    <3>1. ASSUME NEW g \in OldSetup.handles
          PROVE  Life(o_calls'[g], o_codec[g], inst'[g], dev'[inst'[g].index])
      <4>1. CASE g = h
        BY <1>2, <2>8, <4>1, LifeNone
      <4>2. Life(o_calls[g], o_codec[g], inst[g], dev[inst[g].index])
        BY DEF OldInv, OldLife
      <4>3. CASE g # h /\ inst[g] # Old!NoInstance
        <5>1. inst[g].index # k /\ inst[g].index \in OldSetup.indices
          BY <2>1, <4>3 DEF OldInv, OldTypes, OldInstances
        <5>. QED  BY <1>2, <2>8, <4>2, <4>3, <5>1
      <4>4. CASE g # h /\ inst[g] = Old!NoInstance
        <5>1. Life(o_calls[g], o_codec[g], Old!NoInstance, dev'[inst'[g].index])
          BY <4>2, <4>4, Zenon DEF Life
        <5>. QED  BY <1>2, <2>8, <4>4, <5>1
      <4>. QED  BY <4>1, <4>3, <4>4
    <3>. QED  BY <1>1, <3>1 DEF OldLife
  <2>15. Old!CommandsInOrder'
    <3>1. ~s.stray
      BY <2>7 DEF CallOK
    <3>. QED  BY <2>5, <3>1, Zenon DEF Old!CommandsInOrder
  <2>. QED  BY <2>11, <2>12, <2>13, <2>14, <2>15 DEF OldInv
<1>. QED  BY <1>3, <1>4 DEF Old!VideoDecoder_Deinit

LEMMA OldCreateStep ==
  ASSUME OldCovered, OldInv, NEW h \in OldSetup.handles, Old!VideoDecoder_Create(h)
  PROVE  OldInv'
<1>1. /\ o_calls[h] = "deinited" /\ o_calls' = [o_calls EXCEPT ![h] = "created"]
      /\ UNCHANGED <<inst, taken, other, dev, o_maps, stray>>
  BY DEF Old!VideoDecoder_Create
<1>2. PICK c \in OldSetup.codecs : o_codec' = [o_codec EXCEPT ![h] = c]
  BY DEF Old!VideoDecoder_Create
<1>3. OldTypes'
  BY <1>1, <1>2 DEF OldInv, OldTypes
<1>4. inst[h] = Old!NoInstance
  <2>1. Life(o_calls[h], o_codec[h], inst[h], dev[inst[h].index])
    BY DEF OldInv, OldLife
  <2>2. o_calls[h] \in {"created", "deinited"}
    BY <1>1
  <2>. QED  BY <2>1, <2>2, Zenon DEF Life
<1>5. OldLife'
  <2>1. ASSUME NEW g \in OldSetup.handles
        PROVE  Life(o_calls'[g], o_codec'[g], inst[g], dev[inst[g].index])
    <3>1. CASE g = h
      <4>1. o_calls'[g] = "created" /\ inst[g] = Old!NoInstance
        BY <1>1, <1>4, <3>1 DEF OldInv, OldTypes
      <4>. QED  BY <4>1, LifeNone
    <3>2. CASE g # h
      BY <1>1, <1>2, <3>2 DEF OldInv, OldLife, OldTypes
    <3>. QED  BY <3>1, <3>2
  <2>. QED  BY <1>1, <2>1 DEF OldLife
<1>6. OldMemory' /\ Old!IndexOwned' /\ Old!NoIndexLost' /\ Old!CommandsInOrder'
  BY <1>1
  DEF OldInv, OldMemory, Old!IndexOwned, Old!NoIndexLost, Old!CommandsInOrder, Old!Live
<1>. QED  BY <1>3, <1>5, <1>6 DEF OldInv

LEMMA OldOtherStep ==
  ASSUME OldInv, Old!OtherProcess
  PROVE  OldInv'
<1>1. UNCHANGED <<o_calls, o_codec, inst, dev, o_maps, stray>>
  BY DEF Old!OtherProcess
<1>2. OldMemory' /\ OldLife' /\ Old!CommandsInOrder'
  BY <1>1 DEF OldInv, OldMemory, OldLife, Old!CommandsInOrder, Old!Live
<1>3. /\ taken' \subseteq OldSetup.indices /\ other' \subseteq taken'
      /\ Old!IndexOwned' /\ Old!NoIndexLost'
  <2>1. CASE \E k \in Old!Free : taken' = taken \cup {k} /\ other' = other \cup {k}
    BY <1>1, <2>1
    DEF OldInv, OldTypes, Old!IndexOwned, Old!NoIndexLost, Old!Live, Old!Free
  <2>2. CASE \E k \in other : taken' = taken \ {k} /\ other' = other \ {k}
    BY <1>1, <2>2 DEF OldInv, OldTypes, Old!IndexOwned, Old!NoIndexLost, Old!Live
  <2>. QED  BY <2>1, <2>2 DEF Old!OtherProcess
<1>4. OldTypes'
  BY <1>1, <1>3 DEF OldInv, OldTypes
<1>. QED  BY <1>2, <1>3, <1>4 DEF OldInv

LEMMA OldInitInv ==
  ASSUME Old!Init
  PROVE  OldInv
<1>1. /\ o_calls = [h \in OldSetup.handles |-> "created"]
      /\ o_codec \in [OldSetup.handles -> OldSetup.codecs]
      /\ inst = [h \in OldSetup.handles |-> Old!NoInstance]
      /\ taken = {} /\ other = {} /\ o_maps = {}
      /\ dev = [k \in OldSetup.indices |-> [mem |-> {}, open |-> FALSE]]
  BY DEF Old!Init
<1>2. [mem |-> {}, open |-> FALSE] \in
        [mem : SUBSET (OldSetup.handles \X Old!Buffers), open : BOOLEAN]
  OBVIOUS
<1>3. OldTypes
  BY <1>1, <1>2 DEF OldTypes
<1>4. OldMemory
  BY <1>1 DEF OldMemory, Old!Live
<1>5. OldLife
  <2>1. ASSUME NEW h \in OldSetup.handles
        PROVE  Life(o_calls[h], o_codec[h], inst[h], dev[inst[h].index])
    <3>1. o_calls[h] = "created" /\ inst[h] = Old!NoInstance
      BY <1>1
    <3>. QED  BY <3>1, LifeNone
  <2>. QED  BY <2>1 DEF OldLife
<1>6. Old!IndexOwned /\ Old!NoIndexLost
  BY <1>1 DEF Old!IndexOwned, Old!NoIndexLost, Old!Live
<1>7. Old!CommandsInOrder
  BY Zenon DEF Old!Init, Old!CommandsInOrder
<1>. QED  BY <1>3, <1>4, <1>5, <1>6, <1>7 DEF OldInv

LEMMA OldStep ==
  ASSUME OldCovered, OldInv, Old!Next
  PROVE  OldInv'
BY OldInitStep, OldHeaderStep, OldDecodeStep, OldDeinitStep, OldCreateStep, OldOtherStep
DEF Old!Next

(* A handle that was Deinited has no instance, so nothing on any device is *)
(* its own; one that works has what OldLife says.                          *)
LEMMA OldImplies ==
  ASSUME OldInv
  PROVE  Old!NothingLeft /\ Old!WorkingHasBuffers
<1>1. ASSUME NEW h \in OldSetup.handles, o_calls[h] = "deinited"
      PROVE  inst[h] = Old!NoInstance
  <2>1. Life(o_calls[h], o_codec[h], inst[h], dev[inst[h].index])
    BY DEF OldInv, OldLife
  <2>2. o_calls[h] \in {"created", "deinited"}
    BY <1>1
  <2>. QED  BY <2>1, <2>2, Zenon DEF Life
<1>2. Old!NothingLeft
  <2>1. \A m \in o_maps : inst[m[1]] # Old!NoInstance
    BY DEF OldInv, OldMemory
  <2>2. \A k \in OldSetup.indices : \A m \in dev[k].mem : inst[m[1]] # Old!NoInstance
    BY DEF OldInv, OldMemory
  <2>. QED  BY <1>1, <2>1, <2>2 DEF Old!NothingLeft
<1>3. ASSUME NEW h \in OldSetup.handles, o_calls[h] \in {"working", "decoding", "decoded"}
      PROVE  /\ {Old!Ready(o_codec[h])[k] : k \in DOMAIN Old!Ready(o_codec[h])} \ Old!Physical
                  \subseteq inst[h].va
             /\ \A b \in inst[h].va :
                  <<h, b>> \in dev[inst[h].index].mem /\ <<h, b>> \in o_maps
  <2>1. Life(o_calls[h], o_codec[h], inst[h], dev[inst[h].index])
    BY DEF OldInv, OldLife
  <2>2. o_calls[h] \in {"working", "decoding", "decoded", "failed_header"}
    BY <1>3
  <2>3. inst[h] # Old!NoInstance
    BY <2>1, <2>2, Zenon DEF Life
  <2>4. {Old!Ready(o_codec[h])[k] : k \in DOMAIN Old!Ready(o_codec[h])} \ Old!Physical
          \subseteq inst[h].va
    BY <2>1, <2>2, Zenon DEF Life
  <2>5. h \in Old!Live
    BY <2>3 DEF Old!Live
  <2>. QED  BY <2>4, <2>5 DEF OldInv, OldMemory
<1>4. Old!WorkingHasBuffers
  BY <1>3 DEF Old!WorkingHasBuffers
<1>. QED  BY <1>2, <1>4

------------------------------------------------------------------------------
(* The old library's handles: what they decode.                            *)

(* What is known of an instance, and of a call's state, for what a handle  *)
(* decodes: the fields they have.                                          *)
IsInstance(i) ==
  i = [index |-> i.index, env |-> i.env, opened |-> i.opened, va |-> i.va, extra |-> i.extra,
       frames |-> i.frames, seq |-> i.seq, first |-> i.first, half |-> i.half,
       stream |-> i.stream]
IsState(s) == s = [h |-> s.h, i |-> s.i, d |-> s.d, m |-> s.m, stray |-> s.stray]

HasSeq(i) == i.seq
IsFirst(i) == i.first
IsKept(l) == l.kept

DecodeSet == [given : Int, read : Int, previous : {0, 1, 2}, kept : BOOLEAN]
StreamCalls ==
  {"created", "working", "failed", "failed_header", "decoding", "decoded", "deinited"}

(* The bitstream buffer of an instance has two halves; a header that was   *)
(* accepted has registered its frames.                                     *)
InstanceOK(c, i) ==
  /\ IsInstance(i) /\ i.half \in {0, 1} /\ i.stream \in Seq(Int) /\ Len(i.stream) = 2
  /\ c # "4kd2" /\ HasSeq(i) => i.frames >= OldStreamSetup.minFrames

(* What the last decode l left: the picture of the header is where the     *)
(* first decode reads, and the half that was read is not the next one.     *)
StreamOf(call, c, i, l) ==
  /\ call \in {"working", "decoding", "decoded"} => i # OldStream!NoInstance
  /\ call \in {"created", "deinited"} => i = OldStream!NoInstance
  /\ i # OldStream!NoInstance => InstanceOK(c, i)
  /\ call = "decoding" => i.stream[1] = l.given
  /\ call = "decoded" => ~IsFirst(i) /\ l.read = l.given
  /\ call # "decoded" => l.previous = 0 /\ IsKept(l)
  /\ c \in {"hevc", "4kd2"} =>
       IsKept(l) /\ (call = "decoded" => l.previous # i.half + 1)

DecodeInv ==
  /\ inst = [h \in OldStreamSetup.handles |-> inst[h]]
  /\ o_codec \in [OldStreamSetup.handles -> OldStreamSetup.codecs]
  /\ o_calls \in [OldStreamSetup.handles -> StreamCalls]
  /\ o_last \in [OldStreamSetup.handles -> DecodeSet]
  /\ \A h \in OldStreamSetup.handles :
       StreamOf(o_calls[h], o_codec[h], inst[h], o_last[h])

(* A function that decodes nothing leaves what an instance decodes.        *)
SameStream(j, i) ==
  /\ IsInstance(j) /\ j.stream = i.stream /\ j.frames = i.frames
  /\ j.half \in {i.half, 0} /\ (HasSeq(j) => HasSeq(i))

LEMMA SameStreamTwice ==
  ASSUME NEW i, NEW j, NEW k, SameStream(j, i), SameStream(k, j)
  PROVE  SameStream(k, i)
BY DEF SameStream

LEMMA SameStreamOK ==
  ASSUME NEW c, NEW i, NEW j, InstanceOK(c, i), SameStream(j, i)
  PROVE  InstanceOK(c, j) /\ j.stream = i.stream
BY DEF SameStream, InstanceOK

LEMMA SetStreamSame ==
  ASSUME NEW i, IsInstance(i), NEW v
  PROVE  /\ SameStream(i, i)
         /\ SameStream([i EXCEPT !.va = v], i) /\ SameStream([i EXCEPT !.env = v], i)
         /\ SameStream([i EXCEPT !.opened = v], i) /\ SameStream([i EXCEPT !.extra = v], i)
         /\ SameStream([i EXCEPT !.first = v], i) /\ SameStream([i EXCEPT !.half = 0], i)
<1>1. SameStream(i, i)
  BY DEF SameStream
<1>2. SameStream([i EXCEPT !.va = v], i)
  BY DEF SameStream, IsInstance, HasSeq
<1>3. SameStream([i EXCEPT !.env = v], i)
  BY DEF SameStream, IsInstance, HasSeq
<1>4. SameStream([i EXCEPT !.opened = v], i)
  BY DEF SameStream, IsInstance, HasSeq
<1>5. SameStream([i EXCEPT !.extra = v], i)
  BY DEF SameStream, IsInstance, HasSeq
<1>6. SameStream([i EXCEPT !.first = v], i)
  BY DEF SameStream, IsInstance, HasSeq
<1>7. SameStream([i EXCEPT !.half = 0], i)
  BY DEF SameStream, IsInstance, HasSeq
<1>. QED  BY <1>1, <1>2, <1>3, <1>4, <1>5, <1>6, <1>7

OnStream(s) == IsState(s) /\ IsInstance(s.i)
CallSame(s, r) == IsState(r) /\ SameStream(r.i, s.i)

LEMMA CallSameTwice ==
  ASSUME NEW s, NEW t, NEW r, CallSame(s, t), CallSame(t, r)
  PROVE  CallSame(s, r)
BY SameStreamTwice DEF CallSame

LEMMA CallSameOn ==
  ASSUME NEW s, NEW r, CallSame(s, r)
  PROVE  OnStream(r)
BY DEF CallSame, OnStream, SameStream

LEMMA SetInstance ==
  ASSUME NEW s, OnStream(s), NEW j, SameStream(j, s.i), NEW r, r = [s EXCEPT !.i = j]
  PROVE  CallSame(s, r) /\ r.i = j
<1>1. r = [h |-> s.h, i |-> j, d |-> s.d, m |-> s.m, stray |-> s.stray]
  BY DEF OnStream, IsState
<1>. QED  BY <1>1 DEF CallSame, IsState

LEMMA SetKernel ==
  ASSUME NEW s, OnStream(s), NEW d, NEW m, NEW b,
         NEW r, r = [h |-> s.h, i |-> s.i, d |-> d, m |-> m, stray |-> b]
  PROVE  CallSame(s, r) /\ r.i = s.i
<1>1. r.i = s.i /\ IsState(r)
  BY DEF IsState
<1>2. SameStream(s.i, s.i)
  BY SetStreamSame DEF OnStream
<1>. QED  BY <1>1, <1>2 DEF CallSame

LEMMA StreamCommand ==
  ASSUME NEW s, OnStream(s)
  PROVE  CallSame(s, OldStream!Command(s)) /\ OldStream!Command(s).i = s.i
<1>1. OldStream!Command(s) =
        [h |-> s.h, i |-> s.i, d |-> s.d, m |-> s.m, stray |-> s.stray \/ ~s.d.open]
  BY DEF OldStream!Command, OnStream, IsState
<1>. QED  BY <1>1, SetKernel

LEMMA StreamMalloc ==
  ASSUME NEW s, OnStream(s), NEW buffers, NEW n, NEW how
  PROVE  CallSame(s, OldStream!malloc_dual_addr(s, buffers, n, how))
<1>. DEFINE there  == {buffers[k] : k \in 1..n}
            half   == IF n < Len(buffers) /\ how = "va" /\ buffers[n + 1] \notin OldStream!Physical
                      THEN {buffers[n + 1]} ELSE {}
            mapped == there \ OldStream!Physical
            x == s.d.mem \cup ({s.h} \X (there \cup half))
            e == [s.d EXCEPT !.mem = x]
            m == s.m \cup ({s.h} \X mapped)
            t == [h |-> s.h, i |-> s.i, d |-> e, m |-> m, stray |-> s.stray]
            v == s.i.va \cup mapped
            j == [s.i EXCEPT !.va = v]
            r == OldStream!malloc_dual_addr(s, buffers, n, how)
<1>1. r = [s EXCEPT !.d.mem = @ \cup ({s.h} \X (there \cup half)),
                    !.i.va = @ \cup mapped, !.m = @ \cup ({s.h} \X mapped)]
  BY DEF OldStream!malloc_dual_addr
<1>. HIDE DEF there, half, mapped, r
<1>2. r = [t EXCEPT !.i = j]
  <2>1. s = [h |-> s.h, i |-> s.i, d |-> s.d, m |-> s.m, stray |-> s.stray]
    BY DEF OnStream, IsState
  <2>2. r = [s EXCEPT !.d.mem = x, !.i.va = v, !.m = m]
    BY <1>1, Zenon
  <2>. HIDE DEF x, v, m
  <2>3. [s EXCEPT !.d.mem = x, !.i.va = v, !.m = m] =
          [[[s EXCEPT !.d = e] EXCEPT !.i = j] EXCEPT !.m = m]
    BY <2>1
  <2>. HIDE DEF e, j
  <2>. DEFINE y == [s EXCEPT !.d = e]
              z == [y EXCEPT !.i = j]
  <2>4. y = [h |-> s.h, i |-> s.i, d |-> e, m |-> s.m, stray |-> s.stray]
    BY <2>1
  <2>. HIDE DEF y
  <2>5. z = [h |-> s.h, i |-> j, d |-> e, m |-> s.m, stray |-> s.stray]
    BY <2>4
  <2>. HIDE DEF z
  <2>6. [z EXCEPT !.m = m] = [t EXCEPT !.i = j]
    BY <2>5
  <2>. QED  BY <2>2, <2>3, <2>6 DEF y, z
<1>3. SameStream(j, s.i)
  BY SetStreamSame DEF OnStream
<1>4. t = [h |-> s.h, i |-> s.i, d |-> e, m |-> m, stray |-> s.stray]
  OBVIOUS
<1>. HIDE DEF t, e, m, j
<1>5. CallSame(s, t) /\ t.i = s.i
  BY <1>4, SetKernel
<1>6. CallSame(t, r)
  BY <1>2, <1>3, <1>5, SetInstance, CallSameOn
<1>7. CallSame(s, r)
  BY <1>5, <1>6, CallSameTwice
<1>. QED  BY <1>7 DEF r

LEMMA StreamEnvOpen ==
  ASSUME NEW s, OnStream(s)
  PROVE  CallSame(s, OldStream!vpu_env_open(s))
<1>. DEFINE j == [s.i EXCEPT !.env = TRUE]
            k == [j EXCEPT !.extra = 4]
            r == OldStream!vpu_env_open(s)
<1>1. r = [s EXCEPT !.i = k]
  BY DEF OldStream!vpu_env_open, OnStream, IsState, IsInstance
<1>. HIDE DEF r
<1>2. SameStream(j, s.i)
  BY SetStreamSame DEF OnStream
<1>. HIDE DEF j
<1>3. SameStream(k, j)
  BY <1>2, SetStreamSame DEF SameStream
<1>. HIDE DEF k
<1>4. CallSame(s, r)
  BY <1>1, <1>2, <1>3, SameStreamTwice, SetInstance
<1>. QED  BY <1>4 DEF r

(* What the INIT of a codec does to an instance.                           *)
LEMMA StreamCodecInit ==
  ASSUME NEW s, OnStream(s), NEW failed \in BOOLEAN,
         NEW r \in {OldStream!vdec_vpu_INIT(s, failed), OldStream!vdec_hevc_INIT(s, failed),
                    OldStream!vdec_vpu_4k_d2_INIT(s, failed),
                    OldStream!vdec_mjpeg_jpu_INIT(s, failed)}
  PROVE  CallSame(s, r)
<1>. DEFINE e == [s.d EXCEPT !.open = @ \/ ~failed]
            t == OldStream!InitCommand(s, failed)
            o == s.i.opened \/ ~failed
<1>1. t = [h |-> s.h, i |-> s.i, d |-> e, m |-> s.m, stray |-> s.stray]
  BY DEF OldStream!InitCommand, OnStream, IsState
<1>. HIDE DEF e
<1>2. CallSame(s, t) /\ t.i = s.i /\ OnStream(t)
  <2>. HIDE DEF t
  <2>1. CallSame(s, t) /\ t.i = s.i
    BY <1>1, SetKernel
  <2>. QED  BY <2>1, CallSameOn
<1>3. \E b \in {o, TRUE} :
        \/ r = [t EXCEPT !.i.opened = b]
        \/ r = [t EXCEPT !.i.opened = b, !.i.half = 0]
        \/ r = [t EXCEPT !.i.opened = b, !.i.first = TRUE]
  <2>1. CASE r = OldStream!vdec_vpu_INIT(s, failed)
    <3>1. r = [t EXCEPT !.i.opened = @ \/ ~failed]
      BY <2>1 DEF OldStream!vdec_vpu_INIT
    <3>2. r = [t EXCEPT !.i.opened = o]
      BY <1>2, <3>1, Zenon
    <3>. QED  BY <3>2, Zenon
  <2>2. CASE r \in {OldStream!vdec_hevc_INIT(s, failed),
                    OldStream!vdec_vpu_4k_d2_INIT(s, failed)}
    <3>1. r = [t EXCEPT !.i.opened = @ \/ ~failed, !.i.half = 0]
      BY <2>2 DEF OldStream!vdec_hevc_INIT, OldStream!vdec_vpu_4k_d2_INIT
    <3>2. r = [t EXCEPT !.i.opened = o, !.i.half = 0]
      BY <1>2, <3>1, Zenon
    <3>. QED  BY <3>2, Zenon
  <2>3. CASE r = OldStream!vdec_mjpeg_jpu_INIT(s, failed)
    <3>1. r = [t EXCEPT !.i.opened = TRUE, !.i.first = TRUE]
      BY <2>3, Zenon DEF OldStream!vdec_mjpeg_jpu_INIT
    <3>. QED  BY <3>1, Zenon
  <2>. QED  BY <2>1, <2>2, <2>3
<1>. HIDE DEF t, o
<1>4. PICK b \in {o, TRUE} :
        \/ r = [t EXCEPT !.i.opened = b]
        \/ r = [t EXCEPT !.i.opened = b, !.i.half = 0]
        \/ r = [t EXCEPT !.i.opened = b, !.i.first = TRUE]
  BY <1>3, Zenon
<1>. DEFINE k == [t.i EXCEPT !.opened = b]
            a == [k EXCEPT !.half = 0]
            f == [k EXCEPT !.first = TRUE]
<1>5. \/ r = [t EXCEPT !.i = k]
      \/ r = [t EXCEPT !.i = a]
      \/ r = [t EXCEPT !.i = f]
  <2>1. [t EXCEPT !.i.opened = b] = [t EXCEPT !.i = k]
    BY <1>2 DEF OnStream, IsState
  <2>2. [t EXCEPT !.i.opened = b, !.i.half = 0] = [t EXCEPT !.i = a]
    BY <1>2 DEF OnStream, IsState, IsInstance
  <2>3. [t EXCEPT !.i.opened = b, !.i.first = TRUE] = [t EXCEPT !.i = f]
    BY <1>2 DEF OnStream, IsState, IsInstance
  <2>. QED  BY <1>4, <2>1, <2>2, <2>3, Zenon
<1>6. SameStream(k, t.i)
  BY <1>2, SetStreamSame DEF OnStream
<1>. HIDE DEF k
<1>7. SameStream(a, k) /\ SameStream(f, k)
  BY <1>6, SetStreamSame DEF SameStream
<1>. HIDE DEF a, f
<1>8. SameStream(a, t.i) /\ SameStream(f, t.i)
  BY <1>6, <1>7, SameStreamTwice
<1>9. CallSame(t, r)
  BY <1>2, <1>5, <1>6, <1>8, SetInstance
<1>. QED  BY <1>2, <1>9, CallSameTwice

LEMMA StreamInit ==
  ASSUME NEW s, OnStream(s), NEW c \in {"vpu", "hevc", "4kd2", "mjpeg"}, NEW n, NEW how,
         NEW failed \in BOOLEAN
  PROVE  CallSame(s, OldStream!VDEC_INIT(c, s, n, how, failed))
<1>. DEFINE e == OldStream!vpu_env_open(s)
            t == OldStream!malloc_dual_addr(e, OldStream!Ready(c), n, how)
            r == OldStream!VDEC_INIT(c, s, n, how, failed)
<1>1. r \in {t, OldStream!vdec_vpu_INIT(t, failed), OldStream!vdec_hevc_INIT(t, failed),
             OldStream!vdec_vpu_4k_d2_INIT(t, failed), OldStream!vdec_mjpeg_jpu_INIT(t, failed)}
  BY DEF OldStream!VDEC_INIT
<1>2. CallSame(s, e)
  BY StreamEnvOpen
<1>. HIDE DEF e, r
<1>3. CallSame(e, t)
  BY <1>2, StreamMalloc, CallSameOn
<1>. HIDE DEF t
<1>4. CallSame(s, t) /\ OnStream(t)
  BY <1>2, <1>3, CallSameTwice, CallSameOn
<1>5. CallSame(s, r)
  <2>1. CASE r = t
    BY <1>4, <2>1
  <2>2. CASE r # t
    BY <1>1, <1>4, <2>2, StreamCodecInit, CallSameTwice
  <2>. QED  BY <2>1, <2>2
<1>. QED  BY <1>5 DEF r

LEMMA SetBoth ==
  ASSUME NEW s, OnStream(s), NEW j, SameStream(j, s.i), NEW d, NEW m, NEW b,
         NEW r, r = [h |-> s.h, i |-> j, d |-> d, m |-> m, stray |-> b]
  PROVE  CallSame(s, r)
BY DEF CallSame, IsState

LEMMA StreamFree ==
  ASSUME NEW s, OnStream(s), NEW buffers
  PROVE  CallSame(s, OldStream!free_virtual_addr(s, buffers))
<1>. DEFINE v == s.i.va \ buffers
            j == [s.i EXCEPT !.va = v]
            m == s.m \ ({s.h} \X (s.i.va \cap buffers))
            r == OldStream!free_virtual_addr(s, buffers)
<1>1. r = [s EXCEPT !.m = m, !.i.va = v]
  BY DEF OldStream!free_virtual_addr
<1>2. SameStream(j, s.i)
  BY SetStreamSame DEF OnStream
<1>. HIDE DEF m, v, r
<1>3. r = [h |-> s.h, i |-> j, d |-> s.d, m |-> m, stray |-> s.stray]
  BY <1>1 DEF OnStream, IsState
<1>4. CallSame(s, r)
  BY <1>2, <1>3, SetBoth
<1>. QED  BY <1>4 DEF r

LEMMA StreamEnvClose ==
  ASSUME NEW s, OnStream(s)
  PROVE  CallSame(s, OldStream!vpu_env_close(s))
<1>. DEFINE j == [s.i EXCEPT !.env = FALSE]
            d == [s.d EXCEPT !.mem = {}]
            r == OldStream!vpu_env_close(s)
<1>1. r = [s EXCEPT !.i.env = FALSE, !.d.mem = {}]
  BY Zenon DEF OldStream!vpu_env_close
<1>2. SameStream(j, s.i)
  BY SetStreamSame DEF OnStream
<1>. HIDE DEF r
<1>3. r = [h |-> s.h, i |-> j, d |-> d, m |-> s.m, stray |-> s.stray]
  BY <1>1 DEF OnStream, IsState
<1>4. CallSame(s, r)
  BY <1>2, <1>3, SetBoth
<1>. QED  BY <1>4 DEF r

LEMMA StreamCloseCommand ==
  ASSUME NEW s, OnStream(s), NEW failed \in BOOLEAN
  PROVE  CallSame(s, OldStream!CloseCommand(s, failed))
<1>. DEFINE t == OldStream!Command(s)
            d == [t.d EXCEPT !.open = @ /\ failed]
            r == OldStream!CloseCommand(s, failed)
<1>1. r = [t EXCEPT !.d.open = @ /\ failed]
  BY Zenon DEF OldStream!CloseCommand
<1>. HIDE DEF r
<1>2. CallSame(s, t) /\ OnStream(t)
  BY StreamCommand, CallSameOn
<1>. HIDE DEF t
<1>3. r = [h |-> t.h, i |-> t.i, d |-> d, m |-> t.m, stray |-> t.stray]
  BY <1>1, <1>2 DEF OnStream, IsState
<1>. HIDE DEF d
<1>4. CallSame(t, r)
  BY <1>2, <1>3, SetKernel
<1>5. CallSame(s, r)
  BY <1>2, <1>4, CallSameTwice
<1>. QED  BY <1>5 DEF r

LEMMA StreamUnopen ==
  ASSUME NEW s, OnStream(s), NEW failed \in BOOLEAN
  PROVE  CallSame(s, [OldStream!CloseCommand(s, failed) EXCEPT !.i.opened = FALSE])
<1>. DEFINE t == OldStream!CloseCommand(s, failed)
            j == [t.i EXCEPT !.opened = FALSE]
            r == [t EXCEPT !.i.opened = FALSE]
<1>1. CallSame(s, t) /\ OnStream(t)
  BY StreamCloseCommand, CallSameOn
<1>. HIDE DEF t
<1>2. r = [t EXCEPT !.i = j]
  BY <1>1 DEF OnStream, IsState
<1>3. SameStream(j, t.i)
  BY <1>1, SetStreamSame DEF OnStream
<1>. HIDE DEF j, r
<1>4. CallSame(s, r)
  BY <1>1, <1>2, <1>3, SetInstance, CallSameTwice
<1>. QED  BY <1>4 DEF r, t

LEMMA StreamClose ==
  ASSUME NEW s, OnStream(s), NEW c \in {"vpu", "hevc", "4kd2", "mjpeg"},
         NEW failed \in BOOLEAN
  PROVE  CallSame(s, OldStream!VDEC_CLOSE(c, s, failed))
<1>. DEFINE closed(t) == [OldStream!CloseCommand(t, failed) EXCEPT !.i.opened = FALSE]
            freed(t) == OldStream!vpu_env_close(
                          OldStream!free_virtual_addr(t, OldStream!AllMapped))
            most == OldStream!free_virtual_addr(s, {"stream", "frame"})
            sent == OldStream!CloseCommand(most, failed)
            r == OldStream!VDEC_CLOSE(c, s, failed)
<1>1. r \in {closed(s), s, freed(closed(s)), freed(s), sent, OldStream!vpu_env_close(sent)}
  BY DEF OldStream!VDEC_CLOSE, OldStream!vdec_vpu_CLOSE, OldStream!vdec_hevc_CLOSE,
         OldStream!vdec_vpu_4k_d2_CLOSE, OldStream!vdec_mjpeg_jpu_CLOSE
<1>2. CallSame(s, s)
  BY SetStreamSame DEF CallSame, OnStream
<1>3. ASSUME NEW t, CallSame(s, t)
      PROVE  CallSame(s, freed(t))
  <2>1. CallSame(t, OldStream!free_virtual_addr(t, OldStream!AllMapped))
    BY <1>3, CallSameOn, StreamFree
  <2>2. CallSame(s, OldStream!free_virtual_addr(t, OldStream!AllMapped))
    BY <1>3, <2>1, CallSameTwice
  <2>3. CallSame(OldStream!free_virtual_addr(t, OldStream!AllMapped), freed(t))
    BY <2>2, CallSameOn, StreamEnvClose
  <2>. QED  BY <2>2, <2>3, CallSameTwice
<1>4. CallSame(s, closed(s))
  BY StreamUnopen
<1>5. CallSame(s, most)
  BY StreamFree
<1>. HIDE DEF most
<1>6. CallSame(s, sent)
  BY <1>5, StreamCloseCommand, CallSameOn, CallSameTwice
<1>. HIDE DEF sent
<1>7. CallSame(s, OldStream!vpu_env_close(sent))
  BY <1>6, StreamEnvClose, CallSameOn, CallSameTwice
<1>. HIDE DEF closed, freed, r
<1>8. CallSame(s, r)
  BY <1>1, <1>2, <1>3, <1>4, <1>6, <1>7
<1>. QED  BY <1>8 DEF r

(* The sequence header: its picture is at the start of the buffer, and one *)
(* that was accepted has its frames.                                       *)
LEMMA StreamHeader ==
  ASSUME NEW s, OnStream(s), NEW c \in {"vpu", "hevc", "4kd2", "mjpeg"}, InstanceOK(c, s.i),
         NEW p \in Int, NEW extra, NEW room, NEW failed \in BOOLEAN, NEW n, NEW how,
         NEW unregistered \in BOOLEAN,
         NEW r, r = OldStream!Header(c, s, p, extra, room, failed, n, how, unregistered)
  PROVE  InstanceOK(c, r.i) /\ r.i.stream[1] = p
<1>. DEFINE x == [s EXCEPT !.i.extra = extra]
            y == OldStream!HeaderCopied(c, x, p)
            g == OldStream!Command(y)
            fb == OldStream!FrameBuffers(c, g, room)
            z == [g EXCEPT !.i.extra = fb.extra]
            m == OldStream!malloc_dual_addr(z, OldStream!HeaderBuffers(c), n, how)
            e == OldStream!Command(m)
            w == [e EXCEPT !.i.frames = OldStream!Frames(g, room), !.i.seq = TRUE]
<1>1. r \in {g, z, m, e} \/ (r = w /\ fb.enough)
  BY DEF OldStream!Header
<1>2. CallSame(s, x)
  <2>1. x = [s EXCEPT !.i = [s.i EXCEPT !.extra = extra]]
    BY DEF OnStream, IsState
  <2>2. SameStream([s.i EXCEPT !.extra = extra], s.i)
    BY SetStreamSame DEF OnStream
  <2>. QED  BY <2>1, <2>2, SetInstance
<1>. DEFINE q == [x.i.stream EXCEPT ![1] = p]
            j == [x.i EXCEPT !.stream = q]
<1>3. y = [x EXCEPT !.i.stream[1] = p]
  BY DEF OldStream!HeaderCopied, OldStream!vdec_vpu_SEQ_HEADER, OldStream!vdec_hevc_SEQ_HEADER,
         OldStream!vdec_vpu_4k_d2_SEQ_HEADER, OldStream!vdec_mjpeg_jpu_SEQ_HEADER
<1>. HIDE DEF x
<1>4. InstanceOK(c, x.i) /\ OnStream(x)
  BY <1>2, SameStreamOK, CallSameOn DEF CallSame
<1>5. q \in Seq(Int) /\ Len(q) = 2 /\ q[1] = p
  <2>1. x.i.stream \in Seq(Int) /\ 1 \in 1..Len(x.i.stream) /\ Len(x.i.stream) = 2
    BY <1>4 DEF InstanceOK
  <2>. QED  BY <2>1, ExceptSeq
<1>. HIDE DEF y
<1>6. y = [h |-> x.h, i |-> j, d |-> x.d, m |-> x.m, stray |-> x.stray]
  <2>. HIDE DEF q
  <2>1. [x EXCEPT !.i.stream = q] = [h |-> x.h, i |-> j, d |-> x.d, m |-> x.m, stray |-> x.stray]
    BY <1>4 DEF OnStream, IsState
  <2>2. [x EXCEPT !.i.stream[1] = p] = [x EXCEPT !.i.stream = q]
    BY <1>4 DEF OnStream, IsState, q
  <2>. QED  BY <1>3, <2>1, <2>2
<1>. HIDE DEF q
<1>7. IsInstance(j) /\ j.stream = q /\ j.frames = x.i.frames /\ j.half = x.i.half
      /\ (HasSeq(j) => HasSeq(x.i))
  BY <1>4 DEF OnStream, IsInstance, HasSeq
<1>. HIDE DEF j
<1>8. InstanceOK(c, j)
  BY <1>4, <1>5, <1>7 DEF InstanceOK
<1>9. y.i = j /\ OnStream(y)
  BY <1>6, <1>7 DEF OnStream, IsState
<1>10. CallSame(y, g) /\ OnStream(g)
  BY <1>9, StreamCommand, CallSameOn
<1>11. InstanceOK(c, g.i) /\ g.i.stream[1] = p
  <2>. HIDE DEF g
  <2>. QED  BY <1>5, <1>7, <1>8, <1>9, <1>10, SameStreamOK DEF CallSame
<1>12. c # "4kd2" /\ fb.enough => OldStream!Frames(g, room) >= OldStreamSetup.minFrames
  BY DEF OldStream!FrameBuffers, OldStream!vpu_dec_seq_header, OldStream!hevc_dec_seq_header,
         OldStream!jpu_dec_seq_header
<1>. DEFINE fx == fb.extra
            fr == OldStream!Frames(g, room)
            fe == fb.enough
<1>13. z = [g EXCEPT !.i.extra = fx] /\ (c # "4kd2" /\ fe => fr >= OldStreamSetup.minFrames)
       /\ w = [e EXCEPT !.i.frames = fr, !.i.seq = TRUE]
       /\ (r \in {g, z, m, e} \/ (r = w /\ fe))
  BY <1>1, <1>12
<1>. HIDE DEF fx, fr, fe, fb, w, z, g
<1>14. CallSame(g, z)
  <2>1. z = [g EXCEPT !.i = [g.i EXCEPT !.extra = fx]]
    BY <1>10, <1>13 DEF OnStream, IsState
  <2>2. SameStream([g.i EXCEPT !.extra = fx], g.i)
    BY <1>10, SetStreamSame DEF OnStream
  <2>. QED  BY <1>10, <2>1, <2>2, SetInstance
<1>15. CallSame(g, m)
  BY <1>14, StreamMalloc, CallSameOn, CallSameTwice
<1>. HIDE DEF m
<1>16. CallSame(g, e)
  BY <1>15, StreamCommand, CallSameOn, CallSameTwice
<1>. HIDE DEF e
<1>17. \A t \in {g, z, m, e} : InstanceOK(c, t.i) /\ t.i.stream[1] = p
  BY <1>11, <1>14, <1>15, <1>16, SameStreamOK DEF CallSame
<1>18. ASSUME r = w, fe
       PROVE  InstanceOK(c, w.i) /\ w.i.stream[1] = p
  <2>. DEFINE a == [e.i EXCEPT !.frames = fr]
              on == TRUE
              b == [a EXCEPT !.seq = on]
  <2>1. IsState(e) /\ IsInstance(e.i)
    BY <1>16, CallSameOn DEF OnStream
  <2>2. w = [e EXCEPT !.i = b]
    BY <1>13, <2>1 DEF IsState, IsInstance
  <2>3. IsInstance(a) /\ a.frames = fr /\ a.stream = e.i.stream /\ a.half = e.i.half
    BY <2>1 DEF IsInstance
  <2>. HIDE DEF a, on
  <2>4. IsInstance(b) /\ b.frames = fr /\ b.stream = e.i.stream /\ b.half = e.i.half
    BY <2>3 DEF IsInstance
  <2>. HIDE DEF b
  <2>5. w.i = b
    BY <2>1, <2>2 DEF IsState
  <2>6. c # "4kd2" => fr >= OldStreamSetup.minFrames
    BY <1>13, <1>18
  <2>7. InstanceOK(c, e.i) /\ e.i.stream[1] = p
    BY <1>17
  <2>. QED  BY <2>4, <2>5, <2>6, <2>7 DEF InstanceOK
<1>. QED  BY <1>13, <1>17, <1>18

(* A call of one handle.                                                   *)
LEMMA StreamSets ==
  /\ OldStreamSetup.codecs \subseteq {"vpu", "hevc", "4kd2", "mjpeg"}
  /\ OldStreamSetup.pictures \subseteq Int
BY OldStreamAssumption DEF OldStream!OldVdecConstants

LEMMA StreamCall ==
  ASSUME DecodeInv, NEW h \in OldStreamSetup.handles,
         NEW call \in StreamCalls, o_calls' = [o_calls EXCEPT ![h] = call],
         NEW c \in OldStreamSetup.codecs, o_codec' = [o_codec EXCEPT ![h] = c],
         NEW i, inst' = [inst EXCEPT ![h] = i],
         NEW l \in DecodeSet, o_last' = [o_last EXCEPT ![h] = l],
         StreamOf(call, c, i, l)
  PROVE  DecodeInv'
<1>1. /\ o_calls' \in [OldStreamSetup.handles -> StreamCalls]
      /\ o_codec' \in [OldStreamSetup.handles -> OldStreamSetup.codecs]
      /\ o_last' \in [OldStreamSetup.handles -> DecodeSet]
  BY DEF DecodeInv
<1>2. inst' = [g \in OldStreamSetup.handles |-> inst'[g]]
  BY DEF DecodeInv
<1>3. o_calls'[h] = call /\ o_codec'[h] = c /\ inst'[h] = i /\ o_last'[h] = l
  BY DEF DecodeInv
<1>4. \A g \in OldStreamSetup.handles : g # h =>
        o_calls'[g] = o_calls[g] /\ o_codec'[g] = o_codec[g] /\ inst'[g] = inst[g]
        /\ o_last'[g] = o_last[g]
  BY DEF DecodeInv
<1>5. \A g \in OldStreamSetup.handles :
        StreamOf(o_calls'[g], o_codec'[g], inst'[g], o_last'[g])
  BY <1>3, <1>4 DEF DecodeInv
<1>. QED  BY <1>1, <1>2, <1>5 DEF DecodeInv

LEMMA NoDecodeOK ==
  /\ OldStream!NoDecode \in DecodeSet /\ OldStream!NoDecode.previous = 0
  /\ IsKept(OldStream!NoDecode)
<1>1. OldStream!NoDecode \in DecodeSet /\ OldStream!NoDecode.previous = 0
  BY DEF DecodeSet, OldStream!NoDecode
<1>2. IsKept(OldStream!NoDecode)
  BY Zenon DEF IsKept, OldStream!NoDecode
<1>. QED  BY <1>1, <1>2

(* A handle that has decoded nothing.                                      *)
LEMMA StreamOfNone ==
  ASSUME NEW call \in {"created", "failed", "deinited", "working"}, NEW c,
         NEW i, i = OldStream!NoInstance \/ InstanceOK(c, i),
         call = "working" => i # OldStream!NoInstance,
         call \in {"created", "deinited"} => i = OldStream!NoInstance
  PROVE  StreamOf(call, c, i, OldStream!NoDecode)
BY NoDecodeOK DEF StreamOf

LEMMA StreamState ==
  ASSUME NEW h, NEW i, IsInstance(i), NEW s, s = OldStream!State(h, i)
  PROVE  OnStream(s) /\ s.i = i
BY DEF OldStream!State, OnStream, IsState

LEMMA InstanceIsOne ==
  ASSUME NEW c, NEW i, InstanceOK(c, i)
  PROVE  i # OldStream!NoInstance
<1>1. i.half \in {0, 1} /\ IsInstance(i)
  BY DEF InstanceOK
<1>2. "half" \in DOMAIN i
  BY <1>1 DEF IsInstance
<1>. QED  BY <1>2 DEF OldStream!NoInstance

LEMMA ZeroedOK ==
  ASSUME NEW k, NEW c
  PROVE  InstanceOK(c, OldStream!Zeroed(k))
<1>. DEFINE i == OldStream!Zeroed(k)
<1>1. i.half = 0 /\ i.stream = <<0, 0>> /\ IsInstance(i)
  BY DEF OldStream!Zeroed, IsInstance
<1>2. ~HasSeq(i)
  BY Zenon DEF OldStream!Zeroed, HasSeq
<1>3. <<0, 0>> \in Seq(Int) /\ Len(<<0, 0>>) = 2
  OBVIOUS
<1>. QED  BY <1>1, <1>2, <1>3 DEF InstanceOK

LEMMA StreamCodec ==
  ASSUME DecodeInv, NEW h \in OldStreamSetup.handles
  PROVE  /\ o_codec[h] \in {"vpu", "hevc", "4kd2", "mjpeg"}
         /\ o_codec[h] \in OldStreamSetup.codecs
         /\ o_codec = [o_codec EXCEPT ![h] = o_codec[h]]
         /\ StreamOf(o_calls[h], o_codec[h], inst[h], o_last[h])
         /\ o_last[h] \in DecodeSet
BY StreamSets DEF DecodeInv

LEMMA StreamMayFail ==
  ASSUME NEW f
  PROVE  OldStream!MayFail(f) \subseteq BOOLEAN
BY DEF OldStream!MayFail

LEMMA StreamInitWith ==
  ASSUME DecodeInv, NEW h \in OldStreamSetup.handles, NEW instance,
         InstanceOK(o_codec[h], instance), OldStream!InitWith(h, instance)
  PROVE  \E call \in {"working", "failed"} : \E i :
           /\ o_calls' = [o_calls EXCEPT ![h] = call] /\ inst' = [inst EXCEPT ![h] = i]
           /\ InstanceOK(o_codec[h], i)
<1>. DEFINE c == o_codec[h]
            b == OldStream!State(h, instance)
<1>1. /\ c \in {"vpu", "hevc", "4kd2", "mjpeg"} /\ OnStream(b) /\ b.i = instance
      /\ InstanceOK(c, b.i)
  BY StreamCodec, StreamState DEF InstanceOK
<1>2. PICK n \in (IF "alloc" \in OldStreamSetup.faults
                  THEN 0..Len(OldStream!Ready(c)) ELSE {Len(OldStream!Ready(c))}),
           how \in {"pa", "va"}, refused \in OldStream!MayFail("init"),
           unclosed \in OldStream!MayFail("close") :
        LET done == OldStream!VDEC_INIT(c, b, n, how, refused)
            ok == n = Len(OldStream!Ready(c)) /\ ~refused
        IN /\ OldStream!Store(h, IF ok THEN done ELSE OldStream!VDEC_CLOSE(c, done, unclosed))
           /\ o_calls' = [o_calls EXCEPT ![h] = IF ok THEN "working" ELSE "failed"]
  BY Zenon DEF OldStream!InitWith
<1>. DEFINE done == OldStream!VDEC_INIT(c, b, n, how, refused)
            close == OldStream!VDEC_CLOSE(c, done, unclosed)
            call == IF n = Len(OldStream!Ready(c)) /\ ~refused THEN "working" ELSE "failed"
            s == IF n = Len(OldStream!Ready(c)) /\ ~refused THEN done ELSE close
<1>3. OldStream!Store(h, s) /\ o_calls' = [o_calls EXCEPT ![h] = call]
  BY <1>2
<1>4. call \in {"working", "failed"} /\ s \in {done, close}
  OBVIOUS
<1>5. refused \in BOOLEAN /\ unclosed \in BOOLEAN
  BY StreamMayFail
<1>. HIDE DEF call, s, b, c
<1>6. CallSame(b, done)
  BY <1>1, <1>5, StreamInit
<1>. HIDE DEF done
<1>7. CallSame(b, close)
  BY <1>1, <1>5, <1>6, StreamClose, CallSameOn, CallSameTwice
<1>. HIDE DEF close
<1>8. InstanceOK(c, s.i)
  BY <1>1, <1>4, <1>6, <1>7, SameStreamOK DEF CallSame
<1>9. inst' = [inst EXCEPT ![h] = s.i]
  BY <1>3 DEF OldStream!Store
<1>. QED  BY <1>3, <1>4, <1>8, <1>9 DEF c

LEMMA StreamInitStep ==
  ASSUME DecodeInv, NEW h \in OldStreamSetup.handles, OldStream!VideoDecoder_Init(h)
  PROVE  DecodeInv'
<1>1. /\ UNCHANGED o_codec
      /\ o_last' = [o_last EXCEPT ![h] = OldStream!NoDecode]
  BY DEF OldStream!VideoDecoder_Init
<1>2. \E call \in {"working", "failed"} : \E i :
        /\ o_calls' = [o_calls EXCEPT ![h] = call] /\ inst' = [inst EXCEPT ![h] = i]
        /\ i = OldStream!NoInstance \/ InstanceOK(o_codec[h], i)
        /\ call = "working" => i # OldStream!NoInstance
  <2>1. ASSUME NEW i, InstanceOK(o_codec[h], i)
        PROVE  i # OldStream!NoInstance
    BY <2>1, InstanceIsOne
  <2>2. CASE inst[h] # OldStream!NoInstance /\ OldStream!InitWith(h, inst[h])
    <3>1. InstanceOK(o_codec[h], inst[h])
      BY <2>2, StreamCodec DEF StreamOf
    <3>. QED  BY <2>1, <2>2, <3>1, StreamInitWith
  <2>3. CASE \E got \in OldStream!InstanceIndex :
               OldStream!InitWith(h, OldStream!Zeroed(got.index))
    BY <2>1, <2>3, ZeroedOK, StreamInitWith
  <2>4. CASE /\ inst[h] = OldStream!NoInstance /\ UNCHANGED inst
             /\ o_calls' = [o_calls EXCEPT ![h] = "failed"]
    <3>1. inst' = [inst EXCEPT ![h] = OldStream!NoInstance]
      BY <2>4 DEF DecodeInv
    <3>. QED  BY <2>4, <3>1
  <2>. QED  BY <2>2, <2>3, <2>4 DEF OldStream!VideoDecoder_Init
<1>3. PICK call \in {"working", "failed"} : \E i :
        /\ o_calls' = [o_calls EXCEPT ![h] = call] /\ inst' = [inst EXCEPT ![h] = i]
        /\ i = OldStream!NoInstance \/ InstanceOK(o_codec[h], i)
        /\ call = "working" => i # OldStream!NoInstance
  BY <1>2
<1>4. PICK i :
        /\ o_calls' = [o_calls EXCEPT ![h] = call] /\ inst' = [inst EXCEPT ![h] = i]
        /\ i = OldStream!NoInstance \/ InstanceOK(o_codec[h], i)
        /\ call = "working" => i # OldStream!NoInstance
  BY <1>3
<1>5. StreamOf(call, o_codec[h], i, OldStream!NoDecode)
  BY <1>4, StreamOfNone
<1>6. call \in StreamCalls
  BY DEF StreamCalls
<1>7. o_codec[h] \in OldStreamSetup.codecs /\ o_codec' = [o_codec EXCEPT ![h] = o_codec[h]]
  BY <1>1, StreamCodec
<1>. QED  BY <1>1, <1>4, <1>5, <1>6, <1>7, NoDecodeOK, StreamCall

LEMMA StreamHeaderStep ==
  ASSUME DecodeInv, NEW h \in OldStreamSetup.handles,
         OldStream!VideoDecoder_DecodeSequenceHeader(h)
  PROVE  DecodeInv'
<1>. DEFINE c == o_codec[h]
            b == OldStream!State(h, inst[h])
<1>1. o_calls[h] = "working" /\ UNCHANGED o_codec
  BY DEF OldStream!VideoDecoder_DecodeSequenceHeader
<1>2. PICK p \in OldStreamSetup.pictures, extra \in OldStreamSetup.extras,
           room \in 0..OldStreamSetup.avail,
           failed \in OldStream!MayFail("header"), how \in {"pa", "va"},
           unregistered \in OldStream!MayFail("frames"),
           n \in (IF "frames" \in OldStreamSetup.faults THEN 0..2 ELSE {2}) :
        LET s == OldStream!Header(c, b, p, extra, room, failed,
                   OldStream!Least(n, Len(OldStream!HeaderBuffers(c))), how, unregistered)
        IN /\ OldStream!Store(h, s)
           /\ o_calls' = [o_calls EXCEPT
                            ![h] = IF s.i.seq THEN "decoding" ELSE "failed_header"]
           /\ o_last' = [o_last EXCEPT ![h].given = p]
  BY Zenon DEF OldStream!VideoDecoder_DecodeSequenceHeader
<1>. DEFINE m == OldStream!Least(n, Len(OldStream!HeaderBuffers(c)))
            s == OldStream!Header(c, b, p, extra, room, failed, m, how, unregistered)
            call == IF s.i.seq THEN "decoding" ELSE "failed_header"
            l == [o_last[h] EXCEPT !.given = p]
<1>3. OldStream!Store(h, s) /\ o_calls' = [o_calls EXCEPT ![h] = call]
  BY <1>2
<1>4. o_last' = [o_last EXCEPT ![h] = l]
  BY <1>2 DEF DecodeInv
<1>5. call \in {"decoding", "failed_header"}
  OBVIOUS
<1>6. p \in Int /\ failed \in BOOLEAN /\ unregistered \in BOOLEAN
  BY StreamSets, StreamMayFail
<1>7. /\ c \in {"vpu", "hevc", "4kd2", "mjpeg"} /\ c \in OldStreamSetup.codecs
      /\ o_codec' = [o_codec EXCEPT ![h] = c]
      /\ StreamOf("working", c, inst[h], o_last[h]) /\ o_last[h] \in DecodeSet
  BY <1>1, StreamCodec
<1>8. InstanceOK(c, inst[h]) /\ o_last[h].previous = 0 /\ IsKept(o_last[h])
  BY <1>7 DEF StreamOf
<1>9. OnStream(b) /\ b.i = inst[h]
  BY <1>8, StreamState DEF InstanceOK
<1>10. /\ b = OldStream!State(h, inst[h])
       /\ s = OldStream!Header(c, b, p, extra, room, failed, m, how, unregistered)
  OBVIOUS
<1>. HIDE DEF s, b, c, m, call
<1>11. InstanceOK(c, s.i) /\ s.i.stream[1] = p
  BY <1>6, <1>7, <1>8, <1>9, <1>10, StreamHeader
<1>12. l \in DecodeSet /\ l.given = p /\ l.previous = 0
  BY <1>6, <1>7, <1>8 DEF DecodeSet
<1>13. IsKept(l)
  <2>1. l.kept = o_last[h].kept
    BY <1>7 DEF DecodeSet
  <2>. QED  BY <1>8, <2>1, Zenon DEF IsKept
<1>. HIDE DEF l
<1>14. StreamOf(call, c, s.i, l)
  BY <1>5, <1>11, <1>12, <1>13, InstanceIsOne DEF StreamOf
<1>15. inst' = [inst EXCEPT ![h] = s.i] /\ call \in StreamCalls
  BY <1>3, <1>5 DEF OldStream!Store, StreamCalls
<1>. QED  BY <1>3, <1>4, <1>7, <1>12, <1>14, <1>15, StreamCall

(* What is written into one half of the bitstream buffer leaves the other. *)
LEMMA PutHalf ==
  ASSUME NEW s \in Seq(Int), Len(s) = 2, NEW n \in {1, 2}, NEW p \in Int
  PROVE  LET q == [s EXCEPT ![n] = p]
         IN /\ q \in Seq(Int) /\ Len(q) = 2 /\ q[n] = p
            /\ \A k \in {1, 2} : k # n => q[k] = s[k]
<1>. n \in 1..Len(s)
  OBVIOUS
<1>. QED  BY ExceptSeq

LEMMA StreamDecodeStep ==
  ASSUME DecodeInv, NEW h \in OldStreamSetup.handles, OldStream!VideoDecoder_Decode(h)
  PROVE  DecodeInv'
<1>. DEFINE c == o_codec[h]
            b == OldStream!State(h, inst[h])
            i == inst[h]
            e == o_last[h]
<1>1. /\ o_calls[h] \in {"decoding", "decoded"} /\ UNCHANGED o_codec
      /\ o_calls' = [o_calls EXCEPT ![h] = "decoded"]
  BY DEF OldStream!VideoDecoder_Decode
<1>2. PICK p \in OldStreamSetup.pictures,
           result \in {"success", "full"}
                       \cup (IF "decode" \in OldStreamSetup.faults THEN {"error"} ELSE {}) :
        LET step == OldStream!DecodeStep(c, i, p, result)
            data == IF step.to = 0 THEN i.stream ELSE [i.stream EXCEPT ![step.to] = p]
        IN /\ o_calls[h] = "decoding" => p = e.given
           /\ OldStream!Store(h, [OldStream!Command(b) EXCEPT !.i.stream = data,
                                    !.i.half = step.half, !.i.first = FALSE])
           /\ o_last' = [o_last EXCEPT ![h] =
                [given |-> p, read |-> data[step.from],
                 previous |-> IF result = "success" THEN step.from ELSE 0,
                 kept |-> e.previous = 0 \/ data[e.previous] = i.stream[e.previous]]]
  BY DEF OldStream!VideoDecoder_Decode
<1>. DEFINE step == OldStream!DecodeStep(c, i, p, result)
            q == IF step.to = 0 THEN i.stream ELSE [i.stream EXCEPT ![step.to] = p]
            t == OldStream!Command(b)
            s == [t EXCEPT !.i.stream = q, !.i.half = step.half, !.i.first = FALSE]
            prev == IF result = "success" THEN step.from ELSE 0
            kept == (e.previous = 0 \/ q[e.previous] = i.stream[e.previous])
            l == [given |-> p, read |-> q[step.from], previous |-> prev, kept |-> kept]
<1>3. /\ o_calls[h] = "decoding" => p = e.given
      /\ OldStream!Store(h, s)
      /\ o_last' = [o_last EXCEPT ![h] = l]
  BY <1>2
<1>4. p \in Int
  BY StreamSets
<1>5. /\ c \in {"vpu", "hevc", "4kd2", "mjpeg"} /\ c \in OldStreamSetup.codecs
      /\ o_codec' = [o_codec EXCEPT ![h] = c]
      /\ StreamOf(o_calls[h], c, i, e) /\ e \in DecodeSet
  BY <1>1, StreamCodec
<1>6. InstanceOK(c, i)
  BY <1>1, <1>5 DEF StreamOf
<1>7. OnStream(b) /\ b.i = i
  BY <1>6, StreamState DEF InstanceOK
<1>. HIDE DEF b
<1>8. CallSame(b, t) /\ t.i = b.i /\ IsState(t)
  BY <1>7, StreamCommand DEF CallSame
<1>9. i.stream \in Seq(Int) /\ Len(i.stream) = 2 /\ i.half \in {0, 1} /\ IsInstance(i)
  BY <1>6 DEF InstanceOK
<1>. HIDE DEF t, s, prev, kept, l, q
<1>10. /\ step.from \in {1, 2} /\ step.to \in {0, 1, 2} /\ step.half \in {0, 1}
       /\ c \in {"hevc", "4kd2"} => step.to = i.half + 1 /\ step.from = i.half + 1
       /\ c \in {"hevc", "4kd2"} /\ result = "success" => step.half = 1 - i.half
       /\ step.to # 0 => step.from = step.to
  BY <1>5, <1>9
  DEF OldStream!DecodeStep, OldStream!vdec_vpu_DECODE, OldStream!vdec_hevc_DECODE,
      OldStream!vdec_vpu_4k_d2_DECODE, OldStream!vdec_mjpeg_jpu_DECODE
<1>11. step.to = 0 => c = "mjpeg" /\ step.from = 1 /\ o_calls[h] = "decoding"
  <2>1. step.to = 0 => c = "mjpeg" /\ step.from = 1 /\ IsFirst(i)
    BY <1>5, <1>9
    DEF OldStream!DecodeStep, OldStream!vdec_vpu_DECODE, OldStream!vdec_hevc_DECODE,
        OldStream!vdec_vpu_4k_d2_DECODE, OldStream!vdec_mjpeg_jpu_DECODE, IsFirst
  <2>2. o_calls[h] = "decoded" => ~IsFirst(i)
    BY <1>5 DEF StreamOf
  <2>. QED  BY <1>1, <2>1, <2>2
<1>12. o_calls[h] = "decoding" => i.stream[1] = e.given
  BY <1>5 DEF StreamOf
<1>. DEFINE to == step.to
            from == step.from
            half == step.half
<1>13. q = IF to = 0 THEN i.stream ELSE [i.stream EXCEPT ![to] = p]
  BY DEF q
<1>14. /\ s = [t EXCEPT !.i.stream = q, !.i.half = half, !.i.first = FALSE]
       /\ prev = IF result = "success" THEN from ELSE 0
       /\ l = [given |-> p, read |-> q[from], previous |-> prev, kept |-> kept]
  BY DEF s, prev, l
<1>15. /\ from \in {1, 2} /\ to \in {0, 1, 2} /\ half \in {0, 1}
       /\ c \in {"hevc", "4kd2"} => to = i.half + 1 /\ from = i.half + 1
       /\ c \in {"hevc", "4kd2"} /\ result = "success" => half = 1 - i.half
       /\ to # 0 => from = to
       /\ to = 0 => c = "mjpeg" /\ from = 1 /\ o_calls[h] = "decoding"
  BY <1>10, <1>11
<1>. HIDE DEF to, from, half, step
<1>16. q \in Seq(Int) /\ Len(q) = 2 /\ q[from] = p
       /\ \A n \in {1, 2} : n # to => q[n] = i.stream[n]
  <2>1. CASE to = 0
    BY <1>3, <1>9, <1>12, <1>13, <1>15, <2>1
  <2>2. CASE to # 0
    <3>. DEFINE x == i.stream
    <3>1. x \in Seq(Int) /\ Len(x) = 2 /\ to \in {1, 2} /\ q = [x EXCEPT ![to] = p]
      BY <1>9, <1>13, <1>15, <2>2
    <3>. HIDE DEF x
    <3>2. LET y == [x EXCEPT ![to] = p]
          IN /\ y \in Seq(Int) /\ Len(y) = 2 /\ y[to] = p
             /\ \A k \in {1, 2} : k # to => y[k] = x[k]
      BY <1>4, <3>1, PutHalf
    <3>3. /\ q \in Seq(Int) /\ Len(q) = 2 /\ q[to] = p
          /\ \A k \in {1, 2} : k # to => q[k] = x[k]
      BY <3>1, <3>2, Zenon
    <3>4. \A k \in {1, 2} : k # to => q[k] = i.stream[k]
      BY <3>3 DEF x
    <3>. QED  BY <1>15, <2>2, <3>3, <3>4
  <2>. QED  BY <2>1, <2>2
<1>17. prev \in {0, 1, 2} /\ (c \in {"hevc", "4kd2"} => prev # half + 1)
  BY <1>9, <1>14, <1>15
<1>18. c \in {"hevc", "4kd2"} => kept
  <2>1. ASSUME c \in {"hevc", "4kd2"}
        PROVE  e.previous = 0 \/ q[e.previous] = i.stream[e.previous]
    <3>1. e.previous \in {0, 1, 2}
      BY <1>5 DEF DecodeSet
    <3>2. CASE o_calls[h] = "decoded"
      <4>1. e.previous # i.half + 1
        BY <1>5, <2>1, <3>2 DEF StreamOf
      <4>. QED  BY <1>15, <1>16, <2>1, <3>1, <4>1
    <3>3. CASE o_calls[h] = "decoding"
      BY <1>5, <3>3 DEF StreamOf
    <3>. QED  BY <1>1, <3>2, <3>3
  <2>. QED  BY <2>1 DEF kept
<1>19. /\ l \in DecodeSet /\ l.given = p /\ l.read = p /\ l.previous = prev
  <2>1. kept \in BOOLEAN
    BY DEF kept
  <2>. QED  BY <1>4, <1>14, <1>16, <1>17, <2>1 DEF DecodeSet
<1>20. c \in {"hevc", "4kd2"} => IsKept(l)
  <2>1. l.kept = kept
    BY <1>14
  <2>. QED  BY <1>18, <2>1, Zenon DEF IsKept
<1>. DEFINE off == FALSE
            a == [i EXCEPT !.stream = q]
            d == [a EXCEPT !.half = half]
            f == [d EXCEPT !.first = off]
<1>21. s.i = f
  <2>1. s = [t EXCEPT !.i = f]
    BY <1>7, <1>8, <1>9, <1>14 DEF IsState, IsInstance
  <2>. HIDE DEF f
  <2>. QED  BY <1>8, <2>1 DEF IsState
<1>22. IsInstance(a) /\ a.stream = q /\ a.frames = i.frames /\ (HasSeq(a) => HasSeq(i))
  BY <1>9 DEF IsInstance, HasSeq
<1>. HIDE DEF a
<1>23. /\ IsInstance(d) /\ d.stream = q /\ d.frames = i.frames /\ d.half = half
       /\ (HasSeq(d) => HasSeq(i))
  BY <1>22 DEF IsInstance, HasSeq
<1>24. ~off
  OBVIOUS
<1>. HIDE DEF d, off
<1>25. /\ IsInstance(f) /\ f.stream = q /\ f.frames = i.frames /\ f.half = half
       /\ (HasSeq(f) => HasSeq(i))
  BY <1>23 DEF IsInstance, HasSeq
<1>26. ~IsFirst(f)
  <2>1. f.first = off
    BY <1>23 DEF IsInstance
  <2>. QED  BY <1>24, <2>1, Zenon DEF IsFirst
<1>. HIDE DEF f
<1>27. InstanceOK(c, f)
  BY <1>6, <1>15, <1>16, <1>25 DEF InstanceOK
<1>28. StreamOf("decoded", c, f, l)
  BY <1>17, <1>19, <1>20, <1>25, <1>26, <1>27, InstanceIsOne DEF StreamOf
<1>29. inst' = [inst EXCEPT ![h] = f] /\ "decoded" \in StreamCalls
  BY <1>3, <1>21 DEF OldStream!Store, StreamCalls
<1>. QED  BY <1>1, <1>3, <1>5, <1>19, <1>28, <1>29, StreamCall

LEMMA StreamDeinitStep ==
  ASSUME DecodeInv, NEW h \in OldStreamSetup.handles, OldStream!VideoDecoder_Deinit(h)
  PROVE  DecodeInv'
<1>1. /\ UNCHANGED o_codec /\ o_calls' = [o_calls EXCEPT ![h] = "deinited"]
      /\ o_last' = [o_last EXCEPT ![h] = OldStream!NoDecode]
  BY DEF OldStream!VideoDecoder_Deinit
<1>2. inst' = [inst EXCEPT ![h] = OldStream!NoInstance]
  <2>1. CASE inst[h] = OldStream!NoInstance /\ UNCHANGED inst
    BY <2>1 DEF DecodeInv
  <2>2. CASE OldStream!vdec_release_instance(h)
    BY <2>2 DEF OldStream!vdec_release_instance
  <2>. QED  BY <2>1, <2>2 DEF OldStream!VideoDecoder_Deinit
<1>3. o_codec[h] \in OldStreamSetup.codecs /\ o_codec' = [o_codec EXCEPT ![h] = o_codec[h]]
  BY <1>1, StreamCodec
<1>4. StreamOf("deinited", o_codec[h], OldStream!NoInstance, OldStream!NoDecode)
  BY StreamOfNone
<1>5. "deinited" \in StreamCalls
  BY DEF StreamCalls
<1>. QED  BY <1>1, <1>2, <1>3, <1>4, <1>5, NoDecodeOK, StreamCall

LEMMA StreamCreateStep ==
  ASSUME DecodeInv, NEW h \in OldStreamSetup.handles, OldStream!VideoDecoder_Create(h)
  PROVE  DecodeInv'
<1>1. /\ o_calls[h] = "deinited" /\ o_calls' = [o_calls EXCEPT ![h] = "created"]
      /\ UNCHANGED <<inst, o_last>>
  BY DEF OldStream!VideoDecoder_Create
<1>2. PICK c \in OldStreamSetup.codecs : o_codec' = [o_codec EXCEPT ![h] = c]
  BY DEF OldStream!VideoDecoder_Create
<1>3. StreamOf("deinited", o_codec[h], inst[h], o_last[h]) /\ o_last[h] \in DecodeSet
  BY <1>1, StreamCodec
<1>4. StreamOf("created", c, inst[h], o_last[h])
  BY <1>3 DEF StreamOf
<1>5. inst' = [inst EXCEPT ![h] = inst[h]] /\ o_last' = [o_last EXCEPT ![h] = o_last[h]]
  BY <1>1 DEF DecodeInv
<1>6. "created" \in StreamCalls
  BY DEF StreamCalls
<1>. QED  BY <1>1, <1>2, <1>3, <1>4, <1>5, <1>6, StreamCall

LEMMA StreamInitInv ==
  ASSUME OldStream!Init
  PROVE  DecodeInv
<1>1. /\ o_calls = [h \in OldStreamSetup.handles |-> "created"]
      /\ o_codec \in [OldStreamSetup.handles -> OldStreamSetup.codecs]
      /\ inst = [h \in OldStreamSetup.handles |-> OldStream!NoInstance]
      /\ o_last = [h \in OldStreamSetup.handles |-> OldStream!NoDecode]
  BY DEF OldStream!Init
<1>2. /\ o_calls \in [OldStreamSetup.handles -> StreamCalls]
      /\ o_last \in [OldStreamSetup.handles -> DecodeSet]
  BY <1>1, NoDecodeOK DEF StreamCalls
<1>3. \A h \in OldStreamSetup.handles :
        StreamOf("created", o_codec[h], OldStream!NoInstance, OldStream!NoDecode)
  BY StreamOfNone
<1>4. inst = [h \in OldStreamSetup.handles |-> inst[h]]
  BY <1>1
<1>. QED  BY <1>1, <1>2, <1>3, <1>4 DEF DecodeInv

LEMMA StreamStep ==
  ASSUME DecodeInv, OldStream!Next
  PROVE  DecodeInv'
<1>1. ASSUME OldStream!OtherProcess
      PROVE  DecodeInv'
  BY <1>1 DEF OldStream!OtherProcess, DecodeInv
<1>. QED
  BY <1>1, StreamInitStep, StreamHeaderStep, StreamDecodeStep, StreamDeinitStep,
     StreamCreateStep DEF OldStream!Next

LEMMA StreamImplies ==
  ASSUME DecodeInv
  PROVE  OldStream!EnoughFrames /\ OldStream!DecodesWhatWasGiven /\ OldStream!PreviousKept
<1>1. ASSUME NEW h \in OldStreamSetup.handles
      PROVE  /\ inst[h] # OldStream!NoInstance => InstanceOK(o_codec[h], inst[h])
             /\ o_calls[h] = "decoded" => o_last[h].read = o_last[h].given
             /\ o_codec[h] \in {"hevc", "4kd2"} => IsKept(o_last[h])
  BY StreamCodec DEF StreamOf
<1>2. OldStream!EnoughFrames
  BY <1>1 DEF OldStream!EnoughFrames, OldStream!Live, InstanceOK, HasSeq
<1>3. OldStream!DecodesWhatWasGiven
  BY <1>1 DEF OldStream!DecodesWhatWasGiven
<1>4. OldStream!PreviousKept
  BY <1>1, Zenon DEF OldStream!PreviousKept, IsKept
<1>. QED  BY <1>2, <1>3, <1>4

------------------------------------------------------------------------------
(* The drivers, whose proofs are those of PluginDrivers.                   *)

DriverProofs == INSTANCE PluginDrivers_proofs WITH
  Decoders <- DriversSetup.decoders, Instances <- DriversSetup.instances,
  Descriptors <- DriversSetup.descriptors, Faults <- DriversSetup.faults,
  pc <- d_pc, bInited <- d_inited

DriverFacts == DriverProofs!DriversTypeOK /\ DriverProofs!Recorded

LEMMA DriverFactsStep ==
  /\ DriverProofs!Init => DriverFacts
  /\ DriverFacts /\ [DriverProofs!Next]_(DriverProofs!vars) => DriverFacts'
  /\ DriverFacts => DriverProofs!NoDescriptorLeft
<1>1. /\ DriverProofs!Init => DriverProofs!DriversTypeOK
      /\ DriverProofs!DriversTypeOK /\ [DriverProofs!Next]_(DriverProofs!vars)
           => DriverProofs!DriversTypeOK'
  BY DriverProofs!DriversTypeStep, DriversAssumption
  DEF IsFiniteSet, DriverProofs!IsFiniteSet, Drivers!Devices, DriverProofs!Devices
<1>2. /\ DriverProofs!Init => DriverProofs!Recorded
      /\ DriverProofs!DriversTypeOK /\ DriverProofs!Recorded
           /\ [DriverProofs!Next]_(DriverProofs!vars) => DriverProofs!Recorded'
  BY DriverProofs!RecordedStep, DriversAssumption
  DEF IsFiniteSet, DriverProofs!IsFiniteSet, Drivers!Devices, DriverProofs!Devices
<1>3. DriverProofs!DriversTypeOK /\ DriverProofs!Recorded => DriverProofs!NoDescriptorLeft
  BY DriverProofs!RecordedLeavesNothing, DriversAssumption
  DEF IsFiniteSet, DriverProofs!IsFiniteSet, Drivers!Devices, DriverProofs!Devices
<1>. QED  BY <1>1, <1>2, <1>3 DEF DriverFacts

LEMMA DriversAreOne ==
  /\ Drivers!Init <=> DriverProofs!Init
  /\ Drivers!Next => DriverProofs!Next
  /\ driverVars = DriverProofs!vars
  /\ Drivers!NoDescriptorLeft <=> DriverProofs!NoDescriptorLeft
<1>. USE DEF
        Drivers!Goto, DriverProofs!Goto, Drivers!FreeDescriptors,
        DriverProofs!FreeDescriptors, Drivers!Open, DriverProofs!Open,
        Drivers!OpenFails, DriverProofs!OpenFails, Drivers!Reaches,
        DriverProofs!Reaches, Drivers!Close, DriverProofs!Close, Drivers!PluginInit,
        DriverProofs!PluginInit, Drivers!OpenMgr, DriverProofs!OpenMgr,
        Drivers!GetInstanceIdx, DriverProofs!GetInstanceIdx, Drivers!FreeInstances,
        DriverProofs!FreeInstances, Drivers!GetInstance, DriverProofs!GetInstance,
        Drivers!Ioctl, DriverProofs!Ioctl, Drivers!SetMemAllocMode,
        DriverProofs!SetMemAllocMode, Drivers!OpenVpu, DriverProofs!OpenVpu,
        Drivers!DeviceInitialize, DriverProofs!DeviceInitialize, Drivers!OpenMem,
        DriverProofs!OpenMem, Drivers!PluginDeinit, DriverProofs!PluginDeinit,
        Drivers!ClearInstance, DriverProofs!ClearInstance, Drivers!CloseMgr,
        DriverProofs!CloseMgr, Drivers!CloseVpu, DriverProofs!CloseVpu,
        Drivers!CloseMem, DriverProofs!CloseMem, Drivers!Devices, DriverProofs!Devices,
        Drivers!InstanceIdx, DriverProofs!InstanceIdx, Drivers!Closed,
        DriverProofs!Closed, Drivers!NoInstance, DriverProofs!NoInstance,
        Drivers!NoOwner, DriverProofs!NoOwner, Drivers!Free, DriverProofs!Free,
        Drivers!App, DriverProofs!App
<1>1. Drivers!Init <=> DriverProofs!Init
  BY DEF Drivers!Init, DriverProofs!Init
<1>2. Drivers!Next => DriverProofs!Next
  BY DEF Drivers!Next, DriverProofs!Next, Drivers!vars, DriverProofs!vars
<1>3. driverVars = DriverProofs!vars
  BY DEF driverVars, DriverProofs!vars
<1>4. Drivers!NoDescriptorLeft <=> DriverProofs!NoDescriptorLeft
  BY DEF Drivers!NoDescriptorLeft, DriverProofs!NoDescriptorLeft
<1>. QED  BY <1>1, <1>2, <1>3, <1>4

------------------------------------------------------------------------------
(* The composition: a behaviour keeps to its part.                         *)

LEMMA EncoderOfFailures ==
  /\ FailuresInit => (part = "encoder" => EncInv)
  /\ (part = "encoder" => EncInv) /\ [FailuresNext]_allVars => (part = "encoder" => EncInv)'
<1>1. ASSUME FailuresInit, part = "encoder"
      PROVE  EncInv
  BY <1>1, EncInitInv DEF FailuresInit
<1>2. ASSUME part = "encoder" => EncInv, [FailuresNext]_allVars, part' = "encoder"
      PROVE  EncInv'
  <2>1. CASE UNCHANGED allVars
    <3>1. EncInv /\ UNCHANGED encoderVars
      BY <1>2, <2>1 DEF allVars
    <3>2. EncTypes' /\ EncResource' /\ EncHeap' /\ EncHeader'
      BY <3>1 DEF encoderVars, EncInv, EncTypes, EncResource, EncHeap, EncHeader
    <3>3. EncOpen'
      BY <3>1 DEF encoderVars, EncInv, EncOpen
    <3>4. Encoder!DeinitReleases' /\ Encoder!DestroyFrees' /\ Encoder!CodedIsCurrent'
      BY <3>1 DEF encoderVars, EncInv, Encoder!DeinitReleases, Encoder!DestroyFrees,
                  Encoder!CodedIsCurrent
    <3>5. Encoder!HeaderComplete' /\ Encoder!CopiesIntoRaw'
      BY <3>1 DEF encoderVars, EncInv, Encoder!HeaderComplete, Encoder!CopiesIntoRaw,
                  Encoder!Row, Encoder!Drivers
    <3>. QED  BY <3>2, <3>3, <3>4, <3>5 DEF EncInv
  <2>2. CASE FailuresNext
    <3>1. part = "encoder" /\ Encoder!Next
      BY <1>2, <2>2 DEF FailuresNext, InBuffers, InEncoder, InOld, InDrivers
    <3>. QED  BY <1>2, <3>1, EncStep
  <2>. QED  BY <1>2, <2>1, <2>2
<1>. QED  BY <1>1, <1>2

LEMMA OldOfFailures ==
  ASSUME OldCovered
  PROVE  /\ FailuresInit => (part = "old" => OldInv)
         /\ (part = "old" => OldInv) /\ [FailuresNext]_allVars => (part = "old" => OldInv)'
<1>1. ASSUME FailuresInit, part = "old"
      PROVE  OldInv
  BY <1>1, OldInitInv DEF FailuresInit
<1>2. ASSUME part = "old" => OldInv, [FailuresNext]_allVars, part' = "old"
      PROVE  OldInv'
  <2>1. CASE UNCHANGED allVars
    <3>1. OldInv /\ UNCHANGED oldVars
      BY <1>2, <2>1 DEF allVars
    <3>. QED
      BY <3>1 DEF oldVars, OldInv, OldTypes, OldMemory, OldLife, Old!Live, Old!IndexOwned,
                  Old!NoIndexLost, Old!CommandsInOrder
  <2>2. CASE FailuresNext
    <3>1. part = "old" /\ Old!Next
      BY <1>2, <2>2 DEF FailuresNext, InBuffers, InEncoder, InOld, InDrivers
    <3>. QED  BY <1>2, <3>1, OldStep
  <2>. QED  BY <1>2, <2>1, <2>2
<1>. QED  BY <1>1, <1>2

LEMMA StreamOfFailures ==
  /\ FailuresInit => (part = "old_stream" => DecodeInv)
  /\ (part = "old_stream" => DecodeInv) /\ [FailuresNext]_allVars
       => (part = "old_stream" => DecodeInv)'
<1>1. ASSUME FailuresInit, part = "old_stream"
      PROVE  DecodeInv
  BY <1>1, StreamInitInv DEF FailuresInit
<1>2. ASSUME part = "old_stream" => DecodeInv, [FailuresNext]_allVars, part' = "old_stream"
      PROVE  DecodeInv'
  <2>1. CASE UNCHANGED allVars
    <3>1. DecodeInv /\ UNCHANGED oldVars
      BY <1>2, <2>1 DEF allVars
    <3>. QED  BY <3>1 DEF oldVars, DecodeInv
  <2>2. CASE FailuresNext
    <3>1. part = "old_stream" /\ OldStream!Next
      BY <1>2, <2>2 DEF FailuresNext, InBuffers, InEncoder, InOld, InDrivers
    <3>. QED  BY <1>2, <3>1, StreamStep
  <2>. QED  BY <1>2, <2>1, <2>2
<1>. QED  BY <1>1, <1>2

LEMMA DriversOfFailures ==
  /\ FailuresInit => (part = "drivers" => DriverFacts)
  /\ (part = "drivers" => DriverFacts) /\ [FailuresNext]_allVars
       => (part = "drivers" => DriverFacts)'
<1>1. ASSUME FailuresInit, part = "drivers"
      PROVE  DriverFacts
  BY <1>1, DriversAreOne, DriverFactsStep DEF FailuresInit
<1>2. ASSUME part = "drivers" => DriverFacts, [FailuresNext]_allVars, part' = "drivers"
      PROVE  DriverFacts'
  <2>1. part = "drivers"
    BY <1>2 DEF FailuresNext, InBuffers, InEncoder, InOld, InDrivers, allVars
  <2>2. Drivers!Next \/ UNCHANGED driverVars
    BY <1>2, <2>1 DEF FailuresNext, InBuffers, InEncoder, InOld, InDrivers, allVars
  <2>3. [DriverProofs!Next]_(DriverProofs!vars)
    <3>1. CASE Drivers!Next
      BY <3>1, DriversAreOne
    <3>2. CASE UNCHANGED driverVars
      BY <3>2 DEF driverVars, DriverProofs!vars
    <3>. QED  BY <2>2, <3>1, <3>2
  <2>. QED  BY <1>2, <2>1, <2>3, DriverFactsStep
<1>. QED  BY <1>1, <1>2

(* PictureOfThisCall: an encoder gives out the picture of this call and    *)
(* the complete header, copied into a buffer it fits; a decoder of the old *)
(* library decodes the picture it was given, and a wave decoder keeps the  *)
(* one before; for any codecs, pictures, calls and set of failing steps.   *)
THEOREM PicturesMatched == FailuresSpec => []PictureOfThisCall
<1>1. (part = "encoder" => EncInv) /\ (part = "old_stream" => DecodeInv) => PictureOfThisCall
  BY StreamImplies DEF EncInv, PictureOfThisCall
<1>2. QED
  BY EncoderOfFailures, StreamOfFailures, <1>1, PTL DEF FailuresSpec

(* ClosedLeavesNothing: an encoder, a handle of the old library and a      *)
(* decoder's drivers have given back on closing what they took, whichever  *)
(* steps failed before.                                                    *)
THEOREM NothingLeftBehind ==
  ASSUME OldCovered
  PROVE  FailuresSpec => []ClosedLeavesNothing
<1>1. ASSUME /\ part = "encoder" => EncInv
             /\ part = "old" => OldInv
             /\ part = "drivers" => DriverFacts
      PROVE  ClosedLeavesNothing
  BY <1>1, OldImplies, DriverFactsStep, DriversAreOne DEF EncInv, ClosedLeavesNothing
<1>2. QED
  BY EncoderOfFailures, OldOfFailures, DriversOfFailures, <1>1, PTL DEF FailuresSpec

(* IndicesAccounted: of any number of handles of the old library, and of   *)
(* other processes that take instances, none has another's index, loses    *)
(* one, works without its buffers or sends a command to a closed codec.    *)
THEOREM IndicesKept ==
  ASSUME OldCovered
  PROVE  FailuresSpec => []IndicesAccounted
<1>1. (part = "old" => OldInv) => IndicesAccounted
  BY OldImplies DEF OldInv, IndicesAccounted
<1>2. QED
  BY OldOfFailures, <1>1, PTL DEF FailuresSpec

==============================================================================
