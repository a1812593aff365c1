-------------------------------- MODULE VencV3 ---------------------------------
(***************************************************************************)
(* One instance of the V3 encoder library (venc_v3.c) below the resource   *)
(* wrapper, which initialises an instance once.  The VPU writes the        *)
(* encoded pictures one after the other into one mapped bitstream buffer,  *)
(* which is used from its start again when less than half of it is left;   *)
(* the VPU writes each sequence header to the start of that buffer too,    *)
(* over whatever lies there, and the library collects them in seq_backup.  *)
(*                                                                         *)
(* The driver is external.  A command and its result are one step here: it *)
(* succeeds, fails, or is given up (CommandLoops has the steps of the loop *)
(* that waits for it).  Sizes and offsets are in units of the buffer.      *)
(***************************************************************************)
EXTENDS Integers

CONSTANTS
  BufferSize,     \* of the bitstream buffer
  PictureSizes,   \* of the encoded pictures
  HeaderSizes,    \* of the sequence headers
  LargestHeader,  \* of them
  BackupSize,     \* of seq_backup, 100 KiB
  Gap, Align,     \* 2 * STABILITY_GAP and ALIGN_LEN
  Aud,            \* size of an access unit delimiter
  MaxPictures,    \* pictures of an instance
  MaxHeaders,     \* sequence headers of an instance
  Faults          \* \subseteq {"alloc", "map", "fail"}

VencConstants ==
  /\ BufferSize \in Nat /\ Gap \in Nat /\ Align \in Nat \ {0} /\ Aud \in Nat
  /\ LargestHeader \in Nat /\ BackupSize \in Nat
  /\ PictureSizes \subseteq Nat \ {0} /\ HeaderSizes \subseteq 1..LargestHeader
  /\ \A s \in PictureSizes : s + Aud <= BufferSize \div 2
  /\ MaxPictures \in Nat /\ MaxHeaders \in Nat
  /\ Faults \subseteq {"alloc", "map", "fail"}

VARIABLES
  \* venc_t
  stage,        \* "none", "allocated", "used" (Init was called), "closed"
  codec, slices,    \* codec_id and slice_mode of init_info
  ready,        \* whether Init succeeded
  cur,          \* encoded_buf_cur_pos, from encoded_buf_base_pos
  va,           \* whether bitstream_buf_addr[VENC_VA] holds an address
  backup,       \* whether seq_backup is allocated
  seq_len, seq_header_count, frame_index,
  \* what the last calls gave to the caller
  header,       \* the part of seq_backup, and the size of the header in it
  picture,      \* the part of the bitstream buffer, and what the VPU wrote
  \* the process and its drivers (external)
  write,        \* what the last step wrote of the bitstream buffer, [from, to)
  mapped        \* mappings of the bitstream buffer

vars == <<stage, codec, slices, ready, cur, va, backup, seq_len,
          seq_header_count, frame_index, header, picture, write, mapped>>
settings == <<codec, slices, ready>>
headers == <<backup, seq_len, seq_header_count, header>>
pictures == <<cur, frame_index, picture>>

NoHeader == [off |-> 0, size |-> 0, new |-> 0]
NoPicture == [off |-> 0, size |-> 0, from |-> 0, written |-> 0, aud |-> 0]

Written(from, to) == [from |-> from, to |-> to]
NoWrite == Written(0, 0)

Init ==
  /\ stage = "none" /\ codec = "avc" /\ slices = FALSE /\ ready = FALSE
  /\ va = FALSE /\ cur = 0 /\ backup = FALSE
  /\ seq_len = 0 /\ seq_header_count = 0 /\ frame_index = 0
  /\ header = NoHeader /\ picture = NoPicture
  /\ write = NoWrite /\ mapped = 0

(* How a command can end for its caller: all but success counts as failed. *)
venc_cmd_process == {"SUCCESS"} \cup (IF "fail" \in Faults THEN {"FAILURE"} ELSE {})

------------------------------------------------------------------------------
(* The calls.                                                              *)

venc_alloc_instance ==
  /\ stage = "none"
  /\ \/ stage' = "allocated"
     \/ "alloc" \in Faults /\ UNCHANGED stage
  /\ codec' = "avc" /\ slices' = FALSE /\ ready' = FALSE
  /\ va' = FALSE /\ backup' = FALSE
  /\ cur' = 0 /\ seq_len' = 0 /\ seq_header_count' = 0 /\ frame_index' = 0
  /\ header' = NoHeader /\ picture' = NoPicture /\ write' = NoWrite
  /\ UNCHANGED mapped

venc_get_bitstream_format == [H264 |-> "avc", HEVC |-> "hevc", MJPG |-> "mjpg"]

(* The buffer is cleared as soon as it is mapped.                          *)
venc_init ==
  /\ stage = "allocated"
  /\ stage' = "used"
  /\ \E c \in {"H264", "HEVC", "MJPG"}, mode \in BOOLEAN :
       /\ codec' = venc_get_bitstream_format[c]
       /\ slices' = (codec' = "avc" /\ mode)
  /\ \E ret \in venc_cmd_process, ok \in {TRUE} \cup {"map" \notin Faults} :
       /\ ready' = (ret = "SUCCESS" /\ ok)
       /\ va' = ready'
       /\ mapped' = IF ready' THEN mapped + 1 ELSE mapped
  /\ write' = IF ready' THEN Written(0, BufferSize) ELSE NoWrite
  /\ UNCHANGED <<headers, pictures>>

(* The VPU writes the header to the start of the bitstream buffer, if it   *)
(* fails perhaps as well; from there it is copied behind those before it,  *)
(* whatever room seq_backup has left.  What is given out starts there and  *)
(* has the length of all of them.                                          *)
venc_put_seqheader ==
  /\ ready /\ stage = "used" /\ seq_header_count < MaxHeaders
  /\ backup' = TRUE
  /\ \/ /\ codec = "mjpg"
        /\ header' = [off |-> seq_len, size |-> seq_len, new |-> 0]
        /\ seq_header_count' = seq_header_count + 1
        /\ write' = NoWrite
        /\ UNCHANGED seq_len
     \/ /\ codec # "mjpg"
        /\ \E ret \in venc_cmd_process, size \in HeaderSizes :
             IF ret = "SUCCESS"
             THEN /\ write' = Written(0, size)
                  /\ seq_len' = seq_len + size
                  /\ header' = [off |-> seq_len, size |-> seq_len', new |-> size]
                  /\ seq_header_count' = seq_header_count + 1
             ELSE /\ write' \in {NoWrite, Written(0, size)}
                  /\ UNCHANGED <<seq_len, seq_header_count, header>>
  /\ UNCHANGED <<stage, settings, va, pictures, mapped>>

(* Mutant: as long as anything is left. *)
Place_WhenFull == IF cur >= BufferSize THEN 0 ELSE cur

(* Less than half of the buffer left: from its start again.                *)
Place == IF cur + BufferSize \div 2 > BufferSize THEN 0 ELSE cur

(* An access unit delimiter goes before each picture in slices but the     *)
(* first.                                                                  *)
AudSize == IF slices /\ frame_index > 0 THEN Aud ELSE 0

(* Mutant: rounded down to the alignment. *)
Advance_RoundsDown(size) == (size \div Align) * Align

Advance(size) == ((size + Gap + Align - 1) \div Align) * Align

(* The VPU wrote size behind the delimiter; both are given out.            *)
Encoded(size) ==
  [off |-> Place, size |-> size + AudSize,
   from |-> Place + AudSize, written |-> size, aud |-> AudSize]

(* Before the command all of the buffer from the place on is cleared.      *)
venc_encode ==
  /\ ready /\ stage = "used" /\ frame_index < MaxPictures
  /\ write' = Written(Place, BufferSize)
  /\ \E ret \in venc_cmd_process, size \in PictureSizes :
       IF ret = "SUCCESS"
       THEN /\ picture' = Encoded(size)
            /\ cur' = Place + Advance(picture'.size)
            /\ frame_index' = frame_index + 1
       ELSE /\ cur' = Place
            /\ UNCHANGED <<frame_index, picture>>
  /\ UNCHANGED <<stage, settings, va, headers, mapped>>

(* Whatever the driver answers.                                            *)
venc_close ==
  /\ stage # "none"
  /\ stage' = "closed"
  /\ va' = FALSE /\ mapped' = IF va THEN mapped - 1 ELSE mapped
  /\ backup' = FALSE /\ seq_len' = IF backup THEN 0 ELSE seq_len
  /\ frame_index' = 0 /\ write' = NoWrite
  /\ UNCHANGED <<settings, cur, seq_header_count, header, picture>>

venc_release_instance ==
  /\ stage \in {"allocated", "closed"}
  /\ stage' = "none" /\ write' = NoWrite
  /\ UNCHANGED <<settings, va, headers, pictures, mapped>>

Next == \/ venc_alloc_instance \/ venc_init \/ venc_put_seqheader
        \/ venc_encode \/ venc_close \/ venc_release_instance

Spec == Init /\ [][Next]_vars

------------------------------------------------------------------------------
(* The instance is in a state the library knows.                           *)
VencTypeOK ==
  /\ stage \in {"none", "allocated", "used", "closed"}
  /\ codec \in {"avc", "hevc", "mjpg"} /\ slices \in BOOLEAN /\ ready \in BOOLEAN
  /\ va \in BOOLEAN /\ backup \in BOOLEAN
  /\ cur \in 0..(BufferSize + Gap + Align) /\ frame_index \in 0..MaxPictures
  /\ seq_header_count \in 0..MaxHeaders
  /\ seq_len \in Nat /\ (seq_len > 0 => backup)
  /\ mapped \in Nat
  /\ write \in [from : 0..BufferSize, to : Nat]

(* The VPU never writes past the end of the bitstream buffer, although it  *)
(* is told the size of the whole buffer wherever the picture starts.       *)
VpuInside == picture.from + picture.written <= BufferSize

Overwrites(w, p) == w.from < p.off + p.size /\ p.off < w.to

(* Whatever writes over a picture that was given out begins at the start   *)
(* of the buffer: it is a picture for which the buffer is begun anew, or   *)
(* it is a sequence header, which the library puts there without a look at *)
(* the picture that lies there.  A caller that puts its headers in before  *)
(* its first picture keeps each picture until the buffer is begun anew.    *)
PicturesApart ==
  [][ Overwrites(write', picture) => write'.from = 0 ]_vars

(* What the caller gets is the delimiter, if there is one, and exactly     *)
(* what the VPU wrote.                                                     *)
OutputIsPicture ==
  /\ picture.from = picture.off + picture.aud
  /\ picture.off + picture.size = picture.from + picture.written

(* A sequence header never overwrites the one before it, which the caller  *)
(* got as an address in the same memory.                                   *)
HeadersKept ==
  [][ header' # header /\ seq_len > 0 => header'.off >= header.off + header.new ]_vars

(* As many headers as surely fit into seq_backup stay inside it; the code  *)
(* does not compare, and what further ones write behind it is not          *)
(* modelled.                                                               *)
HeadersInside ==
  seq_header_count * LargestHeader <= BackupSize => seq_len <= BackupSize

(* The mapping of the bitstream buffer goes with its instance: one while   *)
(* it is in use, none when it is closed or was never initialised,          *)
(* whichever command or mapping failed.                                    *)
MappingFollowsInstance ==
  mapped = IF stage = "used" /\ ready THEN 1 ELSE 0

(* The VPU stays inside the buffer, its output is all of the picture, the  *)
(* headers stay in their memory and the mapping follows the instance.      *)
V3AreasKept ==
  VpuInside /\ OutputIsPicture /\ HeadersInside /\ MappingFollowsInstance

(* What overwrites a picture that was given out is a new round through the *)
(* buffer or a sequence header, and nothing overwrites a header.           *)
KeptWhileUsed == PicturesApart /\ HeadersKept

==============================================================================
