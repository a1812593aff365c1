----------------------------- MODULE VencV3_proofs -----------------------------
(***************************************************************************)
(* Proofs about VencV3, for a bitstream buffer of any size, any sizes of   *)
(* pictures that leave room for another one, and any alignment.            *)
(***************************************************************************)
EXTENDS VencV3, TLAPS

------------------------------------------------------------------------------
(* The inductive invariant.                                                *)

PictureType == [off : Nat, size : Nat, from : Nat, written : Nat, aud : Nat]
HeaderType  == [off : Nat, size : Nat, new : Nat]

(* Where the next picture goes is behind the last one, or at the start.    *)
PlaceInv ==
  /\ picture \in PictureType
  /\ cur = 0 \/ cur >= picture.off + picture.size
  /\ VpuInside /\ OutputIsPicture

(* The last header is the end of those in seq_backup, which lives no       *)
(* longer than the instance is in use.                                     *)
HeaderInv ==
  /\ header \in HeaderType
  /\ stage # "used" => seq_len = 0
  /\ seq_len > 0 => header.off + header.new <= seq_len

(* None of the headers that were counted is larger than the largest.       *)
CountInv == seq_len <= seq_header_count * LargestHeader

MappingInv ==
  /\ va <=> stage = "used" /\ ready
  /\ MappingFollowsInstance

VencInv == VencTypeOK /\ PlaceInv /\ HeaderInv /\ CountInv /\ MappingInv

(* The start of every counter and place is in its range.                   *)
LEMMA ZeroInRange ==
  ASSUME VencConstants
  PROVE  0 \in 0..(BufferSize + Gap + Align) /\ 0 \in 0..MaxPictures /\ 0 \in 0..MaxHeaders
           /\ 0 \in 0..BufferSize /\ BufferSize \in Nat
<1>1. /\ BufferSize \in Nat /\ Gap \in Nat /\ Align \in Nat
      /\ MaxPictures \in Nat /\ MaxHeaders \in Nat
  BY DEF VencConstants
<1>2. QED
  BY <1>1

(* Rounding up to the alignment loses nothing of a picture and adds less   *)
(* than the gap and one unit of alignment.                                 *)
LEMMA AdvanceBounds ==
  ASSUME VencConstants, NEW s \in Nat
  PROVE  Advance(s) \in Nat /\ s <= Advance(s) /\ Advance(s) < s + Gap + Align
<1>1. Gap \in Nat /\ Align \in Nat /\ Align > 0
  BY DEF VencConstants
<1> DEFINE n == s + Gap + Align - 1
           q == n \div Align
<1>2. n \in Nat
  BY <1>1
<1>3. q \in Nat /\ q * Align <= n /\ n < q * Align + Align
  BY <1>1, <1>2
<1>4. Advance(s) = q * Align
  BY DEF Advance
<1>5. q * Align \in Nat
  BY <1>1, <1>3
<1> HIDE DEF q
<1>6. QED
  BY <1>1, <1>3, <1>4, <1>5

(* A picture is placed where the whole of it fits.                         *)
LEMMA PlaceFits ==
  ASSUME VencConstants, VencTypeOK, NEW s \in PictureSizes
  PROVE  /\ Place \in Nat /\ Place + AudSize + s <= BufferSize
         /\ s \in Nat \ {0} /\ AudSize \in Nat
<1>1. /\ BufferSize \in Nat /\ Aud \in Nat /\ s \in Nat \ {0}
      /\ s + Aud <= BufferSize \div 2
  BY DEF VencConstants
<1>2. cur \in Nat /\ AudSize \in {0, Aud}
  BY <1>1 DEF VencTypeOK, AudSize, VencConstants
<1>3. QED
  BY <1>1, <1>2 DEF Place

(* One more header adds at most the size of the largest.                   *)
LEMMA CountStep ==
  ASSUME VencConstants, NEW n \in Nat, NEW len \in Nat, len <= n * LargestHeader,
         NEW size \in 0..LargestHeader
  PROVE  len + size <= (n + 1) * LargestHeader
<1>1. LargestHeader \in Nat
  BY DEF VencConstants
<1>2. (n + 1) * LargestHeader = n * LargestHeader + LargestHeader /\ n * LargestHeader \in Nat
  BY <1>1
<1>3. QED
  BY <1>1, <1>2

------------------------------------------------------------------------------
(* Each call keeps it.                                                     *)

(* Encode: the picture lies inside, behind the one before or at the start, *)
(* and a failed command moves nothing but the place.                       *)
LEMMA EncodeKeeps ==
  ASSUME VencConstants, VencInv, venc_encode
  PROVE  /\ VencInv'
         /\ Overwrites(write', picture) => write'.from = 0
<1> USE DEF VencInv
<1>1. /\ UNCHANGED <<stage, settings, va, headers, mapped>>
      /\ write' = [from |-> Place, to |-> BufferSize]
      /\ frame_index \in Nat /\ frame_index < MaxPictures
  BY DEF venc_encode, VencTypeOK, Written
<1>2. HeaderInv' /\ CountInv' /\ MappingInv'
  BY <1>1 DEF HeaderInv, CountInv, MappingInv, MappingFollowsInstance, headers, settings
<1>3. BufferSize \in Nat /\ Gap \in Nat /\ Align \in Nat \ {0} /\ cur \in Nat
  BY DEF VencConstants, VencTypeOK
<1>4. /\ Place = 0 \/ (Place = cur /\ cur <= BufferSize)
      /\ picture.off \in Nat /\ picture.size \in Nat
  BY <1>3 DEF Place, PlaceInv, PictureType
<1>10. write' \in [from : 0..BufferSize, to : Nat]
  BY <1>1, <1>3, <1>4
<1>11. Overwrites(write', picture) => write'.from = 0
  BY <1>1, <1>3, <1>4 DEF Overwrites, PlaceInv
<1>5. CASE cur' = Place /\ UNCHANGED <<frame_index, picture>>
  <2>1. PlaceInv'
    BY <1>4, <1>5 DEF PlaceInv, VpuInside, OutputIsPicture
  <2>2. VencTypeOK'
    BY <1>1, <1>3, <1>4, <1>5, <1>10 DEF VencTypeOK, headers, settings
  <2>3. QED
    BY <1>2, <1>11, <2>1, <2>2
<1>6. ASSUME NEW size \in PictureSizes, picture' = Encoded(size),
             cur' = Place + Advance(picture'.size), frame_index' = frame_index + 1
      PROVE  VencInv'
  <2>1. /\ Place \in Nat /\ Place + AudSize + size <= BufferSize
        /\ size \in Nat \ {0} /\ AudSize \in Nat
    BY PlaceFits
  <2>2. /\ picture'.off = Place /\ picture'.size = size + AudSize
        /\ picture'.from = Place + AudSize /\ picture'.written = size
        /\ picture'.aud = AudSize
    BY <1>6 DEF Encoded
  <2>3. picture' \in PictureType
    BY <1>6, <2>1 DEF Encoded, PictureType
  <2>4. size + AudSize \in Nat
    BY <2>1
  <2>5. /\ Advance(size + AudSize) \in Nat /\ size + AudSize <= Advance(size + AudSize)
        /\ Advance(size + AudSize) < size + AudSize + Gap + Align
    BY <2>4, AdvanceBounds
  <2>6. cur' = Place + Advance(size + AudSize)
    BY <1>6, <2>2
  <2>7. cur' \in Nat /\ cur' >= Place + (size + AudSize) /\ cur' <= BufferSize + Gap + Align
    BY <1>3, <2>1, <2>4, <2>5, <2>6
  <2>8. PlaceInv'
    BY <2>1, <2>2, <2>3, <2>7 DEF PlaceInv, VpuInside, OutputIsPicture
  <2>9. frame_index' \in 0..MaxPictures
    BY <1>1, <1>6 DEF VencConstants
  <2>10. VencTypeOK'
    BY <1>1, <1>3, <1>10, <2>7, <2>9 DEF VencTypeOK, headers, settings
  <2>11. QED
    BY <1>2, <2>8, <2>10
<1>7. QED
  BY <1>5, <1>6, <1>11 DEF venc_encode

(* A sequence header goes behind those before it, and over the start of    *)
(* the bitstream buffer.                                                   *)
LEMMA PutHeaderKeeps ==
  ASSUME VencConstants, VencInv, venc_put_seqheader
  PROVE  /\ VencInv' /\ write'.from = 0
         /\ header' # header /\ seq_len > 0 => header'.off >= header.off + header.new
<1> USE DEF VencInv
<1>1. /\ UNCHANGED <<stage, settings, va, pictures, mapped>> /\ backup' = TRUE
      /\ seq_header_count \in Nat /\ seq_header_count < MaxHeaders /\ stage = "used"
  BY DEF venc_put_seqheader, VencTypeOK
<1>2. PlaceInv' /\ MappingInv'
  BY <1>1 DEF PlaceInv, VpuInside, OutputIsPicture, MappingInv, MappingFollowsInstance,
     pictures, settings
<1>3. seq_len \in Nat /\ HeaderInv /\ seq_len <= seq_header_count * LargestHeader
  BY DEF VencTypeOK, CountInv
<1>7. 0 \in 0..BufferSize /\ 0 \in Nat /\ 0 \in 0..LargestHeader
  BY DEF VencConstants
<1>4. /\ seq_len' \in Nat /\ seq_header_count' \in 0..MaxHeaders
      /\ HeaderInv' /\ CountInv'
      /\ write' \in [from : {0}, to : Nat]
      /\ header' # header => header'.off = seq_len
  <2>1. CASE header' = [off |-> seq_len, size |-> seq_len, new |-> 0]
               /\ seq_header_count' = seq_header_count + 1 /\ UNCHANGED seq_len
               /\ write' = NoWrite
    <3>1. seq_len + 0 <= (seq_header_count + 1) * LargestHeader
      BY <1>1, <1>3, <1>7, CountStep
    <3>2. QED
      BY <1>1, <1>3, <2>1, <3>1
      DEF VencConstants, HeaderInv, HeaderType, CountInv, NoWrite, Written
  <2>2. ASSUME UNCHANGED <<seq_len, seq_header_count, header>>,
               NEW size \in HeaderSizes, write' \in {NoWrite, Written(0, size)}
        PROVE  /\ HeaderInv' /\ CountInv' /\ write' \in [from : {0}, to : Nat]
               /\ seq_len' \in Nat /\ seq_header_count' \in 0..MaxHeaders
    BY <1>1, <1>3, <2>2 DEF HeaderInv, CountInv, VencTypeOK, VencConstants, NoWrite, Written
  <2>3. ASSUME NEW size \in HeaderSizes, seq_len' = seq_len + size,
               header' = [off |-> seq_len, size |-> seq_len', new |-> size],
               seq_header_count' = seq_header_count + 1, write' = Written(0, size)
        PROVE  /\ seq_len' \in Nat /\ seq_header_count' \in 0..MaxHeaders
               /\ HeaderInv' /\ CountInv'
               /\ write' \in [from : {0}, to : Nat]
               /\ header' # header => header'.off = seq_len
    <3>1. size \in Nat /\ size \in 0..LargestHeader
      BY DEF VencConstants
    <3>2. seq_len + size <= (seq_header_count + 1) * LargestHeader
      BY <1>1, <1>3, <3>1, CountStep
    <3>3. CountInv'
      BY <2>3, <3>2 DEF CountInv
    <3>4. write' \in [from : {0}, to : Nat]
      BY <2>3, <3>1 DEF Written
    <3>5. QED
      BY <1>1, <1>3, <2>3, <3>1, <3>3, <3>4 DEF VencConstants, HeaderInv, HeaderType
  <2>4. QED
    BY <2>1, <2>2, <2>3 DEF venc_put_seqheader
<1>5. VencTypeOK'
  BY <1>1, <1>4, <1>7 DEF VencTypeOK, pictures, settings
<1>6. QED
  BY <1>2, <1>3, <1>4, <1>5 DEF HeaderInv

(* A new instance starts with nothing.                                     *)
LEMMA AllocKeeps ==
  ASSUME VencConstants, VencInv, venc_alloc_instance
  PROVE  VencInv' /\ write'.from = 0 /\ seq_len = 0
<1> USE DEF VencInv
<1>1. picture' = NoPicture /\ header' = NoHeader
  BY DEF venc_alloc_instance
<1>2. PlaceInv'
  BY <1>1 DEF venc_alloc_instance, VencConstants, PlaceInv, PictureType, VpuInside,
     OutputIsPicture, NoPicture
<1>3. HeaderInv' /\ CountInv' /\ seq_len = 0
  BY <1>1 DEF venc_alloc_instance, HeaderInv, HeaderType, NoHeader, CountInv, VencConstants
<1>4. MappingInv'
  BY DEF venc_alloc_instance, MappingInv, MappingFollowsInstance
<1>5. VencTypeOK'
  <2>1. /\ stage' \in {"none", "allocated", "used", "closed"}
        /\ codec' \in {"avc", "hevc", "mjpg"} /\ slices' \in BOOLEAN /\ ready' \in BOOLEAN
        /\ va' \in BOOLEAN /\ backup' \in BOOLEAN
        /\ cur' \in 0..(BufferSize + Gap + Align) /\ frame_index' \in 0..MaxPictures
        /\ seq_header_count' \in 0..MaxHeaders /\ seq_len' \in Nat /\ mapped' \in Nat
        /\ write' \in [from : 0..BufferSize, to : Nat]
    BY ZeroInRange DEF venc_alloc_instance, VencTypeOK, NoWrite, Written
  <2>2. seq_len' > 0 => backup'
    BY DEF venc_alloc_instance
  <2>3. QED
    BY <2>1, <2>2, Zenon DEF VencTypeOK
<1>6. QED
  BY <1>2, <1>3, <1>4, <1>5 DEF venc_alloc_instance, NoWrite, Written

(* Init maps the buffer when it succeeds.                                  *)
LEMMA InitKeeps ==
  ASSUME VencConstants, VencInv, venc_init
  PROVE  VencInv' /\ UNCHANGED header /\ write'.from = 0
<1> USE DEF VencInv
<1>1. /\ stage = "allocated" /\ stage' = "used" /\ UNCHANGED <<headers, pictures>>
      /\ codec' \in {"avc", "hevc", "mjpg"} /\ slices' \in BOOLEAN
      /\ ready' \in BOOLEAN /\ va' = ready'
      /\ mapped' = IF ready' THEN mapped + 1 ELSE mapped
  BY DEF venc_init, venc_get_bitstream_format
<1>2. MappingInv'
  BY <1>1 DEF MappingInv, MappingFollowsInstance
<1>3. PlaceInv' /\ HeaderInv' /\ CountInv'
  BY <1>1 DEF PlaceInv, VpuInside, OutputIsPicture, HeaderInv, CountInv, headers, pictures
<1>6. write' \in [from : 0..BufferSize, to : Nat] /\ write'.from = 0
  BY ZeroInRange DEF venc_init, NoWrite, Written
<1>4. VencTypeOK'
  BY <1>1, <1>6 DEF VencTypeOK, headers, pictures
<1>5. QED
  BY <1>1, <1>2, <1>3, <1>4, <1>6 DEF headers

(* Close unmaps it and frees the headers, whatever the driver answers.     *)
LEMMA CloseKeeps ==
  ASSUME VencConstants, VencInv, venc_close \/ venc_release_instance
  PROVE  VencInv' /\ UNCHANGED header /\ write'.from = 0
<1> USE DEF VencInv
<1>1. CASE venc_close
  <2>1. /\ stage' = "closed" /\ va' = FALSE /\ backup' = FALSE /\ frame_index' = 0
        /\ mapped' = IF va THEN mapped - 1 ELSE mapped
        /\ UNCHANGED <<settings, cur, seq_header_count, header, picture>>
        /\ write' = NoWrite
    BY <1>1 DEF venc_close
  <2>2. seq_len' = 0
    BY <1>1 DEF venc_close, VencTypeOK
  <2>3. MappingInv'
    BY <2>1 DEF MappingInv, MappingFollowsInstance
  <2>4. PlaceInv' /\ HeaderInv' /\ CountInv'
    BY <2>1, <2>2 DEF PlaceInv, VpuInside, OutputIsPicture, HeaderInv, CountInv, VencTypeOK,
       VencConstants
  <2>5. mapped' \in Nat
    BY <2>1, <2>3 DEF MappingInv, MappingFollowsInstance
  <2>6. VencTypeOK'
    <3>1. /\ stage' \in {"none", "allocated", "used", "closed"}
          /\ codec' \in {"avc", "hevc", "mjpg"} /\ slices' \in BOOLEAN /\ ready' \in BOOLEAN
          /\ va' \in BOOLEAN /\ backup' \in BOOLEAN
          /\ cur' \in 0..(BufferSize + Gap + Align) /\ frame_index' \in 0..MaxPictures
          /\ seq_header_count' \in 0..MaxHeaders /\ seq_len' \in Nat /\ mapped' \in Nat
          /\ write' \in [from : 0..BufferSize, to : Nat]
      BY <2>1, <2>2, <2>5, ZeroInRange DEF VencTypeOK, settings, NoWrite, Written
    <3>2. seq_len' > 0 => backup'
      BY <2>2
    <3>3. QED
      BY <3>1, <3>2, Zenon DEF VencTypeOK
  <2>7. QED
    BY <2>1, <2>3, <2>4, <2>6 DEF NoWrite, Written
<1>2. CASE venc_release_instance
  <2>1. /\ stage \in {"allocated", "closed"} /\ stage' = "none" /\ write' = NoWrite
        /\ UNCHANGED <<settings, va, headers, pictures, mapped>>
    BY <1>2 DEF venc_release_instance
  <2>2. write' \in [from : 0..BufferSize, to : Nat] /\ write'.from = 0
    BY <2>1, ZeroInRange DEF NoWrite, Written
  <2>3. VencTypeOK'
    BY <2>1, <2>2 DEF VencTypeOK, headers, pictures, settings
  <2>4. QED
    BY <2>1, <2>2, <2>3 DEF PlaceInv, VpuInside, OutputIsPicture, HeaderInv, CountInv,
       MappingInv, MappingFollowsInstance, headers, pictures, settings
<1>3. QED
  BY <1>1, <1>2

LEMMA InitiallyVenc == ASSUME VencConstants PROVE Init => VencInv
<1> SUFFICES ASSUME Init PROVE VencInv
  OBVIOUS
<1>1. VencTypeOK
  <2>1. /\ stage \in {"none", "allocated", "used", "closed"}
        /\ codec \in {"avc", "hevc", "mjpg"} /\ slices \in BOOLEAN /\ ready \in BOOLEAN
        /\ va \in BOOLEAN /\ backup \in BOOLEAN
        /\ cur \in 0..(BufferSize + Gap + Align) /\ frame_index \in 0..MaxPictures
        /\ seq_header_count \in 0..MaxHeaders /\ seq_len \in Nat /\ mapped \in Nat
        /\ write \in [from : 0..BufferSize, to : Nat]
    BY ZeroInRange DEF Init, NoWrite, Written
  <2>2. seq_len > 0 => backup
    BY DEF Init
  <2>3. QED
    BY <2>1, <2>2, Zenon DEF VencTypeOK
<1>2. PlaceInv
  BY ZeroInRange DEF Init, PlaceInv, PictureType, VpuInside, OutputIsPicture, NoPicture
<1>3. HeaderInv /\ CountInv
  BY DEF Init, HeaderInv, HeaderType, NoHeader, CountInv, VencConstants
<1>4. MappingInv
  BY DEF Init, MappingInv, MappingFollowsInstance
<1>5. QED
  BY <1>1, <1>2, <1>3, <1>4 DEF VencInv

(* A step keeps the invariant, and what was given out.                     *)
KeepsStep ==
  /\ Overwrites(write', picture) => write'.from = 0
  /\ header' # header /\ seq_len > 0 => header'.off >= header.off + header.new

LEMMA VencStep ==
  ASSUME VencConstants, VencInv, [Next]_vars
  PROVE  VencInv' /\ [KeepsStep]_vars
<1>1. CASE venc_encode
  <2>1. UNCHANGED header
    BY <1>1 DEF venc_encode, headers
  <2>2. QED
    BY <1>1, <2>1, EncodeKeeps DEF KeepsStep
<1>2. CASE venc_put_seqheader
  BY <1>2, PutHeaderKeeps DEF KeepsStep
<1>3. CASE venc_alloc_instance
  BY <1>3, AllocKeeps DEF KeepsStep
<1>4. CASE venc_init
  BY <1>4, InitKeeps DEF KeepsStep
<1>5. CASE venc_close \/ venc_release_instance
  BY <1>5, CloseKeeps DEF KeepsStep
<1>6. CASE UNCHANGED vars
  BY <1>6 DEF vars, VencInv, VencTypeOK, PlaceInv, VpuInside, OutputIsPicture, HeaderInv,
     CountInv, MappingInv, MappingFollowsInstance
<1>7. QED
  BY <1>1, <1>2, <1>3, <1>4, <1>5, <1>6 DEF Next

LEMMA VencHolds == ASSUME VencConstants PROVE Spec => []VencInv
<1>1. VencInv /\ [Next]_vars => VencInv'
  BY VencStep
<1>2. QED
  BY InitiallyVenc, <1>1, PTL DEF Spec

------------------------------------------------------------------------------
(* The theorems.                                                           *)

(* The variables keep their types: the place for the next picture stays    *)
(* within the gap and the alignment of the buffer's end.                   *)
THEOREM VencTypeCorrect == ASSUME VencConstants PROVE Spec => []VencTypeOK
<1>1. VencInv => VencTypeOK
  BY DEF VencInv
<1>2. QED
  BY VencHolds, <1>1, PTL

(* V3AreasKept: the VPU never writes past the end of the bitstream buffer, *)
(* what the caller gets is all of the picture, as many headers as surely   *)
(* fit into seq_backup stay inside it, and the mapping goes with its       *)
(* instance.                                                               *)
THEOREM AreasKept == ASSUME VencConstants PROVE Spec => []V3AreasKept
<1>1. VencInv => V3AreasKept
  <2>1. ASSUME VencInv, seq_header_count * LargestHeader <= BackupSize
        PROVE  seq_len <= BackupSize
    <3>1. /\ seq_len \in Nat /\ seq_header_count \in Nat /\ LargestHeader \in Nat
          /\ BackupSize \in Nat /\ seq_len <= seq_header_count * LargestHeader
      BY <2>1 DEF VencInv, VencTypeOK, CountInv, VencConstants
    <3>2. seq_header_count * LargestHeader \in Nat
      BY <3>1
    <3>3. QED
      BY <2>1, <3>1, <3>2
  <2>2. QED
    BY <2>1 DEF VencInv, PlaceInv, MappingInv, V3AreasKept, HeadersInside
<1>2. QED
  BY VencHolds, <1>1, PTL

(* KeptWhileUsed: whatever the library and the VPU write over a picture    *)
(* that was given out, cleared memory and sequence headers included,       *)
(* begins at the start of the buffer; a header lies behind the header      *)
(* before it.                                                              *)
THEOREM GivenOutKept == ASSUME VencConstants PROVE Spec => KeptWhileUsed
<1>1. VencInv /\ [Next]_vars =>
        /\ [Overwrites(write', picture) => write'.from = 0]_vars
        /\ [header' # header /\ seq_len > 0 => header'.off >= header.off + header.new]_vars
  BY VencStep DEF KeepsStep
<1>2. QED
  BY VencHolds, <1>1, PTL DEF Spec, KeptWhileUsed, PicturesApart, HeadersKept

==============================================================================
