------------------------------ MODULE VideoClock ------------------------------
(***************************************************************************)
(* The time stamp queue of a decoder (video_clock_control.c), as pure      *)
(* operators on a record: VideoDecoder keeps one in its handle, and        *)
(* VideoClockQueue checks it on its own.                                   *)
(*                                                                         *)
(* The clock identifier of the code is always 0 (its only caller passes 0, *)
(* video_decoder.c:238), so a queued clock is its time alone.  iFrameRate  *)
(* and tPrevOutputClock are written and never read: they are left out.     *)
(***************************************************************************)
EXTENDS Integers, Sequences

CONSTANTS
  MAX_CLOCK_33BIT,         \* where the 33-bit presentation clock wraps
  CLOCK_WRAP_DETECT_TERM,  \* width of the regions next to the wrap
  MAX_VIDEO_CLOCK_COUNT,   \* slots of tClocks
  INT_MODULUS              \* 2^32: the comparator returns a 32-bit int

ClockConstants ==
  /\ MAX_CLOCK_33BIT \in Nat
  /\ CLOCK_WRAP_DETECT_TERM \in Nat
  /\ 2 * CLOCK_WRAP_DETECT_TERM < MAX_CLOCK_33BIT
  /\ MAX_VIDEO_CLOCK_COUNT \in Nat \ {0, 1}
  /\ INT_MODULUS \in Nat \ {0}

NoField == -1

(* SF_VideoClockCtrl_GetClockRegion: A = 0, B = 1, C = 2. *)
GetClockRegion(c) ==
  IF c < CLOCK_WRAP_DETECT_TERM THEN 0
  ELSE IF c > MAX_CLOCK_33BIT - CLOCK_WRAP_DETECT_TERM THEN 2 ELSE 1

(* The (int) conversion at the end of the comparator: a large positive     *)
(* difference gives 0, a large negative one is truncated.                  *)
ToInt(d) ==
  LET half == INT_MODULUS \div 2
  IN  IF d >= half - 1 THEN 0 ELSE ((d + half) % INT_MODULUS) - half

(* SF_VideoClockCtrl_SortClock, the qsort comparator.  It puts region C     *)
(* before region A, but A before C as well when A is its first argument.   *)
SortClock(c1, c2) ==
  LET gap == GetClockRegion(c1) - GetClockRegion(c2)
  IN  ToInt(IF gap \in {-2, 2} /\ c1 > c2 THEN c2 - c1 ELSE c1 - c2)

(* qsort of glibc (external): a merge sort, which compares an element      *)
(* of the left half with one of the right half, in this order.             *)
Merge[a \in Seq(Int), b \in Seq(Int)] ==
  IF a = <<>> THEN b
  ELSE IF b = <<>> THEN a
  ELSE IF SortClock(Head(a), Head(b)) <= 0 THEN <<Head(a)>> \o Merge[Tail(a), b]
  ELSE <<Head(b)>> \o Merge[a, Tail(b)]

QSort[s \in Seq(Int)] ==
  LET half == Len(s) \div 2
  IN  IF Len(s) <= 1 THEN s
      ELSE Merge[QSort[SubSeq(s, 1, half)], QSort[SubSeq(s, half + 1, Len(s))]]

(* VideoClockCtrl_ResetClock *)
ResetClock == [clocks |-> <<>>, fieldIndex |-> NoField, fieldClock |-> 0]

(* Mutant: the time stored with the first field is not used. *)
PictureClock_Second(q, clock, index) == clock

(* A complete picture takes the time stored with its first field, if the   *)
(* field belongs to the same frame buffer and its time is not 0.           *)
PictureClock(q, clock, index) ==
  IF q.fieldIndex # NoField /\ q.fieldClock # 0 /\ q.fieldIndex = index
  THEN q.fieldClock ELSE clock

AppendClock(q, clock) ==
  IF Len(q.clocks) + 1 >= MAX_VIDEO_CLOCK_COUNT
  THEN ResetClock
  ELSE [ResetClock EXCEPT !.clocks = QSort[Append(q.clocks, clock)]]

(* VideoClockCtrl_InsertClock (its bError argument is always false). *)
InsertClock(q, clock, isField, index) ==
  IF isField
  THEN [q EXCEPT !.fieldIndex = index, !.fieldClock = clock]
  ELSE AppendClock(q, PictureClock(q, clock, index))

(* VideoClockCtrl_GetClock: an empty queue leaves the caller's zero.       *)
FirstClock(q) == IF q.clocks = <<>> THEN 0 ELSE Head(q.clocks)
DropClock(q) == IF q.clocks = <<>> THEN q ELSE [q EXCEPT !.clocks = Tail(@)]

==============================================================================
