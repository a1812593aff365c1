--------------------------- MODULE VideoClockQueue ----------------------------
(***************************************************************************)
(* The clock queue of VideoClock driven by whole streams: pictures are     *)
(* numbered in display order, decoded in any order the stream's reordering *)
(* allows, whole or as two fields, and displayed in order.  Their time     *)
(* stamps run through the 33-bit wrap, and a stream may have more pictures *)
(* waiting for display than the queue has room for.                        *)
(***************************************************************************)
EXTENDS VideoClock, FiniteSets, SequencesExt

CONSTANTS
  Streams,      \* [start, reorder, pending]: first time stamp, how far decoding
                \* runs ahead of display order, how many pictures wait at most
  Pictures,     \* length of a stream (bound)
  Step          \* time between two pictures

StreamConstants ==
  /\ ClockConstants
  /\ Streams \subseteq [start : 0..MAX_CLOCK_33BIT, reorder : Nat, pending : Nat]
  /\ Pictures \in Nat
  /\ Step \in Nat \ {0, 1}

VARIABLES
  stream,   \* the stream being decoded
  clk,      \* tVideoClock of the decoder
  state,    \* of each picture: "coming", "field", "pending", "shown"
  overflown \* the queue lost clocks of pictures that are still pending

vars == <<stream, clk, state, overflown>>

In(what) == { p \in 1..Pictures : state[p] = what }

(* The time stamp of the first packet of a picture, and of its second      *)
(* field's packet.                                                         *)
TimeOf(p) == (stream.start + (p - 1) * Step) % (MAX_CLOCK_33BIT + 1)
SecondTimeOf(p) == (stream.start + (p - 1) * Step + 1) % (MAX_CLOCK_33BIT + 1)

QueueInit ==
  /\ stream \in Streams
  /\ clk = ResetClock
  /\ state = [p \in 1..Pictures |-> "coming"]
  /\ overflown = FALSE

(* What the stream decodes next: no picture overtakes more than reorder    *)
(* earlier ones.                                                           *)
Decodable(p) ==
  /\ state[p] = "coming" /\ In("field") = {}
  /\ Cardinality({ e \in In("coming") : e < p }) <= stream.reorder
  /\ Cardinality(In("pending")) < stream.pending

InsertField(p) ==
  /\ Decodable(p)
  /\ clk' = InsertClock(clk, TimeOf(p), TRUE, p)
  /\ state' = [state EXCEPT ![p] = "field"]
  /\ UNCHANGED <<stream, overflown>>

InsertPicture(p) ==
  /\ Decodable(p) \/ state[p] = "field"
  /\ clk' = InsertClock(clk, IF state[p] = "field" THEN SecondTimeOf(p) ELSE TimeOf(p), FALSE, p)
  /\ state' = [state EXCEPT ![p] = "pending"]
  /\ overflown' = (overflown \/ Len(clk.clocks) + 1 >= MAX_VIDEO_CLOCK_COUNT)
  /\ UNCHANGED stream

(* VideoClockCtrl_GetClock for the picture displayed. *)
GetClock(p) ==
  /\ state[p] = "pending"
  /\ \A e \in 1..(p - 1) : state[e] = "shown"
  /\ clk' = DropClock(clk)
  /\ state' = [state EXCEPT ![p] = "shown"]
  /\ overflown' = (overflown /\ In("pending") # {p})
  /\ UNCHANGED stream

QueueNext ==
  \E p \in 1..Pictures : InsertField(p) \/ InsertPicture(p) \/ GetClock(p)

QueueSpec == QueueInit /\ [][QueueNext]_vars

------------------------------------------------------------------------------

(* The queue is an array of MAX_VIDEO_CLOCK_COUNT clocks, never overrun;   *)
(* the field it remembers is one that waits for its second field.          *)
QueueTypeOK ==
  /\ clk.clocks \in Seq(0..MAX_CLOCK_33BIT)
  /\ Len(clk.clocks) < MAX_VIDEO_CLOCK_COUNT
  /\ clk.fieldClock \in 0..MAX_CLOCK_33BIT
  /\ state \in [1..Pictures -> {"coming", "field", "pending", "shown"}]
  /\ In("field") = IF clk.fieldIndex = NoField THEN {} ELSE {clk.fieldIndex}

(* "By default, the decoding order is sorted and outputted in the display  *)
(* order." (video_decoder.h:281)  The queue holds one clock for each       *)
(* picture that is decoded and not displayed, in display order: the one    *)
(* GetClock returns next is the next picture's own.  After an overflow     *)
(* dropped clocks this is so again once the pending pictures have drained: *)
(* no stale clock shifts the rest of the stream.  A pair of fields has the *)
(* time of its first field, unless this is 0, which InsertClock takes for  *)
(* none.                                                                   *)
ClocksFollowDisplayOrder ==
  ~overflown =>
    LET waiting == SetToSortSeq(In("pending"), <)
    IN  /\ Len(clk.clocks) = Len(waiting)
        /\ \A i \in 1..Len(waiting) :
             \/ clk.clocks[i] = TimeOf(waiting[i])
             \/ TimeOf(waiting[i]) = 0 /\ clk.clocks[i] = SecondTimeOf(waiting[i])

==============================================================================
