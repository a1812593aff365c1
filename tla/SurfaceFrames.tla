---------------------------- MODULE SurfaceFrames -----------------------------
(***************************************************************************)
(* What a decoder promises about its surface frames                        *)
(* (video_decoder.h:275-277): a picture handed to the user stays out of    *)
(* the hardware's reach until the window of surface frames is full, and    *)
(* then the oldest one, and only that one, is given back.                  *)
(***************************************************************************)
EXTENDS Integers, Sequences

CONSTANT Frames

VARIABLES
  surface,  \* the pictures the user may be reading, oldest first
  window,   \* how many of them the decoder keeps
  busy      \* the frame buffers the hardware is writing into

sfVars == <<surface, window, busy>>

Elems(s) == { s[i] : i \in 1..Len(s) }

SFInit == surface = <<>> /\ window = 0 /\ busy = {}

Configure ==
  /\ surface = <<>>
  /\ window' \in Nat \ {0}
  /\ UNCHANGED <<surface, busy>>

StartWrite(f) ==
  /\ f \notin Elems(surface) \cup busy
  /\ busy' = busy \cup {f}
  /\ UNCHANGED <<surface, window>>

EndWrite(f) ==
  /\ f \in busy
  /\ busy' = busy \ {f}
  /\ UNCHANGED <<surface, window>>

Output(f) ==
  /\ f \notin Elems(surface) \cup busy
  /\ Len(surface) < window
  /\ surface' = Append(surface, f)
  /\ UNCHANGED <<window, busy>>

GiveBackOldest ==
  /\ surface # <<>> /\ Len(surface) = window
  /\ surface' = Tail(surface)
  /\ UNCHANGED <<window, busy>>

Close == surface' = <<>> /\ busy' = {} /\ UNCHANGED window

SFNext ==
  \/ Configure
  \/ \E f \in Frames : StartWrite(f) \/ EndWrite(f) \/ Output(f)
  \/ GiveBackOldest
  \/ Close

SFSpec == SFInit /\ [][SFNext]_sfVars

==============================================================================
