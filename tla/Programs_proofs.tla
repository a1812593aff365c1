-------------------------- MODULE Programs_proofs -----------------------------
(***************************************************************************)
(* Proofs about the index control and the other parts of Programs.         *)
(*                                                                         *)
(* The index control, for any number of threads and calls: the semaphore   *)
(* keeps the lists to one thread as long as Update is not among the calls  *)
(* (its early return releases the semaphore twice), no picture is lost or  *)
(* listed twice whoever calls what, and a thread that is alone leaves      *)
(* Update with room in the window.                                         *)
(*                                                                         *)
(* Every other part has an inductive invariant of its own, for any setup;  *)
(* what a part does not keep under every setup is said in a definition     *)
(* named ...Covered.  "The parts together" puts them under ProgramsSpec.   *)
(***************************************************************************)
EXTENDS Programs, SequenceTheorems, FiniteSetTheorems, TLAPS

------------------------------------------------------------------------------
(* The inductive invariant.                                                *)

Entries == [name : Int, picture : Nat]
Places == {"idle", "wait", "in", "updating", "called", "leave"}

DataOK ==
  /\ hSemaphore \in 0..MaxPermits
  /\ at \in [Threads -> Places] /\ doing \in [Threads -> Operations \union {"none"}]
  /\ arg \in [Threads -> Int] /\ calls \in [Threads -> 0..MaxCalls]
  /\ iMaxIndexCnt \in Windows \union {0}
  /\ ptListDisplay \in Seq(Entries) /\ ptListClear \in Seq(Entries)
  /\ pushed \in Nat /\ released \in Seq(Nat)
  /\ iFrameId \in 2..(2 + pushed)

Pictures(list) == {list[i].picture : i \in 1..Len(list)}
Apart(list) == \A i, j \in 1..Len(list) : list[i].picture = list[j].picture => i = j

(* Every picture is somewhere, and in the lists at most once.              *)
PictureInv ==
  /\ 1..pushed = Pictures(ptListDisplay) \union Pictures(ptListClear)
                   \union Elems(released) \union forgotten
  /\ Apart(ptListDisplay) /\ Apart(ptListClear)
  /\ Pictures(ptListDisplay) \cap Pictures(ptListClear) = {}

(* What a thread is about to delete has been given back; a window that is  *)
(* set is one of Windows.                                                  *)
ClearInv ==
  \A t \in Threads :
    /\ at[t] = "called" => doing[t] = "clear" /\ arg[t] \in Elems(released)
    /\ at[t] \in {"wait", "in"} /\ doing[t] = "window" => arg[t] \in Windows

(* The permit is out as long as a thread works.                            *)
PermitInv ==
  "update" \notin Operations =>
    /\ hSemaphore \in {0, 1} /\ (Working # {} => hSemaphore = 0)
    /\ OneInside
    /\ \A t \in Threads : at[t] # "updating"

(* A thread in a call is one that called.                                  *)
RoomInv ==
  /\ \A t \in Threads : at[t] # "idle" => calls[t] > 0
  /\ Alone => RoomAfterUpdate

IndexInv == DataOK /\ PictureInv /\ ClearInv /\ PermitInv /\ RoomInv

-----------------------------------------------------------------------------
(* The lists.                                                              *)

LEMMA RemoveAtFacts ==
  ASSUME NEW S, NEW s \in Seq(S), NEW i \in 1..Len(s)
  PROVE  /\ RemoveAt(s, i) \in Seq(S) /\ Len(RemoveAt(s, i)) = Len(s) - 1
         /\ \A k \in 1..(Len(s) - 1) :
              RemoveAt(s, i)[k] = IF k < i THEN s[k] ELSE s[k + 1]
<1> DEFINE a == SubSeq(s, 1, i - 1)
           b == SubSeq(s, i + 1, Len(s))
<1>1. Len(s) \in Nat /\ i \in Int /\ \A k \in 1..Len(s) : s[k] \in S
  BY LenProperties
<1>2. /\ a \in Seq(S) /\ Len(a) = i - 1
      /\ \A k \in 1..(i - 1) : a[k] = s[k]
  <2>1. \A k \in 1..(i - 1) : s[k] \in S
    BY <1>1
  <2>2. /\ a \in Seq(S) /\ Len(a) = IF 1 <= i - 1 THEN (i - 1) - 1 + 1 ELSE 0
        /\ \A k \in 1..((i - 1) - 1 + 1) : a[k] = s[1 + k - 1]
    BY <1>1, <2>1, SubSeqProperties
  <2> QED
    BY <1>1, <2>2
<1>3. /\ b \in Seq(S) /\ Len(b) = Len(s) - i
      /\ \A k \in 1..(Len(s) - i) : b[k] = s[i + k]
  <2>1. \A k \in (i + 1)..Len(s) : s[k] \in S
    BY <1>1
  <2>2. /\ b \in Seq(S) /\ Len(b) = IF i + 1 <= Len(s) THEN Len(s) - (i + 1) + 1 ELSE 0
        /\ \A k \in 1..(Len(s) - (i + 1) + 1) : b[k] = s[i + 1 + k - 1]
    BY <1>1, <2>1, SubSeqProperties
  <2> QED
    BY <1>1, <2>2
<1>4. RemoveAt(s, i) = a \o b
  BY DEF RemoveAt
<1> HIDE DEF a, b
<1>5. /\ a \o b \in Seq(S) /\ Len(a \o b) = Len(a) + Len(b)
      /\ \A k \in 1..(Len(a) + Len(b)) :
           (a \o b)[k] = IF k <= Len(a) THEN a[k] ELSE b[k - Len(a)]
  BY <1>2, <1>3, ConcatProperties
<1>6. Len(a) + Len(b) = Len(s) - 1
  BY <1>1, <1>2, <1>3
<1>7. ASSUME NEW k \in 1..(Len(s) - 1)
      PROVE  (a \o b)[k] = IF k < i THEN s[k] ELSE s[k + 1]
  <2>1. CASE k < i
    BY <1>1, <1>2, <1>5, <1>6, <2>1
  <2>2. CASE ~(k < i)
    <3>1. k - Len(a) \in 1..(Len(s) - i) /\ i + (k - Len(a)) = k + 1 /\ ~(k <= Len(a))
      BY <1>1, <1>2, <2>2
    <3> QED
      BY <1>3, <1>5, <1>6, <2>2, <3>1
  <2> QED
    BY <2>1, <2>2
<1> QED
  BY <1>4, <1>5, <1>6, <1>7

LEMMA RemovedPicture ==
  ASSUME NEW s \in Seq(Entries), NEW i \in 1..Len(s), Apart(s)
  PROVE  /\ Pictures(RemoveAt(s, i)) = Pictures(s) \ {s[i].picture}
         /\ Apart(RemoveAt(s, i))
<1> DEFINE r == RemoveAt(s, i)
<1>1. Len(s) \in Nat /\ i \in Int
  BY LenProperties
<1>2. /\ Len(r) = Len(s) - 1
      /\ \A k \in 1..(Len(s) - 1) : r[k] = IF k < i THEN s[k] ELSE s[k + 1]
  BY RemoveAtFacts
<1> HIDE DEF r
<1>3. ASSUME NEW k \in 1..Len(r)
      PROVE  \E m \in 1..Len(s) : m # i /\ r[k] = s[m] /\ m = (IF k < i THEN k ELSE k + 1)
  BY <1>1, <1>2
<1>4. ASSUME NEW m \in 1..Len(s), m # i
      PROVE  \E k \in 1..Len(r) : r[k] = s[m]
  <2>1. CASE m < i
    BY <1>1, <1>2, <1>4, <2>1
  <2>2. CASE ~(m < i)
    <3>1. m - 1 \in 1..Len(r) /\ ~(m - 1 < i) /\ (m - 1) + 1 = m
      BY <1>1, <1>2, <1>4, <2>2
    <3> QED
      BY <1>2, <3>1
  <2> QED
    BY <2>1, <2>2
<1>5. Pictures(r) \subseteq Pictures(s) \ {s[i].picture}
  BY <1>3 DEF Pictures, Apart
<1>6. Pictures(s) \ {s[i].picture} \subseteq Pictures(r)
  BY <1>4 DEF Pictures
<1>7. Apart(r)
  <2> SUFFICES ASSUME NEW k \in 1..Len(r), NEW l \in 1..Len(r),
                      r[k].picture = r[l].picture
               PROVE  k = l
    BY DEF Apart
  <2>1. PICK m \in 1..Len(s) : r[k] = s[m] /\ m = (IF k < i THEN k ELSE k + 1)
    BY <1>3
  <2>2. PICK n \in 1..Len(s) : r[l] = s[n] /\ n = (IF l < i THEN l ELSE l + 1)
    BY <1>3
  <2>3. m = n
    BY <2>1, <2>2 DEF Apart
  <2> QED
    BY <1>1, <1>2, <2>1, <2>2, <2>3
<1> QED
  BY <1>5, <1>6, <1>7 DEF r

LEMMA AppendedPicture ==
  ASSUME NEW s \in Seq(Entries), NEW e \in Entries
  PROVE  /\ Pictures(Append(s, e)) = Pictures(s) \union {e.picture}
         /\ Apart(s) /\ e.picture \notin Pictures(s) => Apart(Append(s, e))
<1> DEFINE r == Append(s, e)
<1>1. Len(s) \in Nat
  BY LenProperties
<1>2. /\ Len(r) = Len(s) + 1 /\ r[Len(s) + 1] = e
      /\ \A k \in 1..Len(s) : r[k] = s[k]
  BY AppendProperties
<1> HIDE DEF r
<1>3. 1..Len(r) = (1..Len(s)) \union {Len(s) + 1}
  BY <1>1, <1>2
<1>4. Pictures(r) = Pictures(s) \union {e.picture}
  BY <1>2, <1>3 DEF Pictures
<1>5. ASSUME Apart(s), e.picture \notin Pictures(s)
      PROVE  Apart(r)
  BY <1>2, <1>3, <1>5 DEF Apart, Pictures
<1> QED
  BY <1>4, <1>5 DEF r

LEMMA AppendedElement ==
  ASSUME NEW S, NEW s \in Seq(S), NEW x \in S
  PROVE  Elems(Append(s, x)) = Elems(s) \union {x}
<1>1. Len(s) \in Nat
  BY LenProperties
<1>2. /\ Len(Append(s, x)) = Len(s) + 1 /\ Append(s, x)[Len(s) + 1] = x
      /\ \A k \in 1..Len(s) : Append(s, x)[k] = s[k]
  BY AppendProperties
<1>3. 1..Len(Append(s, x)) = (1..Len(s)) \union {Len(s) + 1}
  BY <1>1, <1>2
<1> QED
  BY <1>2, <1>3 DEF Elems

LEMMA EmptyList == Pictures(<<>>) = {} /\ Apart(<<>>) /\ Elems(<<>>) = {}
<1>1. Len(<<>>) = 0
  BY EmptySeq
<1>2. 1..0 = {}
  OBVIOUS
<1> QED
  BY <1>1, <1>2 DEF Pictures, Apart, Elems

(* A picture that goes over to the other list is not lost.                 *)
LEMMA PopKeeps ==
  ASSUME DataOK, PictureInv, NEW i \in 1..Len(ptListDisplay), Pop(i)
  PROVE  /\ PictureInv'
         /\ ptListDisplay' \in Seq(Entries) /\ ptListClear' \in Seq(Entries)
         /\ pushed' = pushed /\ released' = released /\ iFrameId' = iFrameId
<1> DEFINE e == ptListDisplay[i]
<1>1. /\ ptListDisplay \in Seq(Entries) /\ ptListClear \in Seq(Entries)
      /\ Apart(ptListDisplay) /\ Apart(ptListClear)
      /\ Pictures(ptListDisplay) \cap Pictures(ptListClear) = {}
      /\ 1..pushed = Pictures(ptListDisplay) \union Pictures(ptListClear)
                       \union Elems(released) \union forgotten
  BY DEF DataOK, PictureInv
<1>2. e \in Entries /\ e.picture \in Pictures(ptListDisplay)
  BY <1>1, LenProperties DEF Pictures
<1>3. /\ ptListClear' = Append(ptListClear, e) /\ ptListDisplay' = RemoveAt(ptListDisplay, i)
      /\ pushed' = pushed /\ released' = released /\ forgotten' = forgotten
      /\ iFrameId' = iFrameId
  BY DEF Pop
<1> HIDE DEF e
<1>4. /\ Pictures(ptListDisplay') = Pictures(ptListDisplay) \ {e.picture}
      /\ Apart(ptListDisplay')
  BY <1>1, <1>3, RemovedPicture DEF e
<1>5. /\ Pictures(ptListClear') = Pictures(ptListClear) \union {e.picture}
      /\ Apart(ptListClear')
  BY <1>1, <1>2, <1>3, AppendedPicture
<1>6. ptListDisplay' \in Seq(Entries)
  BY <1>1, <1>3, RemoveAtFacts
<1>7. ptListClear' \in Seq(Entries)
  BY <1>1, <1>2, <1>3, AppendProperties
<1>8. 1..pushed' = Pictures(ptListDisplay') \union Pictures(ptListClear')
                     \union Elems(released') \union forgotten'
  BY <1>1, <1>2, <1>3, <1>4, <1>5
<1>9. Pictures(ptListDisplay') \cap Pictures(ptListClear') = {}
  BY <1>1, <1>4, <1>5
<1> QED
  BY <1>3, <1>4, <1>5, <1>6, <1>7, <1>8, <1>9 DEF PictureInv, Pictures, Apart

------------------------------------------------------------------------------
(* What a step may do to the lists.                                        *)

(* What each way of changing the lists keeps: a new picture, one over to   *)
(* the other list, one given back, one deleted, or all of them.            *)
ListsOK ==
  /\ PictureInv /\ pushed \in Nat /\ iFrameId \in 2..(2 + pushed)
  /\ ptListDisplay \in Seq(Entries) /\ ptListClear \in Seq(Entries)
  /\ released \in Seq(Nat)

LEMMA ListsStay ==
  ASSUME ListsOK, ptListDisplay' = ptListDisplay, ptListClear' = ptListClear,
         pushed' = pushed, released' = released, forgotten' = forgotten,
         iFrameId' = iFrameId
  PROVE  ListsOK' /\ released' = released
<1>1. PictureInv
  BY DEF ListsOK
<1>2. 1..pushed' = Pictures(ptListDisplay') \union Pictures(ptListClear')
                     \union Elems(released') \union forgotten'
  BY <1>1 DEF PictureInv
<1>3. /\ Apart(ptListDisplay') /\ Apart(ptListClear')
      /\ Pictures(ptListDisplay') \cap Pictures(ptListClear') = {}
  BY <1>1 DEF PictureInv
<1>4. PictureInv'
  BY <1>2, <1>3 DEF PictureInv, Pictures, Apart, Elems
<1> QED
  BY <1>4 DEF ListsOK

LEMMA SameLists ==
  ASSUME IndexInv, UNCHANGED lists
  PROVE  ListsOK' /\ released' = released
<1>1. ListsOK
  BY DEF IndexInv, DataOK, ListsOK
<1>2. /\ ptListDisplay' = ptListDisplay /\ ptListClear' = ptListClear /\ pushed' = pushed
      /\ released' = released /\ forgotten' = forgotten /\ iFrameId' = iFrameId
  BY DEF lists
<1> QED
  BY <1>1, <1>2, ListsStay

LEMMA PushLists ==
  ASSUME IndexInv, NEW t \in Threads, Push(t)
  PROVE  ListsOK' /\ released' = released
<1> DEFINE e == [name |-> iFrameId - 1, picture |-> pushed']
<1>1. /\ ptListDisplay \in Seq(Entries) /\ ptListClear \in Seq(Entries)
      /\ Apart(ptListDisplay) /\ Apart(ptListClear)
      /\ Pictures(ptListDisplay) \cap Pictures(ptListClear) = {}
      /\ 1..pushed = Pictures(ptListDisplay) \union Pictures(ptListClear)
                       \union Elems(released) \union forgotten
      /\ pushed \in Nat /\ iFrameId \in 2..(2 + pushed) /\ released \in Seq(Nat)
  BY DEF IndexInv, DataOK, PictureInv
<1>2. /\ pushed' = pushed + 1 /\ iFrameId' = iFrameId + 1
      /\ ptListDisplay' = Append(ptListDisplay, e)
      /\ ptListClear' = ptListClear /\ released' = released /\ forgotten' = forgotten
  BY DEF Push
<1>3. e \in Entries /\ e.picture = pushed + 1
  BY <1>1, <1>2 DEF Entries
<1> HIDE DEF e
<1>4. e.picture \notin 1..pushed /\ 1..pushed' = 1..pushed \union {e.picture}
  BY <1>1, <1>2, <1>3
<1>5. /\ Pictures(ptListDisplay') = Pictures(ptListDisplay) \union {e.picture}
      /\ Apart(ptListDisplay')
  BY <1>1, <1>2, <1>3, <1>4, AppendedPicture
<1>6. ptListDisplay' \in Seq(Entries)
  BY <1>1, <1>2, <1>3, AppendProperties
<1>7. pushed' \in Nat /\ iFrameId' \in 2..(2 + pushed')
  BY <1>1, <1>2
<1>8. 1..pushed' = Pictures(ptListDisplay') \union Pictures(ptListClear')
                     \union Elems(released') \union forgotten'
  BY <1>1, <1>2, <1>4, <1>5
<1>9. Pictures(ptListDisplay') \cap Pictures(ptListClear') = {}
  BY <1>1, <1>2, <1>4, <1>5
<1> QED
  BY <1>1, <1>2, <1>5, <1>6, <1>7, <1>8, <1>9 DEF ListsOK, PictureInv, Pictures, Apart

LEMMA PopLists ==
  ASSUME IndexInv, NEW i \in 1..Len(ptListDisplay), Pop(i)
  PROVE  ListsOK' /\ released' = released
<1>1. DataOK /\ PictureInv
  BY DEF IndexInv
<1>2. /\ PictureInv'
      /\ ptListDisplay' \in Seq(Entries) /\ ptListClear' \in Seq(Entries)
      /\ pushed' = pushed /\ released' = released /\ iFrameId' = iFrameId
  BY <1>1, PopKeeps
<1> QED
  BY <1>1, <1>2 DEF ListsOK, DataOK

(* A picture is given back and stays in the list for the moment.           *)
LEMMA GivenLists ==
  ASSUME IndexInv, NEW t \in Threads, Clear_Calls(t)
  PROVE  /\ ListsOK' /\ Elems(released) \subseteq Elems(released')
         /\ arg'[t] \in Elems(released') /\ arg' \in [Threads -> Int]
<1> DEFINE x == Head(ptListClear).picture
<1>1. /\ ptListDisplay \in Seq(Entries) /\ ptListClear \in Seq(Entries)
      /\ 1..pushed = Pictures(ptListDisplay) \union Pictures(ptListClear)
                       \union Elems(released) \union forgotten
      /\ pushed \in Nat /\ iFrameId \in 2..(2 + pushed) /\ released \in Seq(Nat)
      /\ arg \in [Threads -> Int]
  BY DEF IndexInv, DataOK, PictureInv
<1>2. /\ ptListClear # <<>> /\ released' = Append(released, x) /\ arg' = [arg EXCEPT ![t] = x]
      /\ ptListDisplay' = ptListDisplay /\ ptListClear' = ptListClear
      /\ pushed' = pushed /\ forgotten' = forgotten /\ iFrameId' = iFrameId
  BY DEF Clear_Calls
<1>3. x \in Nat /\ x \in Pictures(ptListClear)
  <2>1. Len(ptListClear) \in Nat \ {0} /\ Head(ptListClear) = ptListClear[1]
    BY <1>1, <1>2, EmptySeq
  <2>2. ptListClear[1] \in Entries
    BY <1>1, <2>1, LenProperties
  <2> QED
    BY <2>1, <2>2 DEF Pictures, Entries
<1> HIDE DEF x
<1>4. released' \in Seq(Nat) /\ Elems(released') = Elems(released) \union {x}
  <2>1. released \in Seq(Nat) /\ x \in Nat /\ released' = Append(released, x)
    BY <1>1, <1>2, <1>3
  <2>2. Append(released, x) \in Seq(Nat)
    BY <2>1, AppendProperties
  <2>3. Elems(Append(released, x)) = Elems(released) \union {x}
    BY <2>1, AppendedElement
  <2> QED
    BY <2>1, <2>2, <2>3
<1>5. arg'[t] = x /\ arg' \in [Threads -> Int]
  BY <1>1, <1>2, <1>3
<1>6. 1..pushed' = Pictures(ptListDisplay') \union Pictures(ptListClear')
                     \union Elems(released') \union forgotten'
  BY <1>1, <1>2, <1>3, <1>4
<1>7. /\ Apart(ptListDisplay') /\ Apart(ptListClear')
      /\ Pictures(ptListDisplay') \cap Pictures(ptListClear') = {}
  BY <1>2 DEF IndexInv, PictureInv
<1>8. PictureInv'
  BY <1>6, <1>7 DEF PictureInv, Pictures, Apart
<1> QED
  BY <1>1, <1>2, <1>4, <1>5, <1>8 DEF ListsOK

(* What is deleted afterwards has been given back.                         *)
LEMMA DeletedLists ==
  ASSUME IndexInv, NEW t \in Threads, Clear_Deletes(t)
  PROVE  ListsOK' /\ released' = released
<1> DEFINE entries == {i \in 1..Len(ptListClear) : ptListClear[i].picture = arg[t]}
<1>1. /\ ptListDisplay' = ptListDisplay /\ pushed' = pushed /\ released' = released
      /\ forgotten' = forgotten /\ iFrameId' = iFrameId
      /\ IF entries = {} THEN UNCHANGED ptListClear
         ELSE \E i \in entries : ptListClear' = RemoveAt(ptListClear, i)
  BY DEF Clear_Deletes
<1>2. ListsOK /\ arg[t] \in Elems(released)
  BY DEF IndexInv, DataOK, ListsOK, ClearInv, Clear_Deletes
<1>3. CASE entries = {}
  <2>1. ptListClear' = ptListClear
    BY <1>1, <1>3
  <2> QED
    BY <1>1, <1>2, <2>1, ListsStay
<1>4. CASE entries # {}
  <2>1. PICK i \in 1..Len(ptListClear) :
          ptListClear[i].picture = arg[t] /\ ptListClear' = RemoveAt(ptListClear, i)
    BY <1>1, <1>4
  <2>2. /\ ptListClear \in Seq(Entries) /\ Apart(ptListClear)
        /\ 1..pushed = Pictures(ptListDisplay) \union Pictures(ptListClear)
                         \union Elems(released) \union forgotten
        /\ Pictures(ptListDisplay) \cap Pictures(ptListClear) = {}
    BY <1>2 DEF ListsOK, PictureInv
  <2>3. /\ Pictures(ptListClear') = Pictures(ptListClear) \ {arg[t]}
        /\ Apart(ptListClear')
    BY <2>1, <2>2, RemovedPicture
  <2>4. ptListClear' \in Seq(Entries)
    BY <2>1, <2>2, RemoveAtFacts
  <2>5. 1..pushed' = Pictures(ptListDisplay') \union Pictures(ptListClear')
                       \union Elems(released') \union forgotten'
    BY <1>1, <1>2, <2>2, <2>3
  <2>6. Pictures(ptListDisplay') \cap Pictures(ptListClear') = {}
    BY <1>1, <2>2, <2>3
  <2>7. Apart(ptListDisplay')
    BY <1>1, <1>2 DEF ListsOK, PictureInv
  <2>8. PictureInv'
    BY <2>3, <2>5, <2>6, <2>7 DEF PictureInv, Pictures, Apart
  <2> QED
    BY <1>1, <1>2, <2>4, <2>8 DEF ListsOK
<1> QED
  BY <1>3, <1>4

LEMMA ResetLists ==
  ASSUME IndexInv, NEW t \in Threads, Reset(t)
  PROVE  ListsOK' /\ released' = released
<1>1. /\ forgotten' = forgotten \union Pictures(ptListDisplay) \union Pictures(ptListClear)
      /\ ptListDisplay' = <<>> /\ ptListClear' = <<>> /\ iFrameId' = 2
      /\ pushed' = pushed /\ released' = released
  BY DEF Reset, Elems, Pictures
<1>2. ListsOK
  BY DEF IndexInv, DataOK, ListsOK
<1>3. /\ Pictures(ptListDisplay') = {} /\ Apart(ptListDisplay')
      /\ Pictures(ptListClear') = {} /\ Apart(ptListClear')
  BY <1>1, EmptyList
<1>4. ptListDisplay' \in Seq(Entries) /\ ptListClear' \in Seq(Entries)
  BY <1>1, EmptySeq
<1>5. 1..pushed' = Pictures(ptListDisplay') \union Pictures(ptListClear')
                     \union Elems(released') \union forgotten'
  BY <1>1, <1>2, <1>3 DEF ListsOK, PictureInv
<1>6. PictureInv'
  BY <1>3, <1>5 DEF PictureInv, Pictures, Apart
<1>7. pushed' \in Nat /\ iFrameId' \in 2..(2 + pushed')
  BY <1>1, <1>2 DEF ListsOK
<1> QED
  BY <1>1, <1>2, <1>4, <1>6, <1>7 DEF ListsOK

------------------------------------------------------------------------------
(* The invariant, part by part.                                            *)

LEMMA ListsStep ==
  ASSUME IndexInv, NEW t \in Threads,
         Work(t) \/ \E op \in Operations : \E a \in Arguments(op) : Call(t, op, a)
  PROVE  ListsOK' /\ Elems(released) \subseteq Elems(released')
<1>1. ASSUME UNCHANGED lists
      PROVE  ListsOK' /\ Elems(released) \subseteq Elems(released')
  BY <1>1, SameLists
<1>2. ASSUME NEW i \in 1..Len(ptListDisplay), Pop(i)
      PROVE  ListsOK' /\ Elems(released) \subseteq Elems(released')
  BY <1>2, PopLists
<1>3. ptListDisplay # <<>> => 1 \in 1..Len(ptListDisplay)
  <2>1. ptListDisplay \in Seq(Entries)
    BY DEF IndexInv, DataOK
  <2> QED
    BY <2>1, EmptySeq
<1>4. CASE \E op \in Operations : \E a \in Arguments(op) : Call(t, op, a)
  BY <1>1, <1>4 DEF Call
<1>5. CASE Obtain(t) \/ Leave(t) \/ Update_Nothing(t) \/ SetConfig_Window(t) \/ Clear_Ends(t)
  BY <1>1, <1>5 DEF Obtain, Leave, Update_Nothing, SetConfig_Window, Clear_Ends
<1>6. CASE Push(t)
  BY <1>6, PushLists
<1>7. CASE Drop(t)
  BY <1>1, <1>2, <1>7 DEF Drop, Named
<1>8. CASE Flush(t)
  BY <1>1, <1>2, <1>3, <1>8 DEF Flush
<1>9. CASE Update_Pop(t)
  BY <1>2, <1>3, <1>9 DEF Update_Pop
<1>10. CASE Clear_Calls(t)
  BY <1>10, GivenLists
<1>11. CASE Clear_Deletes(t)
  BY <1>11, DeletedLists
<1>12. CASE Reset(t)
  BY <1>12, ResetLists
<1> QED
  BY <1>4, <1>5, <1>6, <1>7, <1>8, <1>9, <1>10, <1>11, <1>12 DEF Work

(* Where the threads are, and what they were called with.                  *)
ControlOK ==
  /\ hSemaphore \in 0..MaxPermits
  /\ at \in [Threads -> Places] /\ doing \in [Threads -> Operations \union {"none"}]
  /\ arg \in [Threads -> Int] /\ calls \in [Threads -> 0..MaxCalls]
  /\ iMaxIndexCnt \in Windows \union {0}

LEMMA ArgumentsType ==
  ASSUME IndexConstants, IndexInv, NEW op \in Operations, NEW a \in Arguments(op)
  PROVE  a \in Int /\ (op = "window" => a \in Windows)
<1>1. iFrameId \in Int /\ Windows \subseteq Int
  BY DEF IndexInv, DataOK, IndexConstants
<1>2. CASE op = "window"
  BY <1>1, <1>2 DEF Arguments
<1>3. CASE op = "drop"
  BY <1>1, <1>3 DEF Arguments
<1>4. CASE op \notin {"window", "drop"}
  BY <1>4 DEF Arguments
<1> QED
  BY <1>2, <1>3, <1>4

LEMMA PermitsType ==
  ASSUME IndexConstants, NEW n \in 0..MaxPermits
  PROVE  Permits(n) \in 0..MaxPermits
  BY DEF Permits, IndexConstants

LEMMA ControlStep ==
  ASSUME IndexConstants, IndexInv, NEW t \in Threads,
         Work(t) \/ \E op \in Operations : \E a \in Arguments(op) : Call(t, op, a)
  PROVE  ControlOK' /\ ClearInv'
<1>1. ControlOK /\ ClearInv
  BY DEF IndexInv, DataOK, ControlOK
<1>2. Elems(released) \subseteq Elems(released')
  BY ListsStep
<1>3. CASE \E op \in Operations : \E a \in Arguments(op) : Call(t, op, a)
  <2>0. PICK op \in Operations : \E a \in Arguments(op) : Call(t, op, a)
    BY <1>3
  <2>1. PICK a \in Arguments(op) : Call(t, op, a)
    BY <2>0
  <2>2. a \in Int /\ (op = "window" => a \in Windows)
    BY ArgumentsType
  <2>3. /\ at' = [at EXCEPT ![t] = "wait"] /\ doing' = [doing EXCEPT ![t] = op]
        /\ arg' = [arg EXCEPT ![t] = a] /\ calls' = [calls EXCEPT ![t] = @ + 1]
        /\ calls[t] < MaxCalls
        /\ hSemaphore' = hSemaphore /\ iMaxIndexCnt' = iMaxIndexCnt
    BY <2>1 DEF Call
  <2>4. at' \in [Threads -> Places]
    BY <1>1, <2>3 DEF ControlOK, Places
  <2>5. doing' \in [Threads -> Operations \union {"none"}] /\ arg' \in [Threads -> Int]
    BY <1>1, <2>2, <2>3 DEF ControlOK
  <2>6. calls' \in [Threads -> 0..MaxCalls]
    BY <1>1, <2>3 DEF ControlOK, IndexConstants
  <2>7. ClearInv'
    BY <1>1, <1>2, <2>2, <2>3 DEF ControlOK, ClearInv
  <2> QED
    BY <1>1, <2>3, <2>4, <2>5, <2>6, <2>7 DEF ControlOK
<1>4. ASSUME NEW p \in Places \ {"called", "wait", "in"}, at' = [at EXCEPT ![t] = p],
             UNCHANGED <<doing, arg, calls>>,
             hSemaphore' \in 0..MaxPermits, iMaxIndexCnt' \in Windows \union {0}
      PROVE  ControlOK' /\ ClearInv'
  <2>1. at' \in [Threads -> Places]
    BY <1>1, <1>4 DEF ControlOK
  <2>2. ClearInv'
    BY <1>1, <1>2, <1>4 DEF ControlOK, ClearInv
  <2> QED
    BY <1>1, <1>4, <2>1, <2>2 DEF ControlOK
<1>5. "leave" \in Places \ {"called", "wait", "in"} /\ "idle" \in Places \ {"called", "wait", "in"}
      /\ "updating" \in Places \ {"called", "wait", "in"}
  BY DEF Places
<1>6. hSemaphore \in 0..MaxPermits /\ Permits(hSemaphore) \in 0..MaxPermits
      /\ iMaxIndexCnt \in Windows \union {0}
  BY <1>1, PermitsType DEF ControlOK
<1>7. CASE Obtain(t)
  <2>1. /\ at[t] = "wait" /\ hSemaphore > 0 /\ at' = [at EXCEPT ![t] = "in"]
        /\ hSemaphore' = hSemaphore - 1 /\ iMaxIndexCnt' = iMaxIndexCnt
        /\ doing' = doing /\ arg' = arg /\ calls' = calls
    BY <1>7 DEF Obtain
  <2>2. at' \in [Threads -> Places] /\ hSemaphore' \in 0..MaxPermits
    BY <1>1, <2>1 DEF ControlOK, Places, IndexConstants
  <2>3. ClearInv'
    BY <1>1, <1>2, <2>1 DEF ControlOK, ClearInv
  <2> QED
    BY <1>1, <2>1, <2>2, <2>3 DEF ControlOK
<1>8. CASE Leave(t)
  BY <1>4, <1>5, <1>6, <1>8 DEF Leave
<1>9. CASE Push(t) \/ Drop(t) \/ Clear_Ends(t) \/ Reset(t)
  BY <1>4, <1>5, <1>6, <1>9 DEF Push, Drop, Clear_Ends, Reset, Leaves, own
<1>10. CASE Flush(t)
  <2>1. CASE Leaves(t)
    BY <1>4, <1>5, <1>6, <1>10, <2>1 DEF Flush, Leaves, own
  <2>2. CASE UNCHANGED at
    <3>1. ClearInv'
      BY <1>1, <1>2, <1>10, <2>2 DEF Flush, own, ControlOK, ClearInv
    <3> QED
      BY <1>1, <1>10, <2>2, <3>1 DEF Flush, own, ControlOK
  <2> QED
    BY <1>10, <2>1, <2>2 DEF Flush
<1>11. CASE Update_Nothing(t)
  BY <1>4, <1>5, <1>6, <1>11 DEF Update_Nothing, Leaves
<1>12. CASE Update_Pop(t)
  BY <1>4, <1>5, <1>6, <1>12 DEF Update_Pop, own
<1>13. CASE SetConfig_Window(t)
  <2>1. arg[t] \in Windows
    BY <1>1, <1>13 DEF SetConfig_Window, Inside, ClearInv
  <2>2. iMaxIndexCnt' \in Windows \union {0}
    BY <1>13, <2>1 DEF SetConfig_Window
  <2> QED
    BY <1>4, <1>5, <1>6, <1>13, <2>2 DEF SetConfig_Window, Leaves, own
<1>14. CASE Clear_Calls(t)
  <2>1. arg'[t] \in Elems(released') /\ arg' \in [Threads -> Int]
    BY <1>14, GivenLists
  <2>2. /\ doing[t] = "clear" /\ at' = [at EXCEPT ![t] = "called"]
        /\ \A s \in Threads \ {t} : arg'[s] = arg[s]
        /\ hSemaphore' = hSemaphore /\ iMaxIndexCnt' = iMaxIndexCnt
        /\ doing' = doing /\ calls' = calls
    BY <1>1, <1>14 DEF Clear_Calls, Inside, ControlOK
  <2>3. at' \in [Threads -> Places]
    BY <1>1, <2>2 DEF ControlOK, Places
  <2>4. ClearInv'
    BY <1>1, <1>2, <2>1, <2>2 DEF ControlOK, ClearInv
  <2> QED
    BY <1>1, <2>1, <2>2, <2>3, <2>4 DEF ControlOK
<1>15. CASE Clear_Deletes(t)
  <2>1. /\ at[t] = "called" /\ at' = [at EXCEPT ![t] = "in"]
        /\ hSemaphore' = hSemaphore /\ iMaxIndexCnt' = iMaxIndexCnt
        /\ doing' = doing /\ arg' = arg /\ calls' = calls
    BY <1>15 DEF Clear_Deletes, own
  <2>2. at' \in [Threads -> Places]
    BY <1>1, <2>1 DEF ControlOK, Places
  <2>3. ClearInv'
    BY <1>1, <1>2, <2>1 DEF ControlOK, ClearInv
  <2> QED
    BY <1>1, <2>1, <2>2, <2>3 DEF ControlOK
<1> QED
  BY <1>3, <1>7, <1>8, <1>9, <1>10, <1>11, <1>12, <1>13, <1>14, <1>15 DEF Work

(* Without Update the one permit is out while a thread works, so that no   *)
(* second thread obtains one.                                              *)
LEMMA PermitStep ==
  ASSUME IndexConstants, IndexInv, NEW t \in Threads,
         Work(t) \/ \E op \in Operations : \E a \in Arguments(op) : Call(t, op, a),
         "update" \notin Operations
  PROVE  PermitInv'
<1> DEFINE Works(s) == at[s] \notin {"idle", "wait"}
<1>1. /\ at \in [Threads -> Places] /\ doing[t] # "update"
      /\ hSemaphore \in {0, 1}
      /\ \A s \in Threads : Works(s) => hSemaphore = 0 /\ at[s] # "updating"
      /\ \A s, u \in Threads : Works(s) /\ Works(u) => s = u
  <2>1. DataOK /\ PermitInv
    BY DEF IndexInv
  <2>2. at \in [Threads -> Places] /\ doing[t] # "update"
    BY <2>1 DEF DataOK
  <2>3. /\ hSemaphore \in {0, 1} /\ (Working # {} => hSemaphore = 0)
        /\ OneInside /\ \A s \in Threads : at[s] # "updating"
    BY <2>1 DEF PermitInv, DataOK
  <2>4. \A s \in Threads : Works(s) => s \in Working
    BY DEF Working
  <2> QED
    BY <2>2, <2>3, <2>4 DEF OneInside
<1> SUFFICES /\ hSemaphore' \in {0, 1}
             /\ \A s \in Threads : Works(s)' => hSemaphore' = 0 /\ at'[s] # "updating"
             /\ \A s, u \in Threads : Works(s)' /\ Works(u)' => s = u
  BY DEF PermitInv, Working, OneInside
<1>2. CASE \E op \in Operations : \E a \in Arguments(op) : Call(t, op, a)
  <2>1. at' = [at EXCEPT ![t] = "wait"] /\ hSemaphore' = hSemaphore
    BY <1>2 DEF Call
  <2> QED
    BY <1>1, <2>1
<1>3. CASE Obtain(t)
  <2>1. /\ at' = [at EXCEPT ![t] = "in"] /\ hSemaphore > 0 /\ hSemaphore' = hSemaphore - 1
    BY <1>3 DEF Obtain
  <2>2. hSemaphore = 1 /\ hSemaphore' = 0
    BY <1>1, <2>1
  <2>3. \A s \in Threads : ~Works(s)
    BY <1>1, <2>2
  <2> QED
    BY <1>1, <2>1, <2>2, <2>3
<1>4. CASE Leave(t)
  <2>1. /\ at[t] = "leave" /\ at' = [at EXCEPT ![t] = "idle"]
        /\ hSemaphore' = Permits(hSemaphore)
    BY <1>4 DEF Leave
  <2>2. hSemaphore = 0 /\ hSemaphore' \in {0, 1}
    BY <1>1, <2>1 DEF Permits, IndexConstants
  <2>3. \A s \in Threads : ~Works(s)'
    BY <1>1, <2>1
  <2> QED
    BY <2>2, <2>3
<1>5. ASSUME NEW p \in Places \ {"updating"}, at' = [at EXCEPT ![t] = p], Works(t),
             hSemaphore' = hSemaphore
      PROVE  /\ hSemaphore' \in {0, 1}
             /\ \A s \in Threads : Works(s)' => hSemaphore' = 0 /\ at'[s] # "updating"
             /\ \A s, u \in Threads : Works(s)' /\ Works(u)' => s = u
  BY <1>1, <1>5
<1>6. {"leave", "called", "in"} \subseteq Places \ {"updating"}
  BY DEF Places
<1>7. CASE Push(t) \/ Drop(t) \/ SetConfig_Window(t) \/ Clear_Ends(t) \/ Reset(t)
  BY <1>5, <1>6, <1>7 DEF Push, Drop, SetConfig_Window, Clear_Ends, Reset, Inside, Leaves, own
<1>8. CASE Flush(t)
  <2>1. Works(t) /\ hSemaphore' = hSemaphore
    BY <1>8 DEF Flush, Inside, own
  <2>2. CASE Leaves(t)
    BY <1>5, <1>6, <2>1, <2>2 DEF Leaves
  <2>3. CASE UNCHANGED at
    BY <1>1, <2>1, <2>3
  <2> QED
    BY <1>8, <2>2, <2>3 DEF Flush
<1>9. CASE Update_Nothing(t) \/ Update_Pop(t)
  BY <1>1, <1>9 DEF Update_Nothing, Update_Pop, Updating, Inside
<1>10. CASE Clear_Calls(t) \/ Clear_Deletes(t)
  BY <1>5, <1>6, <1>10 DEF Clear_Calls, Clear_Deletes, Inside, own
<1> QED
  BY <1>2, <1>3, <1>4, <1>7, <1>8, <1>9, <1>10 DEF Work

(* A call is counted, and stays counted, so that a thread that is alone    *)
(* after a step was so before it; it leaves Update with the window not     *)
(* full, as nobody changes the list or the window before it has left.      *)
LEMMA RoomStep ==
  ASSUME IndexInv, NEW t \in Threads,
         Work(t) \/ \E op \in Operations : \E a \in Arguments(op) : Call(t, op, a),
         ListsOK', ControlOK'
  PROVE  RoomInv'
<1>1. /\ at \in [Threads -> Places] /\ doing \in [Threads -> Operations \union {"none"}]
      /\ calls \in [Threads -> Nat]
      /\ \A s \in Threads : at[s] # "idle" => calls[s] > 0
      /\ Alone => RoomAfterUpdate
  BY DEF IndexInv, DataOK, RoomInv
<1>2. /\ \A s \in Threads : calls'[s] \in Nat /\ calls'[s] >= calls[s]
      /\ calls'[t] > 0
      /\ \A s \in Threads \ {t} : at'[s] = at[s] /\ doing'[s] = doing[s]
  <2>1. CASE \E op \in Operations : \E a \in Arguments(op) : Call(t, op, a)
    BY <1>1, <2>1 DEF Call
  <2>2. CASE Work(t)
    <3>1. at[t] # "idle"
      BY <2>2 DEF Work, Obtain, Leave, Push, Drop, Flush, SetConfig_Window, Reset, Clear_Calls,
                  Clear_Deletes, Clear_Ends, Update_Nothing, Update_Pop, Updating, Inside
    <3>2. calls' = calls /\ doing' = doing
      BY <2>2 DEF Work, Obtain, Leave, Push, Drop, Flush, SetConfig_Window, Reset, Clear_Calls,
                  Clear_Deletes, Clear_Ends, Update_Nothing, Update_Pop, own
    <3>3. at' = at \/ \E p \in Places : at' = [at EXCEPT ![t] = p]
      <4>1. CASE Obtain(t) \/ Leave(t)
        BY <4>1 DEF Obtain, Leave, Places
      <4>2. CASE Push(t) \/ Drop(t) \/ Flush(t) \/ SetConfig_Window(t) \/ Reset(t)
        BY <4>2 DEF Push, Drop, Flush, SetConfig_Window, Reset, Leaves, Places
      <4>3. CASE Clear_Calls(t) \/ Clear_Deletes(t) \/ Clear_Ends(t)
        BY <4>3 DEF Clear_Calls, Clear_Deletes, Clear_Ends, Leaves, Places
      <4>4. CASE Update_Nothing(t) \/ Update_Pop(t)
        BY <4>4 DEF Update_Nothing, Update_Pop, Leaves, Places
      <4> QED
        BY <2>2, <4>1, <4>2, <4>3, <4>4 DEF Work
    <3> QED
      BY <1>1, <3>1, <3>2, <3>3
  <2> QED
    BY <2>1, <2>2
<1>3. \A s \in Threads : at'[s] # "idle" => calls'[s] > 0
  BY <1>1, <1>2
<1>4. ASSUME Alone' PROVE RoomAfterUpdate'
  <2>1. Alone
    BY <1>1, <1>2, <1>4 DEF Alone
  <2>2. RoomAfterUpdate
    BY <1>1, <2>1
  <2> SUFFICES ASSUME NEW s \in Threads, doing'[s] = "update", at'[s] = "leave"
               PROVE  Len(ptListDisplay') < iMaxIndexCnt'
    BY DEF RoomAfterUpdate
  <2>3. s = t
    BY <1>2, <1>3, <1>4 DEF Alone
  <2>4. doing'[t] = "update" /\ at'[t] = "leave"
    BY <2>3
  <2>5. CASE \E op \in Operations : \E a \in Arguments(op) : Call(t, op, a)
    BY <1>1, <2>4, <2>5 DEF Call
  <2>6. CASE Obtain(t) \/ Leave(t)
    BY <1>1, <2>4, <2>6 DEF Obtain, Leave
  <2>7. CASE Push(t) \/ Drop(t) \/ Flush(t) \/ SetConfig_Window(t) \/ Reset(t)
    BY <1>1, <2>2, <2>4, <2>7
       DEF Push, Drop, Flush, SetConfig_Window, Reset, Inside, own, RoomAfterUpdate
  <2>8. CASE Clear_Calls(t) \/ Clear_Deletes(t) \/ Clear_Ends(t)
    BY <1>1, <2>4, <2>8 DEF Clear_Calls, Clear_Deletes, Clear_Ends, Inside, own
  <2>9. CASE Update_Nothing(t)
    BY <1>1, <2>9 DEF Update_Nothing, lists
  <2>10. CASE Update_Pop(t)
    BY <1>1, <2>4, <2>10 DEF Update_Pop, own
  <2> QED
    BY <2>5, <2>6, <2>7, <2>8, <2>9, <2>10 DEF Work
<1> QED
  BY <1>3, <1>4 DEF RoomInv

------------------------------------------------------------------------------
(* The theorems.                                                           *)

LEMMA IndexInitial == ASSUME IndexConstants, Init PROVE IndexInv
<1>1. DataOK
  BY EmptySeq DEF Init, DataOK, Places, IndexConstants
<1>2. PictureInv
  <2>1. 1..pushed = {} /\ forgotten = {}
    BY DEF Init
  <2> QED
    BY <2>1, EmptyList DEF Init, PictureInv
<1>3. ClearInv
  BY DEF Init, ClearInv
<1>4. PermitInv
  BY DEF Init, PermitInv, Working, OneInside
<1>5. RoomInv
  BY DEF Init, RoomInv, RoomAfterUpdate
<1> QED
  BY <1>1, <1>2, <1>3, <1>4, <1>5 DEF IndexInv

LEMMA IndexStep == ASSUME IndexConstants, IndexInv, [Next]_vars PROVE IndexInv'
<1>1. CASE UNCHANGED vars
  <2>1. ListsOK'
    BY <1>1, SameLists DEF vars
  <2>2. /\ hSemaphore' = hSemaphore /\ at' = at /\ doing' = doing /\ arg' = arg
        /\ calls' = calls /\ iMaxIndexCnt' = iMaxIndexCnt
        /\ ptListDisplay' = ptListDisplay /\ released' = released
    BY <1>1 DEF vars, lists
  <2>3. DataOK' /\ PictureInv'
    BY <2>1, <2>2 DEF IndexInv, DataOK, ListsOK
  <2>4. ClearInv'
    BY <2>2 DEF IndexInv, ClearInv
  <2>5. PermitInv'
    BY <2>2 DEF IndexInv, PermitInv, Working, OneInside
  <2>6. RoomInv'
    BY <2>2 DEF IndexInv, RoomInv, RoomAfterUpdate, Alone
  <2> QED
    BY <2>3, <2>4, <2>5, <2>6 DEF IndexInv
<1>2. CASE Next
  <2>1. PICK t \in Threads :
          Work(t) \/ \E op \in Operations : \E a \in Arguments(op) : Call(t, op, a)
    BY <1>2 DEF Next
  <2>2. ListsOK'
    BY <2>1, ListsStep
  <2>3. ControlOK' /\ ClearInv'
    BY <2>1, ControlStep
  <2>4. DataOK' /\ PictureInv'
    BY <2>2, <2>3 DEF DataOK, ListsOK, ControlOK
  <2>5. PermitInv'
    <3>1. CASE "update" \in Operations
      BY <3>1 DEF PermitInv
    <3>2. CASE "update" \notin Operations
      BY <2>1, <3>2, PermitStep
    <3> QED
      BY <3>1, <3>2
  <2>6. RoomInv'
    BY <2>1, <2>2, <2>3, RoomStep
  <2> QED
    BY <2>3, <2>4, <2>5, <2>6 DEF IndexInv
<1> QED
  BY <1>1, <1>2

(* The elements of the two lists, one after the other.                     *)
LEMMA ListedPictures ==
  ASSUME IndexInv
  PROVE  /\ {e.picture : e \in Elems(Listed)} = Pictures(ptListDisplay) \union Pictures(ptListClear)
         /\ ListedOnce
         /\ \A i \in DOMAIN Listed : Listed[i].picture \in 1..pushed
<1> DEFINE d == Len(ptListDisplay)
           c == Len(ptListClear)
<1>1. ptListDisplay \in Seq(Entries) /\ ptListClear \in Seq(Entries) /\ d \in Nat /\ c \in Nat
  BY LenProperties DEF IndexInv, DataOK
<1>2. /\ Listed \in Seq(Entries) /\ Len(Listed) = d + c
      /\ \A i \in 1..(d + c) :
           Listed[i] = IF i <= d THEN ptListDisplay[i] ELSE ptListClear[i - d]
  BY <1>1, ConcatProperties DEF Listed
<1>3. DOMAIN Listed = 1..(d + c)
  BY <1>2, LenProperties
<1> HIDE DEF d, c
<1>4. ASSUME NEW i \in 1..(d + c)
      PROVE  \/ i \in 1..d /\ Listed[i] = ptListDisplay[i]
             \/ i - d \in 1..c /\ Listed[i] = ptListClear[i - d]
  BY <1>1, <1>2
<1>5. \A i \in 1..d : i \in 1..(d + c) /\ Listed[i] = ptListDisplay[i]
  BY <1>1, <1>2
<1>6. \A i \in 1..c : d + i \in 1..(d + c) /\ Listed[d + i] = ptListClear[i]
  BY <1>1, <1>2
<1>7. {e.picture : e \in Elems(Listed)} = {Listed[i].picture : i \in 1..(d + c)}
  BY <1>2 DEF Elems
<1>8. {Listed[i].picture : i \in 1..(d + c)} = Pictures(ptListDisplay) \union Pictures(ptListClear)
  <2>1. \A i \in 1..(d + c) : Listed[i].picture \in Pictures(ptListDisplay) \union Pictures(ptListClear)
    BY <1>4 DEF Pictures, d, c
  <2>2. \A x \in Pictures(ptListDisplay) : \E i \in 1..(d + c) : Listed[i].picture = x
    BY <1>5 DEF Pictures, d
  <2>3. \A x \in Pictures(ptListClear) : \E i \in 1..(d + c) : Listed[i].picture = x
    BY <1>6 DEF Pictures, c
  <2> QED
    BY <2>1, <2>2, <2>3
<1>9. ListedOnce
  <2> SUFFICES ASSUME NEW i \in 1..(d + c), NEW j \in 1..(d + c),
                      Listed[i].picture = Listed[j].picture
               PROVE  i = j
    BY <1>3 DEF ListedOnce
  <2>1. /\ Apart(ptListDisplay) /\ Apart(ptListClear)
        /\ Pictures(ptListDisplay) \cap Pictures(ptListClear) = {}
    BY DEF IndexInv, PictureInv
  <2>2. CASE i \in 1..d /\ Listed[i] = ptListDisplay[i]
    <3>1. CASE j \in 1..d /\ Listed[j] = ptListDisplay[j]
      BY <2>1, <2>2, <3>1 DEF Apart, d
    <3>2. CASE j - d \in 1..c /\ Listed[j] = ptListClear[j - d]
      BY <2>1, <2>2, <3>2 DEF Pictures, d, c
    <3> QED
      BY <1>4, <3>1, <3>2
  <2>3. CASE i - d \in 1..c /\ Listed[i] = ptListClear[i - d]
    <3>1. CASE j \in 1..d /\ Listed[j] = ptListDisplay[j]
      BY <2>1, <2>3, <3>1 DEF Pictures, d, c
    <3>2. CASE j - d \in 1..c /\ Listed[j] = ptListClear[j - d]
      <4>1. i - d = j - d
        BY <2>1, <2>3, <3>2 DEF Apart, c
      <4> QED
        BY <1>1, <4>1
    <3> QED
      BY <1>4, <3>1, <3>2
  <2> QED
    BY <1>4, <2>2, <2>3
<1>10. \A i \in DOMAIN Listed : Listed[i].picture \in 1..pushed
  BY <1>3, <1>8 DEF IndexInv, PictureInv
<1> QED
  BY <1>7, <1>8, <1>9, <1>10

LEMMA CallbackStays == ASSUME [Next]_vars PROVE callback' = callback
<1>1. CASE UNCHANGED vars
  BY <1>1 DEF vars
<1>2. CASE Next
  <2>1. PICK t \in Threads :
          Work(t) \/ \E op \in Operations : \E a \in Arguments(op) : Call(t, op, a)
    BY <1>2 DEF Next
  <2>2. CASE \E op \in Operations : \E a \in Arguments(op) : Call(t, op, a)
    BY <2>2 DEF Call
  <2>3. CASE Obtain(t) \/ Leave(t) \/ Update_Nothing(t) \/ Clear_Calls(t)
    BY <2>3 DEF Obtain, Leave, Update_Nothing, Clear_Calls
  <2>4. CASE Push(t) \/ Drop(t) \/ Flush(t) \/ Update_Pop(t)
    BY <2>4 DEF Push, Drop, Flush, Update_Pop, own
  <2>5. CASE Clear_Deletes(t) \/ Clear_Ends(t) \/ SetConfig_Window(t) \/ Reset(t)
    BY <2>5 DEF Clear_Deletes, Clear_Ends, SetConfig_Window, Reset, own
  <2> QED
    BY <2>1, <2>2, <2>3, <2>4, <2>5 DEF Work
<1> QED
  BY <1>1, <1>2

(* What the index control keeps has its type, whoever calls what: in       *)
(* particular the names it gives (iFrameId) never run ahead of the         *)
(* pictures, and the lists hold only pictures that were pushed.            *)
THEOREM IndexTypeCorrect == ASSUME IndexConstants PROVE Spec => []IndexTypeOK
<1> DEFINE Inv == IndexInv /\ callback \in BOOLEAN
<1>1. Init => Inv
  <2> SUFFICES ASSUME Init PROVE Inv
    OBVIOUS
  <2>1. callback \in BOOLEAN
    BY Zenon DEF Init
  <2> QED
    BY <2>1, IndexInitial
<1>2. Inv /\ [Next]_vars => Inv'
  <2> SUFFICES ASSUME Inv, [Next]_vars PROVE Inv'
    OBVIOUS
  <2>1. IndexInv'
    BY IndexStep
  <2>2. callback' = callback
    BY CallbackStays
  <2> QED
    BY <2>1, <2>2, Zenon
<1>3. Inv => IndexTypeOK
  <2> SUFFICES ASSUME Inv PROVE IndexTypeOK
    OBVIOUS
  <2>1. \A i \in DOMAIN Listed : Listed[i].picture \in 1..pushed
    BY ListedPictures
  <2>2. \A i \in DOMAIN released : released[i] \in 1..pushed
    <3>1. released \in Seq(Nat) /\ Elems(released) \subseteq 1..pushed
      BY DEF IndexInv, DataOK, PictureInv
    <3>2. DOMAIN released = 1..Len(released)
      BY <3>1, LenProperties
    <3> QED
      BY <3>1, <3>2 DEF Elems
  <2>3. /\ hSemaphore \in 0..MaxPermits /\ iMaxIndexCnt \in Windows \union {0}
        /\ iFrameId \in 2..(2 + pushed)
        /\ \A t \in Threads : at[t] \in Places /\ doing[t] \in Operations \union {"none"}
                              /\ calls[t] \in 0..MaxCalls
    BY DEF IndexInv, DataOK
  <2> QED
    BY <2>1, <2>2, <2>3, Zenon DEF IndexTypeOK, Places
<1> QED
  BY <1>1, <1>2, <1>3, PTL DEF Spec

(* The index control's lists stay in order, with any number of threads,    *)
(* calls, pictures and permits: as long as Update is not called (its early *)
(* return releases the semaphore twice) one thread at a time works on      *)
(* them; whoever calls what, no picture is lost and none is listed twice;  *)
(* and a thread that is alone leaves Update with room in the window.       *)
THEOREM ListsGuarded == ASSUME IndexConstants PROVE Spec => []IndexListGuarded
<1>1. Init => IndexInv
  BY IndexInitial
<1>2. IndexInv /\ [Next]_vars => IndexInv'
  BY IndexStep
<1>3. IndexInv => IndexListGuarded
  <2> SUFFICES ASSUME IndexInv PROVE IndexListGuarded
    OBVIOUS
  <2>1. NoneLost
    BY ListedPictures DEF NoneLost, IndexInv, PictureInv
  <2>2. ListedOnce
    BY ListedPictures
  <2>3. "update" \notin Operations => OneInside
    BY DEF IndexInv, PermitInv
  <2>4. Alone => RoomAfterUpdate
    BY DEF IndexInv, RoomInv
  <2> QED
    BY <2>1, <2>2, <2>3, <2>4 DEF IndexListGuarded
<1> QED
  BY <1>1, <1>2, <1>3, PTL DEF Spec

------------------------------------------------------------------------------
(* The stress tester.                                                      *)

Runners == {"none", "new", "setting", "creating", "arming", "joining", "ended"}
Workers == {"none", "opening", "initializing", "header", "running", "coding", "counting",
            "closing", "ended"}
Coders == {"none", "created", "open"}

QuitTypes ==
  /\ s_main \in {"starting", "handed", "joining", "ended"}
  /\ started \in 0..Quits!N /\ tryIdx \in [{"decoder", "encoder"} -> 0..Quits!N]
  /\ runner \in [Quits!Tests -> Runners] /\ worker \in [Quits!Tests -> Workers]
  /\ took \in [Quits!Tests -> 0..Quits!N] /\ s_coder \in [Quits!Tests -> Coders]
  /\ inited \in [Quits!Tests -> BOOLEAN] /\ error \in [Quits!Tests -> BOOLEAN]
  /\ held \in [Quits!Tests -> 0..Quits!N] /\ hThread \in [Quits!Tests -> 0..Quits!N]

(* An index that is handed over is never behind a thread that was created, *)
(* and is that of a test of the kind.                                      *)
QuitHanded ==
  /\ \A i \in Quits!Tests :
       /\ runner[i] \in {"none", "new"} => took[i] = 0
       /\ runner[i] \notin {"none", "new"} =>
            took[i] \in i..Quits!N /\ QuitSetup.kinds[took[i]] = QuitSetup.kinds[i]
       /\ runner[i] # "none" => tryIdx[QuitSetup.kinds[i]] >= i
       /\ i > started /\ s_main \in {"starting", "handed"} => runner[i] = "none"
  /\ \A k \in {"decoder", "encoder"} : tryIdx[k] # 0 => QuitSetup.kinds[tryIdx[k]] = k

(* What has been joined has ended; a worker and its codec begin when the   *)
(* thread that creates them comes to it; a tester holds only codecs of its *)
(* own threads.                                                            *)
QuitWork ==
  \A i \in Quits!Tests :
    /\ s_main = "joining" /\ i <= started => runner[i] = "ended"
    /\ s_main = "ended" => runner[i] = "ended"
    /\ runner[i] \in {"none", "new", "setting", "creating"} => worker[i] = "none"
    /\ worker[i] \in {"none", "opening", "initializing"} => s_coder[i] = "none"
    /\ held[i] # 0 => took[held[i]] = i

HasOwn(i) == \A j \in Quits!Tests : ~Quits!SharesTester(i, j)

(* A thread that has its tester for itself finds in it what it put there:  *)
(* its worker, and of its codec whether it is initialised.                 *)
QuitOwn(i) ==
  LET t == took[i]
  IN /\ runner[i] \in {"arming", "joining", "ended"} => hThread[t] = i
     /\ runner[i] = "ended" => worker[i] = "ended"
     /\ worker[i] = "header" =>
          /\ held[t] = i /\ s_coder[i] # "none"
          /\ s_coder[i] = "open" /\ QuitSetup.kinds[i] = "decoder" => inited[t]
     /\ worker[i] \in {"running", "coding", "counting"} => held[t] = i /\ inited[t]
     /\ worker[i] = "closing" =>
          \/ s_coder[i] = "none" \/ (held[t] = i /\ inited[t]) \/ (~inited[t] /\ error[t])
     /\ worker[i] = "ended" => s_coder[i] = "none" \/ (~inited[t] /\ error[t])

QuitInv ==
  QuitTypes /\ QuitHanded /\ QuitWork /\ \A i \in Quits!Tests : HasOwn(i) => QuitOwn(i)

LEMMA QuitNumbers ==
  /\ Quits!N \in Nat /\ Quits!Tests = 1..Quits!N
  /\ \A i \in Quits!Tests : QuitSetup.kinds[i] \in {"decoder", "encoder"}
<1>1. QuitSetup.kinds \in Seq({"decoder", "encoder"})
  BY QuitAssumption DEF Quits!StressConstants
<1>. QED  BY <1>1, LenProperties DEF Quits!N, Quits!Tests

LEMMA QuitInitInv == ASSUME Quits!Init PROVE QuitInv
<1>1. QuitTypes
  BY QuitNumbers DEF Quits!Init, QuitTypes, Runners, Workers, Coders
<1>2. QuitHanded /\ QuitWork
  BY QuitNumbers DEF Quits!Init, QuitHanded, QuitWork
<1>3. \A i \in Quits!Tests : QuitOwn(i)
  BY DEF Quits!Init, QuitOwn
<1>. QED  BY <1>1, <1>2, <1>3 DEF QuitInv

LEMMA QuitMainKeeps ==
  ASSUME QuitInv, Quits!Main \/ Quits!ReadsQ \/ Quits!ClearsRunning
  PROVE  QuitInv'
<1>. USE DEF QuitInv
<1>1. UNCHANGED <<took, inited, hThread, held, worker, s_coder, error>>
  BY DEF Quits!Main, Quits!StartsTest, Quits!Sleeps, Quits!WaitsForExit, Quits!Joins,
         Quits!ReadsQ, Quits!ClearsRunning, Quits!work, Quits!tester
<1>2. CASE Quits!StartsTest
  <2>. DEFINE k == QuitSetup.kinds[started + 1]
  <2>1. /\ s_main = "starting" /\ s_main' = "handed" /\ started < Quits!N
        /\ tryIdx' = [tryIdx EXCEPT ![k] = started + 1] /\ started' = started + 1
        /\ runner' = [runner EXCEPT ![started + 1] = "new"]
    BY <1>2 DEF Quits!StartsTest
  <2>2. /\ started + 1 \in Quits!Tests /\ k \in {"decoder", "encoder"} /\ started \in Nat
        /\ runner[started + 1] = "none"
    BY QuitNumbers, <2>1 DEF QuitTypes, QuitHanded
  <2>. HIDE DEF k
  <2>3. QuitTypes'
    <3>1. started + 1 \in 0..Quits!N
      BY QuitNumbers, <2>1, <2>2
    <3>2. tryIdx' \in [{"decoder", "encoder"} -> 0..Quits!N]
      BY <2>1, <2>2, <3>1 DEF QuitTypes
    <3>3. runner' \in [Quits!Tests -> Runners]
      BY <2>1, <2>2 DEF QuitTypes, Runners
    <3>. QED  BY <1>1, <2>1, <3>1, <3>2, <3>3 DEF QuitTypes
  <2>4. QuitHanded'
    <3>0. \A i \in Quits!Tests :
            runner'[i] = IF i = started + 1 THEN "new" ELSE runner[i]
      BY <2>1, <2>2 DEF QuitTypes
    <3>1. ASSUME NEW i \in Quits!Tests
          PROVE  /\ runner'[i] \in {"none", "new"} => took'[i] = 0
                 /\ runner'[i] \notin {"none", "new"} =>
                      /\ took'[i] \in i..Quits!N
                      /\ QuitSetup.kinds[took'[i]] = QuitSetup.kinds[i]
      BY <1>1, <2>2, <3>0 DEF QuitHanded
    <3>2. ASSUME NEW i \in Quits!Tests, i > started'
          PROVE  runner'[i] = "none"
      <4>1. i # started + 1 /\ i > started
        BY QuitNumbers, <2>1, <2>2, <3>2
      <4>. QED  BY <2>1, <3>0, <4>1 DEF QuitHanded
    <3>3. ASSUME NEW i \in Quits!Tests, runner'[i] # "none"
          PROVE  tryIdx'[QuitSetup.kinds[i]] >= i
      <4>1. i <= started + 1
        BY QuitNumbers, <2>1, <2>2, <3>2, <3>3
      <4>2. CASE QuitSetup.kinds[i] = k
        BY QuitNumbers, <2>1, <2>2, <4>1, <4>2 DEF QuitTypes
      <4>3. CASE QuitSetup.kinds[i] # k
        <5>1. i # started + 1
          BY <4>3 DEF k
        <5>2. runner[i] # "none" /\ tryIdx'[QuitSetup.kinds[i]] = tryIdx[QuitSetup.kinds[i]]
          BY QuitNumbers, <2>1, <2>2, <3>3, <4>3, <5>1 DEF QuitTypes
        <5>. QED  BY <5>2 DEF QuitHanded
      <4>. QED  BY <4>2, <4>3
    <3>4. ASSUME NEW l \in {"decoder", "encoder"}, tryIdx'[l] # 0
          PROVE  QuitSetup.kinds[tryIdx'[l]] = l
      <4>1. CASE l = k
        BY <2>1, <2>2, <4>1 DEF QuitTypes, k
      <4>2. CASE l # k
        BY <2>1, <2>2, <3>4, <4>2 DEF QuitTypes, QuitHanded
      <4>. QED  BY <4>1, <4>2
    <3>. QED  BY <2>1, <3>1, <3>2, <3>3, <3>4 DEF QuitHanded
  <2>5. QuitWork'
    BY <1>1, <2>1, <2>2 DEF QuitWork, QuitTypes
  <2>6. ASSUME NEW i \in Quits!Tests, HasOwn(i)'
        PROVE  QuitOwn(i)'
    <3>1. HasOwn(i)
      BY <1>1, <2>6 DEF HasOwn, Quits!SharesTester
    <3>2. runner'[i] = runner[i] \/ runner'[i] = "new"
      BY <2>1, <2>2 DEF QuitTypes
    <3>. QED  BY <1>1, <3>1, <3>2 DEF QuitOwn
  <2>. QED  BY <2>3, <2>4, <2>5, <2>6
<1>3. ASSUME runner' = runner, tryIdx' = tryIdx, QuitTypes', QuitHanded', QuitWork'
      PROVE  QuitInv'
  <2>1. ASSUME NEW i \in Quits!Tests, HasOwn(i)'
        PROVE  QuitOwn(i)'
    <3>1. HasOwn(i)
      BY <1>1, <2>1 DEF HasOwn, Quits!SharesTester
    <3>. QED  BY <1>1, <1>3, <3>1 DEF QuitOwn
  <2>. QED  BY <1>3, <2>1
<1>4. CASE Quits!Sleeps
  <2>1. /\ s_main = "handed" /\ s_main' = "starting" /\ UNCHANGED <<started, tryIdx, runner>>
    BY <1>4 DEF Quits!Sleeps
  <2>2. QuitTypes' /\ QuitHanded' /\ QuitWork'
    BY <1>1, <2>1 DEF QuitTypes, QuitHanded, QuitWork
  <2>. QED  BY <1>3, <2>1, <2>2
<1>5. CASE Quits!WaitsForExit
  <2>1. /\ s_main = "starting" /\ s_main' = "joining" /\ started' = 0
        /\ UNCHANGED <<tryIdx, runner>>
    BY <1>5 DEF Quits!WaitsForExit
  <2>2. QuitTypes' /\ QuitHanded' /\ QuitWork'
    <3>1. QuitTypes'
      BY QuitNumbers, <1>1, <2>1 DEF QuitTypes
    <3>2. QuitHanded'
      BY <1>1, <2>1 DEF QuitHanded
    <3>3. \A i \in Quits!Tests : ~(i <= started')
      BY QuitNumbers, <2>1
    <3>4. QuitWork'
      BY <1>1, <2>1, <3>3 DEF QuitWork
    <3>. QED  BY <3>1, <3>2, <3>4
  <2>. QED  BY <1>3, <2>1, <2>2
<1>6. CASE Quits!Joins
  <2>1. /\ s_main = "joining" /\ UNCHANGED <<tryIdx, runner>>
        /\ \/ /\ started < Quits!N /\ runner[started + 1] = "ended"
              /\ started' = started + 1 /\ s_main' = s_main
           \/ ~(started < Quits!N) /\ s_main' = "ended" /\ started' = started
    BY <1>6 DEF Quits!Joins
  <2>2. QuitTypes'
    BY QuitNumbers, <1>1, <2>1 DEF QuitTypes
  <2>3. s_main' \in {"joining", "ended"}
    BY <2>1
  <2>4. QuitHanded'
    BY <1>1, <2>1, <2>3 DEF QuitHanded
  <2>5. ASSUME NEW i \in Quits!Tests, s_main' = "joining", i <= started'
        PROVE  runner[i] = "ended"
    <3>1. i <= started \/ i = started + 1
      BY QuitNumbers, <2>1, <2>5 DEF QuitTypes
    <3>. QED  BY <2>1, <2>5, <3>1 DEF QuitWork
  <2>6. ASSUME NEW i \in Quits!Tests, s_main' = "ended"
        PROVE  runner[i] = "ended"
    <3>1. i <= started
      BY QuitNumbers, <2>1, <2>6 DEF QuitTypes
    <3>. QED  BY <2>1, <3>1 DEF QuitWork
  <2>7. QuitWork'
    BY <1>1, <2>1, <2>5, <2>6 DEF QuitWork
  <2>. QED  BY <1>3, <2>1, <2>2, <2>4, <2>7
<1>7. CASE Quits!ReadsQ \/ Quits!ClearsRunning
  <2>1. UNCHANGED <<s_main, started, tryIdx, runner>>
    BY <1>7 DEF Quits!ReadsQ, Quits!ClearsRunning
  <2>2. QuitTypes' /\ QuitHanded' /\ QuitWork'
    BY <1>1, <2>1 DEF QuitTypes, QuitHanded, QuitWork
  <2>. QED  BY <1>3, <2>1, <2>2
<1>. QED  BY <1>2, <1>4, <1>5, <1>6, <1>7 DEF Quits!Main

(* A step of one thread, or of its worker, leaves a thread alone that has  *)
(* another tester to itself.                                               *)
LEMMA QuitOthers ==
  ASSUME QuitInv, NEW j \in Quits!Tests, took' = took, took[j] \in Quits!Tests,
         \A i \in Quits!Tests :
           /\ i # j => runner'[i] = runner[i] /\ worker'[i] = worker[i]
           /\ i # j /\ i # held[took[j]] => s_coder'[i] = s_coder[i]
           /\ i # took[j] => /\ inited'[i] = inited[i] /\ error'[i] = error[i]
                             /\ held'[i] = held[i] /\ hThread'[i] = hThread[i],
         NEW i \in Quits!Tests, i # j, HasOwn(i)
  PROVE  QuitOwn(i)'
<1>1. took[i] # took[j]
  BY DEF HasOwn, Quits!SharesTester
<1>2. QuitOwn(i) /\ QuitTypes /\ QuitWork
  BY DEF QuitInv
<1>3. i # held[took[j]]
  <2>1. SUFFICES ASSUME i = held[took[j]] PROVE FALSE
    OBVIOUS
  <2>2. held[took[j]] # 0
    BY QuitNumbers, <2>1
  <2>. QED  BY <1>1, <1>2, <2>1, <2>2 DEF QuitWork
<1>4. s_coder'[i] = s_coder[i] /\ runner'[i] = runner[i] /\ worker'[i] = worker[i]
  BY <1>3
<1>5. CASE took[i] = 0
  <2>1. runner[i] \in {"none", "new"} /\ worker[i] = "none"
    BY QuitNumbers, <1>2, <1>5 DEF QuitInv, QuitHanded, QuitWork
  <2>. QED  BY <1>4, <2>1 DEF QuitOwn
<1>6. CASE took[i] # 0
  <2>1. took[i] \in Quits!Tests
    BY QuitNumbers, <1>2, <1>6 DEF QuitTypes
  <2>2. /\ inited'[took[i]] = inited[took[i]] /\ error'[took[i]] = error[took[i]]
        /\ held'[took[i]] = held[took[i]] /\ hThread'[took[i]] = hThread[took[i]]
    BY <1>1, <2>1
  <2>. QED  BY <1>2, <1>4, <2>2 DEF QuitOwn
<1>. QED  BY <1>5, <1>6

LEMMA QuitRunnerKeeps ==
  ASSUME QuitInv, NEW i \in Quits!Tests, Quits!Runner(i)
  PROVE  QuitInv'
<1>. USE DEF QuitInv
<1>1. UNCHANGED <<s_main, started, tryIdx, held, s_coder>>
  BY DEF Quits!Runner, Quits!TakesIndex, Quits!SetsTester, Quits!CreatesWorker,
         Quits!ArmsTester, Quits!JoinsWorker, Quits!control, Quits!work, Quits!tester
<1>2. CASE Quits!TakesIndex(i)
  <2>. DEFINE t == tryIdx[QuitSetup.kinds[i]]
  <2>1. /\ runner[i] = "new" /\ took' = [took EXCEPT ![i] = t]
        /\ runner' = [runner EXCEPT ![i] = "setting"]
        /\ UNCHANGED <<worker, inited, hThread, error>>
    BY <1>2 DEF Quits!TakesIndex, Quits!work, Quits!tester
  <2>2. /\ t \in i..Quits!N /\ QuitSetup.kinds[t] = QuitSetup.kinds[i] /\ took[i] = 0
        /\ t \in Quits!Tests
    <3>1. QuitSetup.kinds[i] \in {"decoder", "encoder"} /\ i \in 1..Quits!N /\ Quits!N \in Nat
      BY QuitNumbers
    <3>2. t \in 0..Quits!N /\ t >= i /\ took[i] = 0
      BY <2>1, <3>1 DEF QuitTypes, QuitHanded
    <3>3. t # 0
      BY <3>1, <3>2
    <3>4. QuitSetup.kinds[t] = QuitSetup.kinds[i]
      BY <3>1, <3>3 DEF QuitHanded
    <3>. QED  BY QuitNumbers, <3>1, <3>2, <3>3, <3>4
  <2>. HIDE DEF t
  <2>3. QuitTypes'
    <3>1. t \in 0..Quits!N
      BY QuitNumbers, <2>2
    <3>2. took' \in [Quits!Tests -> 0..Quits!N]
      BY <2>1, <3>1 DEF QuitTypes
    <3>3. runner' \in [Quits!Tests -> Runners]
      BY <2>1 DEF QuitTypes, Runners
    <3>. QED  BY <1>1, <2>1, <3>2, <3>3 DEF QuitTypes
  <2>4. QuitHanded'
    BY <1>1, <2>1, <2>2 DEF QuitTypes, QuitHanded
  <2>5. QuitWork'
    <3>1. ASSUME NEW n \in Quits!Tests, held[n] # 0
          PROVE  took'[held[n]] = n
      <4>1. took[held[n]] = n /\ held[n] # i
        BY QuitNumbers, <2>2, <3>1 DEF QuitWork
      <4>. QED  BY QuitNumbers, <2>1, <3>1, <4>1 DEF QuitTypes
    <3>. QED  BY <1>1, <2>1, <3>1 DEF QuitTypes, QuitWork
  <2>6. ASSUME NEW n \in Quits!Tests, HasOwn(n)'
        PROVE  QuitOwn(n)'
    <3>1. CASE n = i
      <4>1. runner'[n] = "setting" /\ worker'[n] = "none"
        BY <2>1, <3>1 DEF QuitTypes, QuitWork
      <4>. QED  BY <4>1 DEF QuitOwn
    <3>2. CASE n # i
      <4>1. took'[n] = took[n] /\ runner'[n] = runner[n]
        BY <2>1, <3>2 DEF QuitTypes
      <4>2. CASE took[n] = 0
        <5>1. runner[n] \in {"none", "new"} /\ worker[n] = "none"
          BY QuitNumbers, <4>2 DEF QuitHanded, QuitWork
        <5>. QED  BY <2>1, <4>1, <5>1 DEF QuitOwn
      <4>3. CASE took[n] # 0
        <5>1. HasOwn(n)
          BY <2>1, <2>2, <2>6, <4>1, <4>3 DEF HasOwn, Quits!SharesTester, QuitTypes
        <5>. QED  BY <1>1, <2>1, <4>1, <5>1 DEF QuitOwn
      <4>. QED  BY <4>2, <4>3
    <3>. QED  BY <3>1, <3>2
  <2>. QED  BY <2>3, <2>4, <2>5, <2>6
<1>3. ASSUME ~Quits!TakesIndex(i)
      PROVE  QuitInv'
  <2>1. PICK f \in Runners, t \in Runners :
          /\ runner[i] = f /\ runner' = [runner EXCEPT ![i] = t] /\ took' = took
          /\ <<f, t>> \in {<<"setting", "creating">>, <<"creating", "arming">>,
                           <<"arming", "joining">>, <<"joining", "ended">>}
          /\ IF f = "creating"
             THEN /\ worker' = [worker EXCEPT ![i] = "opening"]
                  /\ hThread' = [hThread EXCEPT ![took[i]] = i]
             ELSE worker' = worker /\ hThread' = hThread
          /\ IF f = "setting"
             THEN /\ inited' = [inited EXCEPT ![took[i]] = FALSE]
                  /\ error' = [error EXCEPT ![took[i]] = FALSE]
             ELSE inited' = inited /\ error' = error
          /\ f = "joining" /\ HasOwn(i) => worker[hThread[took[i]]] = "ended"
    <3>1. CASE Quits!SetsTester(i)
      BY <3>1 DEF Quits!SetsTester, Quits!Tester, Runners
    <3>2. CASE Quits!CreatesWorker(i)
      BY <3>2 DEF Quits!CreatesWorker, Quits!Tester, Runners
    <3>3. CASE Quits!ArmsTester(i)
      BY <3>3 DEF Quits!ArmsTester, Quits!Tester, Quits!tester, Runners
    <3>4. CASE Quits!JoinsWorker(i)
      BY <3>4 DEF Quits!JoinsWorker, Quits!Tester, Quits!work, Quits!tester, HasOwn, Runners
    <3>. QED  BY <1>3, <3>1, <3>2, <3>3, <3>4 DEF Quits!Runner
  <2>2. took[i] \in Quits!Tests
    BY QuitNumbers, <2>1 DEF QuitHanded
  <2>3. QuitTypes'
    <3>1. i \in 0..Quits!N
      BY QuitNumbers
    <3>2. runner' \in [Quits!Tests -> Runners]
      BY <2>1 DEF QuitTypes
    <3>3. worker' \in [Quits!Tests -> Workers] /\ hThread' \in [Quits!Tests -> 0..Quits!N]
      BY <2>1, <2>2, <3>1 DEF QuitTypes, Workers
    <3>4. inited' \in [Quits!Tests -> BOOLEAN] /\ error' \in [Quits!Tests -> BOOLEAN]
      BY <2>1, <2>2 DEF QuitTypes
    <3>. QED  BY <1>1, <2>1, <3>2, <3>3, <3>4 DEF QuitTypes
  <2>4. QuitHanded'
    BY <1>1, <2>1 DEF QuitTypes, QuitHanded
  <2>5. QuitWork'
    BY <1>1, <2>1, <2>2 DEF QuitTypes, QuitWork
  <2>6. ASSUME NEW n \in Quits!Tests, HasOwn(n)'
        PROVE  QuitOwn(n)'
    <3>1. HasOwn(n)
      BY <2>1, <2>6 DEF HasOwn, Quits!SharesTester
    <3>2. CASE n = i
      <4>1. QuitOwn(i)
        BY <3>1, <3>2
      <4>2. CASE runner[i] = "setting"
        <5>1. worker'[i] = "none" /\ runner'[i] = "creating"
          BY <2>1, <4>2 DEF QuitTypes, QuitWork
        <5>. QED  BY <3>2, <5>1 DEF QuitOwn
      <4>3. CASE runner[i] = "creating"
        <5>1. worker'[i] = "opening" /\ runner'[i] = "arming" /\ hThread'[took'[i]] = i
          BY <2>1, <2>2, <4>3 DEF QuitTypes
        <5>. QED  BY <3>2, <5>1 DEF QuitOwn
      <4>4. CASE runner[i] = "arming"
        <5>1. /\ runner'[i] = "joining"
              /\ UNCHANGED <<took, hThread, held, inited, error, worker, s_coder>>
          BY <1>1, <2>1, <4>4 DEF QuitTypes
        <5>. QED  BY <3>2, <4>1, <4>4, <5>1 DEF QuitOwn
      <4>5. CASE runner[i] = "joining"
        <5>1. /\ runner'[i] = "ended" /\ worker[hThread[took[i]]] = "ended"
              /\ UNCHANGED <<took, hThread, held, inited, error, worker, s_coder>>
          BY <1>1, <2>1, <3>1, <3>2, <4>5 DEF QuitTypes
        <5>2. hThread[took[i]] = i
          BY <4>1, <4>5 DEF QuitOwn
        <5>. QED  BY <3>2, <4>1, <5>1, <5>2 DEF QuitOwn
      <4>. QED  BY <2>1, <4>2, <4>3, <4>4, <4>5
    <3>3. CASE n # i
      <4>1. \A m \in Quits!Tests :
              /\ m # i => runner'[m] = runner[m] /\ worker'[m] = worker[m]
              /\ m # i /\ m # held[took[i]] => s_coder'[m] = s_coder[m]
              /\ m # took[i] => /\ inited'[m] = inited[m] /\ error'[m] = error[m]
                                /\ held'[m] = held[m] /\ hThread'[m] = hThread[m]
        BY <1>1, <2>1, <2>2 DEF QuitTypes
      <4>2. took' = took
        BY <2>1
      <4>. QED  BY <2>2, <3>1, <3>3, <4>1, <4>2, QuitOthers
    <3>. QED  BY <3>2, <3>3
  <2>. QED  BY <2>3, <2>4, <2>5, <2>6
<1>. QED  BY <1>2, <1>3

(* What a step of a worker changes: where it is, what its tester says, and *)
(* a codec that its tester holds.                                          *)
LEMMA QuitWorkerDoes ==
  ASSUME QuitInv, NEW i \in Quits!Tests, Quits!Worker(i)
  PROVE  /\ UNCHANGED <<s_main, started, tryIdx, runner, took, hThread>>
         /\ worker[i] \notin {"none", "ended"} /\ took[i] \in Quits!Tests
         /\ \E w \in Workers \ {"none"} : worker' = [worker EXCEPT ![i] = w]
         /\ worker'[i] \in {"opening", "initializing"} =>
              s_coder' = s_coder /\ worker[i] \in {"opening", "initializing"}
         /\ \E b \in BOOLEAN : inited' = [inited EXCEPT ![took[i]] = b]
         /\ \E e \in BOOLEAN : error' = [error EXCEPT ![took[i]] = e]
         /\ held' = held \/ held' = [held EXCEPT ![took[i]] = i]
         /\ \/ s_coder' = s_coder
            \/ \E c \in Coders : s_coder' = [s_coder EXCEPT ![i] = c]
            \/ s_coder' = [s_coder EXCEPT ![held[took[i]]] = "none"]
<1>1. UNCHANGED <<s_main, started, tryIdx, runner, took, hThread>>
  BY DEF Quits!Worker, Quits!OpensFile, Quits!Initializes, Quits!DoesHeader, Quits!LeavesLoop,
         Quits!EndsTest, Quits!ReadsFrame, Quits!CannotRead, Quits!CodesFrame, Quits!Counts,
         Quits!Closes, Quits!steady, Quits!control
<1>2. worker[i] \notin {"none", "ended"}
  BY DEF Quits!Worker, Quits!OpensFile, Quits!Initializes, Quits!DoesHeader, Quits!LeavesLoop,
         Quits!EndsTest, Quits!ReadsFrame, Quits!CannotRead, Quits!CodesFrame, Quits!Counts,
         Quits!Closes, Quits!Goes
<1>3. took[i] \in Quits!Tests /\ QuitTypes
  BY QuitNumbers, <1>2 DEF QuitInv, QuitHanded, QuitWork
<1>4. /\ inited = [inited EXCEPT ![took[i]] = inited[took[i]]] /\ inited[took[i]] \in BOOLEAN
      /\ error = [error EXCEPT ![took[i]] = error[took[i]]] /\ error[took[i]] \in BOOLEAN
      /\ worker = [worker EXCEPT ![i] = worker[i]] /\ worker[i] \in Workers
  BY <1>3 DEF QuitTypes
<1>5. CASE Quits!OpensFile(i)
  BY <1>1, <1>2, <1>3, <1>4, <1>5
     DEF Quits!OpensFile, Quits!Goes, Quits!Errs, Quits!Tester, Workers
<1>6. CASE Quits!Initializes(i)
  <2>1. /\ worker' = [worker EXCEPT ![i] = "header"] \/ worker' = [worker EXCEPT ![i] = "closing"]
        /\ error' = [error EXCEPT ![took[i]] = FALSE] \/ error' = [error EXCEPT ![took[i]] = TRUE]
        /\ \/ s_coder' = [s_coder EXCEPT ![i] = "open"]
           \/ s_coder' = [s_coder EXCEPT ![i] = "created"]
        /\ \/ inited' = [inited EXCEPT ![took[i]] = QuitSetup.kinds[i] = "decoder"]
           \/ inited' = [inited EXCEPT ![took[i]] = FALSE]
        /\ held' = [held EXCEPT ![took[i]] = i]
    BY <1>6 DEF Quits!Initializes, Quits!Goes, Quits!Errs, Quits!Tester
  <2>2. worker'[i] \in {"header", "closing"}
    BY <1>4, <2>1 DEF QuitTypes, QuitInv
  <2>3. (QuitSetup.kinds[i] = "decoder") \in BOOLEAN
    BY Zenon
  <2>. QED  BY <1>1, <1>2, <1>3, <2>1, <2>2, <2>3 DEF Workers, Coders
<1>7. CASE Quits!DoesHeader(i)
  <2>1. /\ worker' = [worker EXCEPT ![i] = "running"] \/ worker' = [worker EXCEPT ![i] = "closing"]
        /\ error' = [error EXCEPT ![took[i]] = worker'[i] = "closing"]
        /\ \/ inited' = inited
           \/ inited' = [inited EXCEPT ![took[i]] = worker'[i] = "running"]
        /\ held' = held /\ s_coder' = s_coder
    BY <1>7 DEF Quits!DoesHeader, Quits!Goes, Quits!Errs, Quits!Tester
  <2>2. (worker'[i] = "closing") \in BOOLEAN /\ (worker'[i] = "running") \in BOOLEAN
    BY Zenon
  <2>. QED  BY <1>1, <1>2, <1>3, <1>4, <2>1, <2>2 DEF Workers
<1>8. CASE Quits!LeavesLoop(i) \/ Quits!ReadsFrame(i) \/ Quits!Counts(i)
  BY <1>1, <1>2, <1>3, <1>4, <1>8
     DEF Quits!LeavesLoop, Quits!ReadsFrame, Quits!Counts, Quits!Goes, Workers
<1>9. CASE Quits!EndsTest(i) \/ Quits!CannotRead(i)
  BY <1>1, <1>2, <1>3, <1>4, <1>9 DEF Quits!EndsTest, Quits!CannotRead
<1>10. CASE Quits!CodesFrame(i)
  <2>1. /\ worker' = [worker EXCEPT ![i] = "counting"] \/ worker' = [worker EXCEPT ![i] = "running"]
        /\ error' = [error EXCEPT ![took[i]] = worker'[i] = "running"]
        /\ inited' = inited /\ held' = held /\ s_coder' = s_coder
    BY <1>10 DEF Quits!CodesFrame, Quits!Goes, Quits!Errs, Quits!Tester
  <2>2. (worker'[i] = "running") \in BOOLEAN
    BY Zenon
  <2>. QED  BY <1>1, <1>2, <1>3, <1>4, <2>1, <2>2 DEF Workers
<1>11. CASE Quits!Closes(i)
  <2>1. /\ worker' = [worker EXCEPT ![i] = "ended"] /\ UNCHANGED <<inited, held, error>>
        /\ s_coder' = s_coder \/ s_coder' = [s_coder EXCEPT ![held[took[i]]] = "none"]
    BY <1>11 DEF Quits!Closes, Quits!Goes, Quits!Tester
  <2>2. worker'[i] = "ended"
    BY <2>1, <1>3 DEF QuitTypes
  <2>. QED  BY <1>1, <1>2, <1>3, <1>4, <2>1, <2>2 DEF Workers
<1>. QED  BY <1>5, <1>6, <1>7, <1>8, <1>9, <1>10, <1>11 DEF Quits!Worker

(* The worker of a thread that has its tester to itself.                   *)
LEMMA QuitOwnKeeps ==
  ASSUME QuitInv, NEW i \in Quits!Tests, Quits!Worker(i), HasOwn(i)
  PROVE  QuitOwn(i)'
<1>. DEFINE t == took[i]
<1>1. /\ QuitTypes /\ QuitOwn(i) /\ t \in Quits!Tests
      /\ worker[i] \notin {"none", "ended"} /\ UNCHANGED <<runner, took, hThread>>
      /\ worker[i] \in {"none", "opening", "initializing"} => s_coder[i] = "none"
  BY QuitWorkerDoes DEF QuitInv, QuitWork
<1>2. runner'[i] # "ended"
  BY <1>1 DEF QuitOwn
<1>3. (runner[i] \in {"arming", "joining", "ended"} => hThread[t] = i)
  BY <1>1 DEF QuitOwn
<1>4. CASE Quits!OpensFile(i)
  <2>1. /\ worker'[i] \in {"initializing", "closing"} /\ worker[i] = "opening" /\ s_coder' = s_coder
    BY <1>1, <1>4 DEF Quits!OpensFile, Quits!Goes, QuitTypes
  <2>. QED  BY <1>1, <1>2, <1>3, <2>1 DEF QuitOwn
<1>5. CASE Quits!Initializes(i)
  <2>1. /\ held'[t] = i
        /\ \/ /\ worker'[i] = "header" /\ s_coder'[i] = "open"
              /\ inited'[t] = (QuitSetup.kinds[i] = "decoder")
           \/ /\ worker'[i] \in {"header", "closing"} /\ s_coder'[i] = "created"
              /\ inited'[t] = FALSE /\ error'[t] = TRUE
    BY <1>1, <1>5 DEF Quits!Initializes, Quits!Goes, Quits!Errs, Quits!Tester, QuitTypes
  <2>. QED  BY <1>1, <1>2, <1>3, <2>1 DEF QuitOwn
<1>6. CASE Quits!DoesHeader(i)
  <2>1. /\ worker[i] = "header" /\ held' = held /\ s_coder' = s_coder
        /\ error'[t] = (worker'[i] = "closing")
        /\ \/ worker'[i] = "running" /\ Quits!May(i)
           \/ worker'[i] = "closing"
        /\ IF QuitSetup.kinds[i] = "decoder" THEN inited' = inited
           ELSE inited'[t] = (worker'[i] = "running")
    BY <1>1, <1>6 DEF Quits!DoesHeader, Quits!Goes, Quits!Errs, Quits!Tester, QuitTypes
  <2>2. /\ held[t] = i /\ s_coder[i] \in {"created", "open"}
        /\ s_coder[i] = "open" /\ QuitSetup.kinds[i] = "decoder" => inited[t]
    BY <1>1, <2>1 DEF QuitOwn, QuitTypes, Coders
  <2>3. CASE worker'[i] = "running"
    <3>1. s_coder[i] = "open"
      BY <2>1, <2>2, <2>3 DEF Quits!May, Quits!Codec, Quits!Tester
    <3>2. inited'[t]
      BY <2>1, <2>2, <2>3, <3>1
    <3>. QED  BY <1>1, <1>2, <1>3, <2>1, <2>2, <2>3, <3>2 DEF QuitOwn
  <2>4. CASE worker'[i] = "closing"
    <3>1. inited'[t] \in BOOLEAN /\ error'[t]
      BY <1>1, <2>1, <2>4 DEF QuitTypes
    <3>. QED  BY <1>1, <1>2, <1>3, <2>1, <2>2, <2>4, <3>1 DEF QuitOwn
  <2>. QED  BY <2>1, <2>3, <2>4
<1>7. CASE Quits!LeavesLoop(i) \/ Quits!EndsTest(i) \/ Quits!ReadsFrame(i) \/ Quits!CannotRead(i)
             \/ Quits!CodesFrame(i) \/ Quits!Counts(i)
  <2>1. /\ worker[i] \in {"running", "coding", "counting"}
        /\ worker'[i] \in {"running", "coding", "counting", "closing"}
        /\ UNCHANGED <<inited, held, s_coder>>
    BY <1>1, <1>7
       DEF Quits!LeavesLoop, Quits!EndsTest, Quits!ReadsFrame, Quits!CannotRead,
           Quits!CodesFrame, Quits!Counts, Quits!Goes, QuitTypes
  <2>2. held[t] = i /\ inited[t]
    BY <1>1, <2>1 DEF QuitOwn
  <2>. QED  BY <1>1, <1>2, <1>3, <2>1, <2>2 DEF QuitOwn
<1>8. CASE Quits!Closes(i)
  <2>1. /\ worker[i] = "closing" /\ worker'[i] = "ended" /\ UNCHANGED <<inited, held, error>>
        /\ s_coder' = IF inited[t] THEN [s_coder EXCEPT ![held[t]] = "none"] ELSE s_coder
    BY <1>1, <1>8 DEF Quits!Closes, Quits!Goes, Quits!Tester, QuitTypes
  <2>2. s_coder[i] = "none" \/ (held[t] = i /\ inited[t]) \/ (~inited[t] /\ error[t])
    BY <1>1, <2>1 DEF QuitOwn
  <2>3. s_coder'[i] = "none" \/ (~inited[t] /\ error[t])
    BY <1>1, <2>1, <2>2 DEF QuitTypes
  <2>. QED  BY <1>1, <1>2, <1>3, <2>1, <2>3 DEF QuitOwn
<1>. QED  BY <1>4, <1>5, <1>6, <1>7, <1>8 DEF Quits!Worker

LEMMA QuitWorkerKeeps ==
  ASSUME QuitInv, NEW i \in Quits!Tests, Quits!Worker(i)
  PROVE  QuitInv'
<1>1. /\ UNCHANGED <<s_main, started, tryIdx, runner, took, hThread>>
      /\ worker[i] \notin {"none", "ended"} /\ took[i] \in Quits!Tests
      /\ held' = held \/ held' = [held EXCEPT ![took[i]] = i]
      /\ worker'[i] \in {"opening", "initializing"} =>
           s_coder' = s_coder /\ worker[i] \in {"opening", "initializing"}
      /\ \/ s_coder' = s_coder
         \/ \E c \in Coders : s_coder' = [s_coder EXCEPT ![i] = c]
         \/ s_coder' = [s_coder EXCEPT ![held[took[i]]] = "none"]
  BY QuitWorkerDoes
<1>2. PICK w \in Workers \ {"none"} : worker' = [worker EXCEPT ![i] = w]
  BY QuitWorkerDoes
<1>3. PICK b \in BOOLEAN : inited' = [inited EXCEPT ![took[i]] = b]
  BY QuitWorkerDoes
<1>4. PICK e \in BOOLEAN : error' = [error EXCEPT ![took[i]] = e]
  BY QuitWorkerDoes
<1>5. QuitTypes /\ QuitHanded /\ QuitWork
  BY DEF QuitInv
<1>6. s_coder' \in [Quits!Tests -> Coders]
  BY <1>1, <1>5 DEF QuitTypes, Coders
<1>7. QuitTypes' /\ QuitHanded'
  <2>1. i \in 0..Quits!N
    BY QuitNumbers
  <2>2. held' \in [Quits!Tests -> 0..Quits!N]
    BY <1>1, <1>5, <2>1 DEF QuitTypes
  <2>3. /\ worker' \in [Quits!Tests -> Workers]
        /\ inited' \in [Quits!Tests -> BOOLEAN] /\ error' \in [Quits!Tests -> BOOLEAN]
    BY <1>2, <1>3, <1>4, <1>5 DEF QuitTypes
  <2>4. QuitTypes'
    BY <1>1, <1>5, <1>6, <2>2, <2>3 DEF QuitTypes
  <2>5. QuitHanded'
    BY <1>1, <1>5 DEF QuitHanded
  <2>. QED  BY <2>4, <2>5
<1>8. QuitWork'
  <2>1. ASSUME NEW n \in Quits!Tests, worker'[n] \in {"none", "opening", "initializing"}
        PROVE  s_coder'[n] = "none"
    <3>1. CASE n = i
      <4>1. worker'[i] # "none"
        BY <1>2, <1>5 DEF QuitTypes
      <4>2. s_coder' = s_coder /\ worker[i] \in {"opening", "initializing"}
        BY <1>1, <2>1, <3>1, <4>1
      <4>. QED  BY <1>5, <3>1, <4>2 DEF QuitWork
    <3>2. CASE n # i
      <4>1. worker'[n] = worker[n] /\ s_coder[n] = "none"
        BY <1>2, <1>5, <2>1, <3>2 DEF QuitTypes, QuitWork
      <4>. QED  BY <1>1, <1>5, <3>2, <4>1 DEF QuitTypes
    <3>. QED  BY <3>1, <3>2
  <2>2. ASSUME NEW n \in Quits!Tests, held'[n] # 0
        PROVE  took'[held'[n]] = n
    BY <1>1, <1>5, <2>2 DEF QuitTypes, QuitWork
  <2>3. ASSUME NEW n \in Quits!Tests, runner[n] \in {"none", "new", "setting", "creating"}
        PROVE  worker'[n] = "none"
    <3>1. worker[n] = "none" /\ n # i
      BY <1>1, <1>5, <2>3 DEF QuitWork
    <3>. QED  BY <1>2, <1>5, <3>1 DEF QuitTypes
  <2>. QED  BY <1>1, <1>5, <2>1, <2>2, <2>3 DEF QuitWork
<1>9. ASSUME NEW n \in Quits!Tests, HasOwn(n)'
      PROVE  QuitOwn(n)'
  <2>1. HasOwn(n)
    BY <1>1, <1>9 DEF HasOwn, Quits!SharesTester
  <2>2. CASE n = i
    BY <2>1, <2>2, QuitOwnKeeps
  <2>3. CASE n # i
    <3>1. \A m \in Quits!Tests :
            /\ m # i => runner'[m] = runner[m] /\ worker'[m] = worker[m]
            /\ m # i /\ m # held[took[i]] => s_coder'[m] = s_coder[m]
            /\ m # took[i] => /\ inited'[m] = inited[m] /\ error'[m] = error[m]
                              /\ held'[m] = held[m] /\ hThread'[m] = hThread[m]
      BY <1>1, <1>2, <1>3, <1>4, <1>5 DEF QuitTypes
    <3>2. took' = took
      BY <1>1
    <3>. QED  BY <1>1, <2>1, <2>3, <3>1, <3>2, QuitOthers
  <2>. QED  BY <2>2, <2>3
<1>. QED  BY <1>7, <1>8, <1>9 DEF QuitInv

LEMMA QuitStep ==
  ASSUME QuitInv, Quits!Next
  PROVE  QuitInv'
BY QuitMainKeeps, QuitRunnerKeeps, QuitWorkerKeeps DEF Quits!Next

LEMMA QuitImplies ==
  QuitInv => Quits!OwnTest /\ Quits!EndsClean
<1>1. ASSUME QuitInv
      PROVE  Quits!OwnTest
  BY <1>1 DEF QuitInv, QuitHanded, Quits!OwnTest
<1>2. ASSUME QuitInv, s_main = "ended", NEW i \in Quits!Tests,
             \A j \in Quits!Tests : ~Quits!SharesTester(i, j)
      PROVE  worker[i] = "ended" /\ (s_coder[i] = "none" \/ (~inited[took[i]] /\ error[took[i]]))
  <2>1. runner[i] = "ended" /\ QuitOwn(i)
    BY <1>2 DEF QuitInv, QuitWork, HasOwn
  <2>. QED  BY <2>1 DEF QuitOwn
<1>. QED  BY <1>1, <1>2 DEF Quits!EndsClean

------------------------------------------------------------------------------
(* The automatic tests.                                                    *)

AutoTypes ==
  /\ s_main \in {"starting", "handed", "joining", "ended"}
  /\ started \in 0..Automatic!N /\ tryIdx \in [{"decoder", "encoder"} -> Nat] /\ exiting = "ended"
  /\ runner \in [Automatic!Tests -> Runners] /\ worker \in [Automatic!Tests -> Workers]
  /\ took \in [Automatic!Tests -> Nat] /\ running \in [Automatic!Tests -> BOOLEAN]
  /\ count \in [Automatic!Tests -> 0..AutoSetup.frames]
  /\ error \in [Automatic!Tests -> BOOLEAN] /\ short \in [Automatic!Tests -> BOOLEAN]

(* As QuitHanded.                                                          *)
AutoHanded ==
  /\ s_main = "handed" => started > 0 /\ tryIdx[AutoSetup.kinds[started]] = started
  /\ \A i \in Automatic!Tests :
       /\ runner[i] = "none" => took[i] = 0
       /\ runner[i] = "new" => took[i] = 0 /\ s_main = "handed" /\ started = i
       /\ runner[i] \notin {"none", "new"} => took[i] = i
       /\ i > started /\ s_main = "starting" => runner[i] = "none"
       /\ i > started /\ s_main = "handed" => runner[i] = "none"

(* A test that is over has all its frames, or an error, or its file is too *)
(* short; bIsRunning, which its thread sets once more, keeps the worker in *)
(* its loop when it is set late and says so when it is cleared.            *)
Over(i) == count[i] = AutoSetup.frames \/ error[i] \/ short[i]

AutoWork ==
  \A i \in Automatic!Tests :
    /\ runner[i] \in {"none", "new", "setting", "creating"} => worker[i] = "none"
    /\ runner[i] = "creating" => running[i]
    /\ worker[i] \in {"opening", "initializing", "header", "coding", "counting"} => running[i]
    /\ worker[i] \in {"coding", "counting"} => count[i] < AutoSetup.frames
    /\ worker[i] = "running" /\ ~running[i] => Over(i)
    /\ worker[i] \in {"closing", "ended"} => Over(i)

AutoInv == AutoTypes /\ AutoHanded /\ AutoWork

LEMMA AutoNumbers ==
  /\ Automatic!N \in Nat /\ Automatic!Tests = 1..Automatic!N /\ AutoSetup.frames \in Nat
  /\ \A i \in Automatic!Tests : AutoSetup.kinds[i] \in {"decoder", "encoder"}
<1>1. AutoSetup.kinds \in Seq({"decoder", "encoder"}) /\ AutoSetup.frames \in Nat
  BY AutoAssumption DEF Automatic!StressConstants
<1>. QED  BY <1>1, LenProperties DEF Automatic!N, Automatic!Tests

LEMMA AutoInitInv == ASSUME Automatic!Init PROVE AutoInv
<1>1. AutoTypes
  BY AutoNumbers DEF Automatic!Init, AutoTypes, Runners, Workers
<1>2. AutoHanded /\ AutoWork
  BY AutoNumbers DEF Automatic!Init, AutoHanded, AutoWork
<1>. QED  BY <1>1, <1>2 DEF AutoInv

LEMMA AutoMainKeeps ==
  ASSUME AutoInv, Automatic!Main \/ Automatic!ReadsQ \/ Automatic!ClearsRunning
  PROVE  AutoInv'
<1>. USE DEF AutoInv
<1>0. UNCHANGED <<took, worker, running, count, error, short>>
  BY DEF Automatic!Main, Automatic!StartsTest, Automatic!Sleeps, Automatic!WaitsForExit,
         Automatic!Joins, Automatic!ReadsQ, Automatic!ClearsRunning, Automatic!work, Automatic!tester,
         AutoTypes
<1>1. CASE Automatic!StartsTest
  <2>1. /\ s_main = "starting" /\ s_main' = "handed" /\ started < Automatic!N
        /\ tryIdx' = [tryIdx EXCEPT ![AutoSetup.kinds[started + 1]] = started + 1]
        /\ started' = started + 1 /\ exiting' = exiting
        /\ runner' = [runner EXCEPT ![started + 1] = "new"]
    BY <1>1 DEF Automatic!StartsTest
  <2>2. AutoTypes'
    BY <1>0, AutoNumbers, <2>1 DEF AutoTypes, Runners
  <2>3. AutoHanded'
    BY <1>0, AutoNumbers, <2>1 DEF AutoHanded, AutoTypes
  <2>4. runner[started + 1] = "none" /\ started + 1 \in Automatic!Tests
    BY AutoNumbers, <2>1 DEF AutoHanded, AutoTypes
  <2>5. AutoWork'
    BY <1>0, <2>1, <2>4 DEF AutoWork, AutoTypes, Over
  <2>. QED  BY <2>2, <2>3, <2>5
<1>2. CASE Automatic!Sleeps
  <2>1. /\ s_main = "handed" /\ s_main' = "starting" /\ runner[started] = "ended"
        /\ UNCHANGED <<started, tryIdx, runner, exiting>>
    BY <1>2 DEF Automatic!Sleeps
  <2>2. AutoTypes' /\ AutoWork'
    BY <1>0, <2>1 DEF AutoTypes, AutoWork, Over
  <2>3. AutoHanded'
    BY <1>0, AutoNumbers, <2>1 DEF AutoHanded, AutoTypes
  <2>. QED  BY <2>2, <2>3
<1>3. CASE Automatic!WaitsForExit
  <2>1. /\ s_main = "starting" /\ s_main' = "joining" /\ started' = 0
        /\ UNCHANGED <<tryIdx, runner, exiting>>
    BY <1>3 DEF Automatic!WaitsForExit
  <2>2. AutoTypes'
    BY <1>0, AutoNumbers, <2>1 DEF AutoTypes
  <2>3. AutoHanded' /\ AutoWork'
    BY <1>0, <2>1 DEF AutoHanded, AutoWork, Over
  <2>. QED  BY <2>2, <2>3
<1>4. CASE Automatic!Joins
  <2>1. /\ s_main = "joining" /\ UNCHANGED <<tryIdx, runner, exiting>>
        /\ \/ started < Automatic!N /\ started' = started + 1 /\ s_main' = s_main
           \/ s_main' = "ended" /\ started' = started
    BY <1>4 DEF Automatic!Joins
  <2>2. AutoTypes'
    BY <1>0, AutoNumbers, <2>1 DEF AutoTypes
  <2>3. s_main' \in {"joining", "ended"}
    BY <2>1
  <2>4. AutoHanded' /\ AutoWork'
    BY <1>0, <2>1, <2>3 DEF AutoHanded, AutoWork, Over
  <2>. QED  BY <2>2, <2>4
<1>5. ~Automatic!ReadsQ /\ ~Automatic!ClearsRunning
  BY DEF Automatic!ReadsQ, Automatic!ClearsRunning, AutoTypes
<1>. QED  BY <1>1, <1>2, <1>3, <1>4, <1>5 DEF Automatic!Main

LEMMA AutoRunnerKeeps ==
  ASSUME AutoInv, NEW i \in Automatic!Tests, Automatic!Runner(i)
  PROVE  AutoInv'
<1>. USE DEF AutoInv
<1>1. UNCHANGED <<s_main, started, tryIdx, exiting, short>>
  BY DEF Automatic!Runner, Automatic!TakesIndex, Automatic!SetsTester, Automatic!CreatesWorker,
         Automatic!ArmsTester, Automatic!JoinsWorker, Automatic!control, Automatic!work,
         Automatic!tester
<1>2. CASE Automatic!TakesIndex(i)
  <2>1. /\ runner[i] = "new" /\ took' = [took EXCEPT ![i] = tryIdx[AutoSetup.kinds[i]]]
        /\ runner' = [runner EXCEPT ![i] = "setting"]
        /\ UNCHANGED <<worker, running, count, error>>
    BY <1>2 DEF Automatic!TakesIndex, Automatic!work
  <2>2. tryIdx[AutoSetup.kinds[i]] = i /\ i \in Nat
    BY AutoNumbers, <2>1 DEF AutoHanded
  <2>3. AutoTypes'
    BY <1>1, <2>1, <2>2 DEF AutoTypes, Runners
  <2>4. AutoHanded'
    BY <1>1, <2>1, <2>2 DEF AutoTypes, AutoHanded
  <2>5. AutoWork'
    BY <1>1, <2>1 DEF AutoTypes, AutoWork, Over
  <2>. QED  BY <2>3, <2>4, <2>5
<1>3. ASSUME ~Automatic!TakesIndex(i)
      PROVE  AutoInv'
  <2>0. Automatic!Tester(i) = i
    BY <1>3 DEF AutoHanded, Automatic!Tester, Automatic!Runner, Automatic!SetsTester,
                Automatic!CreatesWorker, Automatic!ArmsTester, Automatic!JoinsWorker
  <2>1. CASE Automatic!SetsTester(i)
    <3>1. /\ runner[i] = "setting" /\ runner' = [runner EXCEPT ![i] = "creating"]
          /\ running' = [running EXCEPT ![i] = TRUE] /\ count' = [count EXCEPT ![i] = 0]
          /\ error' = [error EXCEPT ![i] = FALSE] /\ UNCHANGED <<took, worker>>
      BY <2>0, <2>1 DEF Automatic!SetsTester
    <3>2. AutoTypes'
      <4>1. 0 \in 0..AutoSetup.frames
        BY AutoNumbers
      <4>. QED  BY <1>1, <3>1, <4>1 DEF AutoTypes, Runners
    <3>3. AutoHanded'
      BY <1>1, <3>1 DEF AutoTypes, AutoHanded
    <3>4. AutoWork'
      BY <1>1, <3>1 DEF AutoTypes, AutoWork, Over
    <3>. QED  BY <3>2, <3>3, <3>4
  <2>2. CASE Automatic!CreatesWorker(i)
    <3>1. /\ runner[i] = "creating" /\ runner' = [runner EXCEPT ![i] = "arming"]
          /\ worker' = [worker EXCEPT ![i] = "opening"]
          /\ UNCHANGED <<took, running, count, error>>
      BY <2>0, <2>2 DEF Automatic!CreatesWorker
    <3>2. AutoTypes' /\ AutoHanded'
      BY <1>1, <3>1 DEF AutoTypes, AutoHanded, Runners, Workers
    <3>3. AutoWork'
      BY <1>1, <3>1 DEF AutoTypes, AutoWork, Over
    <3>. QED  BY <3>2, <3>3
  <2>3. CASE Automatic!ArmsTester(i)
    <3>1. /\ runner[i] = "arming" /\ runner' = [runner EXCEPT ![i] = "joining"]
          /\ running' = [running EXCEPT ![i] = TRUE]
          /\ UNCHANGED <<took, worker, count, error>>
      BY <2>0, <2>3 DEF Automatic!ArmsTester
    <3>2. AutoTypes' /\ AutoHanded'
      BY <1>1, <3>1 DEF AutoTypes, AutoHanded, Runners
    <3>3. AutoWork'
      BY <1>1, <3>1 DEF AutoTypes, AutoWork, Over
    <3>. QED  BY <3>2, <3>3
  <2>4. CASE Automatic!JoinsWorker(i)
    <3>1. /\ runner[i] = "joining" /\ runner' = [runner EXCEPT ![i] = "ended"]
          /\ UNCHANGED <<took, worker, running, count, error>>
      BY <2>4 DEF Automatic!JoinsWorker, Automatic!work
    <3>2. AutoTypes' /\ AutoHanded'
      BY <1>1, <3>1 DEF AutoTypes, AutoHanded, Runners
    <3>3. AutoWork'
      BY <1>1, <3>1 DEF AutoTypes, AutoWork, Over
    <3>. QED  BY <3>2, <3>3
  <2>. QED  BY <1>3, <2>1, <2>2, <2>3, <2>4 DEF Automatic!Runner
<1>. QED  BY <1>2, <1>3

LEMMA AutoWorkerKeeps ==
  ASSUME AutoInv, NEW i \in Automatic!Tests, Automatic!Worker(i)
  PROVE  AutoInv'
<1>. USE DEF AutoInv
<1>1. UNCHANGED <<s_main, started, tryIdx, exiting, runner, took>>
  BY DEF Automatic!Worker, Automatic!OpensFile, Automatic!Initializes, Automatic!DoesHeader,
         Automatic!LeavesLoop, Automatic!EndsTest, Automatic!ReadsFrame, Automatic!CannotRead,
         Automatic!CodesFrame, Automatic!Counts, Automatic!Closes, Automatic!steady,
         Automatic!control
<1>2. AutoHanded'
  BY <1>1 DEF AutoHanded
<1>0. /\ worker[i] # "none" /\ took[i] = i
      /\ \A j \in Automatic!Tests : ~Automatic!SharesTester(i, j)
  <2>1. worker[i] # "none"
    BY DEF Automatic!Worker, Automatic!OpensFile, Automatic!Initializes, Automatic!DoesHeader,
           Automatic!LeavesLoop, Automatic!EndsTest, Automatic!ReadsFrame, Automatic!CannotRead,
           Automatic!CodesFrame, Automatic!Counts, Automatic!Closes, Automatic!Goes
  <2>2. took[i] = i
    BY <2>1 DEF AutoWork, AutoHanded
  <2>3. ASSUME NEW j \in Automatic!Tests
        PROVE  ~Automatic!SharesTester(i, j)
    <3>1. took[j] \in {0, j} /\ i # 0
      BY AutoNumbers DEF AutoHanded
    <3>. QED  BY <2>2, <3>1 DEF Automatic!SharesTester
  <2>. QED  BY <2>1, <2>2, <2>3
<1>3. CASE Automatic!OpensFile(i)
  <2>1. /\ worker[i] = "opening" /\ UNCHANGED <<running, count, short>>
        /\ error' = [error EXCEPT ![i] = worker'[i] = "closing"]
        /\ \/ worker' = [worker EXCEPT ![i] = "initializing"]
           \/ worker' = [worker EXCEPT ![i] = "closing"]
    BY <1>0, <1>3 DEF Automatic!OpensFile, Automatic!Goes, Automatic!Errs, Automatic!Tester
  <2>2. running[i] /\ runner[i] \notin {"none", "new", "setting", "creating"}
    BY <2>1 DEF AutoTypes, AutoWork
  <2>3. CASE worker' = [worker EXCEPT ![i] = "initializing"]
    <3>1. error' = [error EXCEPT ![i] = FALSE]
      BY <2>1, <2>3 DEF AutoTypes
    <3>2. AutoTypes'
      BY <1>1, <2>1, <2>3, <3>1 DEF AutoTypes, Workers
    <3>3. AutoWork'
      BY <1>1, <2>1, <2>2, <2>3, <3>1 DEF AutoTypes, AutoWork, Over
    <3>. QED  BY <1>2, <3>2, <3>3
  <2>4. CASE worker' = [worker EXCEPT ![i] = "closing"]
    <3>1. error' = [error EXCEPT ![i] = TRUE]
      BY <2>1, <2>4 DEF AutoTypes
    <3>2. AutoTypes'
      BY <1>1, <2>1, <2>4, <3>1 DEF AutoTypes, Workers
    <3>3. AutoWork'
      BY <1>1, <2>1, <2>2, <2>4, <3>1 DEF AutoTypes, AutoWork, Over
    <3>. QED  BY <1>2, <3>2, <3>3
  <2>. QED  BY <2>1, <2>3, <2>4
<1>4. CASE Automatic!Initializes(i)
  <2>1. /\ worker[i] = "initializing" /\ UNCHANGED <<running, count, short>>
        /\ \/ /\ worker' = [worker EXCEPT ![i] = "header"]
              /\ \E e \in BOOLEAN : error' = [error EXCEPT ![i] = e]
           \/ /\ worker' = [worker EXCEPT ![i] = "closing"]
              /\ error' = [error EXCEPT ![i] = TRUE]
    BY <1>0, <1>4 DEF Automatic!Initializes, Automatic!Goes, Automatic!Errs, Automatic!Tester
  <2>2. running[i] /\ runner[i] \notin {"none", "new", "setting", "creating"}
    BY <2>1 DEF AutoTypes, AutoWork
  <2>3. ASSUME NEW e \in BOOLEAN, error' = [error EXCEPT ![i] = e],
               worker' = [worker EXCEPT ![i] = "header"]
        PROVE  AutoInv'
    <3>1. AutoTypes'
      BY <1>1, <2>1, <2>3 DEF AutoTypes, Workers
    <3>2. AutoWork'
      BY <1>1, <2>1, <2>2, <2>3 DEF AutoTypes, AutoWork, Over
    <3>. QED  BY <1>2, <3>1, <3>2
  <2>4. CASE /\ worker' = [worker EXCEPT ![i] = "closing"]
             /\ error' = [error EXCEPT ![i] = TRUE]
    <3>1. AutoTypes'
      BY <1>1, <2>1, <2>4 DEF AutoTypes, Workers
    <3>2. AutoWork'
      BY <1>1, <2>1, <2>2, <2>4 DEF AutoTypes, AutoWork, Over
    <3>. QED  BY <1>2, <3>1, <3>2
  <2>. QED  BY <2>1, <2>3, <2>4
<1>5. CASE Automatic!DoesHeader(i)
  <2>1. /\ worker[i] = "header" /\ UNCHANGED <<running, count, short>>
        /\ error' = [error EXCEPT ![i] = worker'[i] = "closing"]
        /\ \/ worker' = [worker EXCEPT ![i] = "running"]
           \/ worker' = [worker EXCEPT ![i] = "closing"]
    BY <1>0, <1>5 DEF Automatic!DoesHeader, Automatic!Goes, Automatic!Errs, Automatic!Tester
  <2>2. running[i] /\ runner[i] \notin {"none", "new", "setting", "creating"}
    BY <2>1 DEF AutoTypes, AutoWork
  <2>3. CASE worker' = [worker EXCEPT ![i] = "running"]
    <3>1. error' = [error EXCEPT ![i] = FALSE]
      BY <2>1, <2>3 DEF AutoTypes
    <3>2. AutoTypes'
      BY <1>1, <2>1, <2>3, <3>1 DEF AutoTypes, Workers
    <3>3. AutoWork'
      BY <1>1, <2>1, <2>2, <2>3, <3>1 DEF AutoTypes, AutoWork, Over
    <3>. QED  BY <1>2, <3>2, <3>3
  <2>4. CASE worker' = [worker EXCEPT ![i] = "closing"]
    <3>1. error' = [error EXCEPT ![i] = TRUE]
      BY <2>1, <2>4 DEF AutoTypes
    <3>2. AutoTypes'
      BY <1>1, <2>1, <2>4, <3>1 DEF AutoTypes, Workers
    <3>3. AutoWork'
      BY <1>1, <2>1, <2>2, <2>4, <3>1 DEF AutoTypes, AutoWork, Over
    <3>. QED  BY <1>2, <3>2, <3>3
  <2>. QED  BY <2>1, <2>3, <2>4
<1>6. CASE Automatic!LeavesLoop(i)
  <2>1. /\ worker[i] = "running" /\ ~running[i] /\ worker' = [worker EXCEPT ![i] = "closing"]
        /\ UNCHANGED <<running, count, error, short>>
    BY <1>0, <1>6 DEF Automatic!LeavesLoop, Automatic!Goes, Automatic!Tester
  <2>3. AutoTypes'
    BY <1>1, <2>1 DEF AutoTypes, Workers
  <2>4. AutoWork'
    BY <1>1, <2>1 DEF AutoTypes, AutoWork, Over
  <2>. QED  BY <1>2, <2>3, <2>4
<1>7. CASE Automatic!EndsTest(i)
  <2>1. /\ worker[i] = "running" /\ count[i] >= AutoSetup.frames
        /\ running' = [running EXCEPT ![i] = FALSE] /\ UNCHANGED <<worker, count, error, short>>
    BY <1>0, <1>7 DEF Automatic!EndsTest, Automatic!Enough, Automatic!Tester
  <2>2. count[i] = AutoSetup.frames
    BY <2>1, AutoNumbers DEF AutoTypes
  <2>3. AutoTypes'
    BY <1>1, <2>1, <2>2 DEF AutoTypes, Workers
  <2>4. AutoWork'
    BY <1>1, <2>1, <2>2 DEF AutoTypes, AutoWork, Over
  <2>. QED  BY <1>2, <2>3, <2>4
<1>8. CASE Automatic!ReadsFrame(i)
  <2>1. /\ worker[i] = "running" /\ running[i] /\ worker' = [worker EXCEPT ![i] = "coding"]
        /\ AutoSetup.frames # -1 => ~(count[i] >= AutoSetup.frames)
        /\ UNCHANGED <<running, count, error, short>>
    BY <1>0, <1>8 DEF Automatic!ReadsFrame, Automatic!Enough, Automatic!Goes, Automatic!Tester
  <2>2. count[i] < AutoSetup.frames
    BY <2>1, AutoNumbers DEF AutoTypes
  <2>3. AutoTypes'
    BY <1>1, <2>1, <2>2 DEF AutoTypes, Workers
  <2>4. AutoWork'
    BY <1>1, <2>1, <2>2 DEF AutoTypes, AutoWork, Over
  <2>. QED  BY <1>2, <2>3, <2>4
<1>9. CASE Automatic!CannotRead(i)
  <2>1. /\ worker[i] = "running" /\ running' = [running EXCEPT ![i] = FALSE]
        /\ short' = [short EXCEPT ![i] = TRUE] /\ UNCHANGED <<worker, count, error>>
    BY <1>0, <1>9 DEF Automatic!CannotRead, Automatic!Tester
  <2>3. AutoTypes'
    BY <1>1, <2>1 DEF AutoTypes, Workers
  <2>4. AutoWork'
    BY <1>1, <2>1 DEF AutoTypes, AutoWork, Over
  <2>. QED  BY <1>2, <2>3, <2>4
<1>10. CASE Automatic!CodesFrame(i)
  <2>1. /\ worker[i] = "coding" /\ short' = short
        /\ error' = [error EXCEPT ![i] = worker'[i] = "running"]
        /\ \/ worker' = [worker EXCEPT ![i] = "counting"] /\ UNCHANGED <<running, count>>
           \/ /\ worker' = [worker EXCEPT ![i] = "running"]
              /\ running' = [running EXCEPT ![i] = FALSE]
              /\ count' = count \/ count' = [count EXCEPT ![i] = @ + 1]
    BY <1>0, <1>10 DEF Automatic!CodesFrame, Automatic!Goes, Automatic!Errs, Automatic!Tester
  <2>2. /\ count[i] < AutoSetup.frames /\ count[i] + 1 \in 0..AutoSetup.frames
        /\ runner[i] \notin {"none", "new", "setting", "creating"}
    BY <2>1, AutoNumbers DEF AutoTypes, AutoWork
  <2>3. CASE worker' = [worker EXCEPT ![i] = "counting"] /\ UNCHANGED <<running, count>>
    <3>1. error' = [error EXCEPT ![i] = FALSE]
      BY <2>1, <2>3 DEF AutoTypes
    <3>2. AutoTypes'
      BY <1>1, <2>1, <2>3, <3>1 DEF AutoTypes, Workers
    <3>3. AutoWork'
      BY <1>1, <2>1, <2>2, <2>3, <3>1 DEF AutoTypes, AutoWork, Over
    <3>. QED  BY <1>2, <3>2, <3>3
  <2>4. CASE /\ worker' = [worker EXCEPT ![i] = "running"]
             /\ running' = [running EXCEPT ![i] = FALSE]
             /\ count' = count \/ count' = [count EXCEPT ![i] = @ + 1]
    <3>1. error' = [error EXCEPT ![i] = TRUE]
      BY <2>1, <2>4 DEF AutoTypes
    <3>2. PICK n \in 0..AutoSetup.frames : count' = [count EXCEPT ![i] = n]
      <4>1. count = [count EXCEPT ![i] = count[i]] /\ count[i] \in 0..AutoSetup.frames
        BY DEF AutoTypes
      <4>2. CASE count' = count
        BY <4>1, <4>2
      <4>3. CASE count' = [count EXCEPT ![i] = @ + 1]
        BY <2>2, <4>3
      <4>. QED  BY <2>4, <4>2, <4>3
    <3>3. AutoTypes'
      BY <1>1, <2>1, <2>4, <3>1, <3>2 DEF AutoTypes, Workers
    <3>4. AutoWork'
      BY <1>1, <2>1, <2>2, <2>4, <3>1, <3>2 DEF AutoTypes, AutoWork, Over
    <3>. QED  BY <1>2, <3>3, <3>4
  <2>. QED  BY <2>1, <2>3, <2>4
<1>11. CASE Automatic!Counts(i)
  <2>1. /\ worker[i] = "counting" /\ worker' = [worker EXCEPT ![i] = "running"]
        /\ count' = IF AutoSetup.frames = -1 THEN count ELSE [count EXCEPT ![i] = @ + 1]
        /\ UNCHANGED <<running, error, short>>
    BY <1>0, <1>11 DEF Automatic!Counts, Automatic!Goes, Automatic!Tester
  <2>2. /\ count' = [count EXCEPT ![i] = count[i] + 1] /\ count[i] + 1 \in 0..AutoSetup.frames
    BY <2>1, AutoNumbers DEF AutoTypes, AutoWork
  <2>3. AutoTypes'
    BY <1>1, <2>1, <2>2 DEF AutoTypes, Workers
  <2>4. AutoWork'
    BY <1>1, <2>1, <2>2 DEF AutoTypes, AutoWork, Over
  <2>. QED  BY <1>2, <2>3, <2>4
<1>12. CASE Automatic!Closes(i)
  <2>1. /\ worker[i] = "closing" /\ worker' = [worker EXCEPT ![i] = "ended"]
        /\ UNCHANGED <<running, count, error, short>>
    BY <1>0, <1>12 DEF Automatic!Closes, Automatic!Goes, Automatic!Tester
  <2>3. AutoTypes'
    BY <1>1, <2>1 DEF AutoTypes, Workers
  <2>4. AutoWork'
    BY <1>1, <2>1 DEF AutoTypes, AutoWork, Over
  <2>. QED  BY <1>2, <2>3, <2>4
<1>. QED
  BY <1>3, <1>4, <1>5, <1>6, <1>7, <1>8, <1>9, <1>10, <1>11, <1>12 DEF Automatic!Worker

LEMMA AutoStep == ASSUME AutoInv, Automatic!Next PROVE AutoInv'
BY AutoMainKeeps, AutoRunnerKeeps, AutoWorkerKeeps DEF Automatic!Next

LEMMA AutoImplies == AutoInv => Automatic!CompleteTests
BY DEF AutoInv, AutoWork, Over, Automatic!CompleteTests

------------------------------------------------------------------------------
(* The VPU test application.                                               *)

VpuConfig ==
  [codec : VpuSetup.codecs \union {"none"}, numDecIterations : Nat, stopCount : Nat]

(* How far f has come.                                                     *)
Given(f) == IF f = <<>> THEN 0 ELSE f[Len(f)][2]

Consecutive(f) == \A i \in DOMAIN f : f[i][1] = IF i = 1 THEN 1 ELSE f[i - 1][2] + 1

LEMMA GoesOnConsecutively ==
  ASSUME NEW S, NEW f \in Seq(S), Consecutive(f), NEW to
  PROVE  LET g == Append(f, <<Given(f) + 1, to>>)
         IN Consecutive(g) /\ Given(g) = to /\ \E T : g \in Seq(T)
<1>. DEFINE e == <<Given(f) + 1, to>>
            g == Append(f, e)
            T == S \union {e}
<1>1. f \in Seq(T) /\ e \in T
  BY SeqDef
<1>2. /\ g \in Seq(T) /\ Len(g) = Len(f) + 1 /\ Len(f) \in Nat /\ g[Len(f) + 1] = e
      /\ \A i \in 1..Len(f) : g[i] = f[i]
  BY <1>1, AppendProperties, LenProperties
<1>3. DOMAIN g = 1..(Len(f) + 1) /\ DOMAIN f = 1..Len(f)
  BY <1>1, <1>2, LenProperties
<1>4. Given(g) = to
  BY <1>2, <1>3, EmptySeq DEF Given
<1>5. ASSUME NEW i \in DOMAIN g
      PROVE  g[i][1] = IF i = 1 THEN 1 ELSE g[i - 1][2] + 1
  <2>1. CASE i \in 1..Len(f)
    <3>1. i = 1 \/ i - 1 \in 1..Len(f)
      BY <2>1, <1>2
    <3>. QED  BY <1>2, <1>3, <2>1, <3>1 DEF Consecutive
  <2>2. CASE i = Len(f) + 1
    <3>1. CASE f = <<>>
      BY <1>2, <2>2, <3>1 DEF Given
    <3>2. CASE f # <<>>
      <4>1. Len(f) \in 1..Len(f) /\ i # 1 /\ i - 1 = Len(f)
        BY <1>2, <2>2, <3>2, EmptySeq
      <4>. QED  BY <1>2, <2>2, <3>2, <4>1 DEF Given
    <3>. QED  BY <3>1, <3>2
  <2>. QED  BY <1>2, <1>3, <2>1, <2>2
<1>6. Consecutive(g)
  BY <1>5 DEF Consecutive
<1>. QED  BY <1>2, <1>4, <1>6

VpuTypes ==
  /\ config \in [Vpu!Tests -> VpuConfig]
  /\ DOMAIN thread = Vpu!Tests /\ DOMAIN pos = Vpu!Tests /\ DOMAIN v_fed = Vpu!Tests

(* What a decoder has been given ends where it reads on, unless it has     *)
(* come to the end of its file; while main creates tests none is at work.  *)
VpuFed ==
  \A w \in Vpu!Decoders :
    /\ \E S : v_fed[w] \in Seq(S)
    /\ Consecutive(v_fed[w])
    /\ pos[w] = Vpu!FileLength(config[w].codec) \/ pos[w] = Given(v_fed[w])
    /\ v_main = "creating" => thread[w] = "none" /\ pos[w] = 0 /\ v_fed[w] = <<>>

VpuInv == VpuTypes /\ VpuFed

LEMMA VpuNumbers ==
  /\ \A w \in Vpu!Decoders : w \in Vpu!Tests
  /\ \A c : Vpu!FileLength(c) \in Nat
  /\ VpuSetup.iterations \subseteq Nat /\ VpuSetup.stops \subseteq Nat
<1>1. VpuSetup.pictures \in Nat
  BY VpuAssumption DEF Vpu!VpuTestConstants
<1>2. ASSUME NEW c
      PROVE  Vpu!FileLength(c) \in Nat
  <2>1. Vpu!Headers(c) \in {0, 1, 2}
    BY DEF Vpu!Headers
  <2>. QED  BY <1>1, <2>1 DEF Vpu!FileLength
<1>3. VpuSetup.iterations \subseteq Nat /\ VpuSetup.stops \subseteq Nat
  BY VpuAssumption DEF Vpu!VpuTestConstants
<1>4. \A w \in Vpu!Decoders : w \in Vpu!Tests
  BY DEF Vpu!Decoders
<1>. QED  BY <1>2, <1>3, <1>4

LEMMA VpuInitInv == ASSUME Vpu!Init PROVE VpuInv
<1>0. Vpu!NoConfig \in VpuConfig
  BY DEF Vpu!NoConfig, VpuConfig
<1>1. VpuTypes
  BY <1>0 DEF Vpu!Init, VpuTypes
<1>2. ASSUME NEW w \in Vpu!Decoders
      PROVE  v_fed[w] = <<>> /\ pos[w] = 0 /\ thread[w] = "none"
  BY VpuNumbers DEF Vpu!Init
<1>3. <<>> \in Seq({}) /\ Consecutive(<<>>) /\ Given(<<>>) = 0
  BY DEF Consecutive, Given
<1>4. VpuFed
  BY <1>2, <1>3 DEF VpuFed
<1>. QED  BY <1>1, <1>4 DEF VpuInv

LEMMA VpuMainKeeps ==
  ASSUME VpuInv, Vpu!Main \/ Vpu!Quit
  PROVE  VpuInv'
<1>. USE DEF VpuInv
<1>1. UNCHANGED <<pos, v_fed>>
  BY DEF Vpu!Main, Vpu!Quit, Vpu!Test_Create, Vpu!Test_Start, Vpu!Test_Stop, Vpu!Test_Join,
         Vpu!Test_Destroy, Vpu!workvars
<1>2. CASE Vpu!Test_Create
  <2>1. /\ v_main = "creating" /\ UNCHANGED thread
        /\ \/ config' = config
           \/ \E c \in Vpu!Configs(v_next) : config' = [config EXCEPT ![v_next] = c]
    BY <1>2 DEF Vpu!Test_Create
  <2>2. ASSUME NEW c \in Vpu!Configs(v_next)
        PROVE  c \in VpuConfig
    <3>1. CASE v_next \in Vpu!Decoders
      BY <2>2, <3>1, VpuNumbers DEF Vpu!Configs, VpuConfig
    <3>2. CASE v_next \notin Vpu!Decoders
      BY <2>2, <3>2 DEF Vpu!Configs, VpuConfig
    <3>. QED  BY <3>1, <3>2
  <2>3. VpuTypes'
    BY <1>1, <2>1, <2>2 DEF VpuTypes
  <2>4. Given(<<>>) = 0
    BY DEF Given
  <2>5. VpuFed'
    BY <1>1, <2>1, <2>4 DEF VpuFed
  <2>. QED  BY <2>3, <2>5
<1>3. CASE ~Vpu!Test_Create
  <2>1. /\ v_main # "creating" /\ v_main' # "creating" /\ config' = config
        /\ thread' = thread \/ thread' = [thread EXCEPT ![v_next] = "opening"]
    BY <1>3 DEF Vpu!Main, Vpu!Quit, Vpu!Test_Start, Vpu!Test_Stop, Vpu!Test_Join,
                Vpu!Test_Destroy, Vpu!workvars, Vpu!GoOn
  <2>. QED  BY <1>1, <2>1 DEF VpuTypes, VpuFed
<1>. QED  BY <1>2, <1>3

LEMMA VpuThreadKeeps ==
  ASSUME VpuInv, NEW w \in Vpu!Tests, Vpu!Thread(w)
  PROVE  VpuInv'
<1>. USE DEF VpuInv
<1>1. v_main' = v_main /\ thread[w] # "none"
  BY DEF Vpu!Thread, Vpu!Decoder_Open, Vpu!Decoder_Frame, Vpu!Decoder_Finish, Vpu!Encoder_Open,
         Vpu!Encoder_Frame, Vpu!Encoder_Finish, Vpu!Coder_Stop, Vpu!Coder_Close, Vpu!mainvars
<1>2. DOMAIN thread' = Vpu!Tests
  BY DEF Vpu!Thread, Vpu!Decoder_Open, Vpu!Decoder_Frame, Vpu!Decoder_Finish, Vpu!Encoder_Open,
         Vpu!Encoder_Frame, Vpu!Encoder_Finish, Vpu!Coder_Stop, Vpu!Coder_Close, VpuTypes,
         Vpu!DecoderFailures, Vpu!Decoder_Fails, Vpu!Encoder_Fails
<1>3. \A v \in Vpu!Decoders \ {w} : thread'[v] = thread[v]
  BY VpuNumbers DEF Vpu!Thread, Vpu!Decoder_Open, Vpu!Decoder_Frame, Vpu!Decoder_Finish,
     Vpu!Encoder_Open, Vpu!Encoder_Frame, Vpu!Encoder_Finish, Vpu!Coder_Stop, Vpu!Coder_Close,
     VpuTypes, Vpu!DecoderFailures, Vpu!Decoder_Fails, Vpu!Encoder_Fails
<1>4. v_main = "creating" => w \notin Vpu!Decoders
  BY <1>1 DEF VpuFed
<1>5. CASE Vpu!Decoder_Open(w)
  <2>1. /\ w \in Vpu!Decoders
        /\ pos' = [pos EXCEPT ![w] = 0] /\ v_fed' = [v_fed EXCEPT ![w] = <<>>]
        /\ config' = config \/ config' = [config EXCEPT ![w].numDecIterations = 0]
    BY <1>5 DEF Vpu!Decoder_Open, Vpu!DecoderFailures
  <2>2. /\ config' \in [Vpu!Tests -> VpuConfig]
        /\ \A v \in Vpu!Tests : config'[v].codec = config[v].codec
    <3>1. CASE config' = config
      BY <3>1 DEF VpuTypes
    <3>2. CASE config' = [config EXCEPT ![w].numDecIterations = 0]
      <4>1. config[w] \in VpuConfig
        BY DEF VpuTypes
      <4>. DEFINE c == [config[w] EXCEPT !.numDecIterations = 0]
      <4>2. c \in VpuConfig /\ c.codec = config[w].codec
        BY <4>1 DEF VpuConfig
      <4>3. config' = [config EXCEPT ![w] = c]
        BY <3>2
      <4>. HIDE DEF c
      <4>. QED  BY <4>2, <4>3 DEF VpuTypes
    <3>. QED  BY <2>1, <3>1, <3>2
  <2>3. VpuTypes'
    BY <1>2, <2>1, <2>2 DEF VpuTypes
  <2>4. <<>> \in Seq({}) /\ Consecutive(<<>>) /\ Given(<<>>) = 0
    BY DEF Consecutive, Given
  <2>5. VpuFed'
    BY <1>1, <1>3, <1>4, <2>1, <2>2, <2>4, VpuNumbers DEF VpuTypes, VpuFed
  <2>. QED  BY <2>3, <2>5
<1>6. CASE Vpu!Decoder_Frame(w)
  <2>. DEFINE c == config[w].codec
              cut == Vpu!parse_video_frame(c, pos[w], found[w])
  <2>1. /\ w \in Vpu!Decoders /\ config' = config
        /\ pos' = [pos EXCEPT ![w] = cut.next]
        /\ v_fed' = IF cut.to = Vpu!FileLength(c) THEN v_fed
                    ELSE [v_fed EXCEPT ![w] = Append(@, <<pos[w] + 1, cut.to>>)]
    BY <1>6 DEF Vpu!Decoder_Frame, Vpu!mainvars
  <2>2. /\ cut.next = cut.to
        /\ pos[w] = Vpu!FileLength(c) => cut.to = Vpu!FileLength(c)
    <3>1. \/ Vpu!StartCodes(c, pos[w]) = {} /\ cut = Vpu!EndOfFile(c, found[w])
          \/ /\ Vpu!StartCodes(c, pos[w]) # {}
             /\ \/ cut = Vpu!EndOfFile(c, TRUE)
                \/ \E i, known : cut = Vpu!Cut(i, known)
      BY DEF Vpu!parse_video_frame
    <3>2. pos[w] = Vpu!FileLength(c) => Vpu!StartCodes(c, pos[w]) = {}
      BY VpuNumbers DEF Vpu!StartCodes
    <3>3. \/ cut.to = Vpu!FileLength(c) /\ cut.next = Vpu!FileLength(c)
          \/ Vpu!StartCodes(c, pos[w]) # {} /\ \E i : cut.to = i - 1 /\ cut.next = i - 1
      <4>. HIDE DEF cut, c
      <4>1. \A known : /\ Vpu!EndOfFile(c, known).to = Vpu!FileLength(c)
                       /\ Vpu!EndOfFile(c, known).next = Vpu!FileLength(c)
        BY DEF Vpu!EndOfFile
      <4>2. \A i, known : Vpu!Cut(i, known).to = i - 1 /\ Vpu!Cut(i, known).next = i - 1
        BY DEF Vpu!Cut
      <4>. QED  BY <3>1, <4>1, <4>2
    <3>. HIDE DEF cut, c
    <3>. QED  BY <3>2, <3>3
  <2>3. VpuTypes'
    BY <1>2, <2>1 DEF VpuTypes
  <2>4. /\ \E S : v_fed'[w] \in Seq(S)
        /\ Consecutive(v_fed'[w])
        /\ pos'[w] = Vpu!FileLength(c) \/ pos'[w] = Given(v_fed'[w])
    <3>1. pos'[w] = cut.to
      BY <2>1, <2>2 DEF VpuTypes
    <3>2. CASE cut.to = Vpu!FileLength(c)
      BY <2>1, <3>1, <3>2 DEF VpuFed
    <3>3. CASE cut.to # Vpu!FileLength(c)
      <4>1. v_fed'[w] = Append(v_fed[w], <<Given(v_fed[w]) + 1, cut.to>>)
        BY <2>1, <2>2, <3>3 DEF VpuTypes, VpuFed
      <4>2. PICK S : v_fed[w] \in Seq(S)
        BY <2>1 DEF VpuFed
      <4>3. Consecutive(v_fed[w])
        BY <2>1 DEF VpuFed
      <4>. HIDE DEF cut
      <4>. QED  BY <3>1, <4>1, <4>2, <4>3, GoesOnConsecutively
    <3>. QED  BY <3>2, <3>3
  <2>5. \A v \in Vpu!Decoders \ {w} : pos'[v] = pos[v] /\ v_fed'[v] = v_fed[v]
    BY <2>1, VpuNumbers DEF VpuTypes
  <2>6. VpuFed'
    BY <1>1, <1>3, <1>4, <2>1, <2>4, <2>5 DEF VpuFed
  <2>. QED  BY <2>3, <2>6
<1>7. CASE Vpu!Encoder_Frame(w)
  <2>1. /\ w \notin Vpu!Decoders /\ UNCHANGED <<config, v_fed>>
        /\ pos' = pos \/ pos' = [pos EXCEPT ![w] = @ + 1]
    BY <1>7 DEF Vpu!Encoder_Frame, Vpu!mainvars, Vpu!Encoders
  <2>2. VpuTypes'
    BY <1>2, <2>1 DEF VpuTypes
  <2>3. VpuFed'
    BY <1>1, <1>3, <2>1, VpuNumbers DEF VpuTypes, VpuFed
  <2>. QED  BY <2>2, <2>3
<1>8. CASE \/ Vpu!Decoder_Finish(w) \/ Vpu!Encoder_Open(w) \/ Vpu!Encoder_Finish(w)
           \/ Vpu!Coder_Stop(w) \/ Vpu!Coder_Close(w)
  <2>1. UNCHANGED <<config, pos, v_fed>>
    BY <1>8 DEF Vpu!Decoder_Finish, Vpu!Encoder_Open, Vpu!Encoder_Finish, Vpu!Coder_Stop,
                Vpu!Coder_Close, Vpu!mainvars
  <2>. QED  BY <1>1, <1>2, <1>3, <1>4, <2>1 DEF VpuTypes, VpuFed
<1>. QED  BY <1>5, <1>6, <1>7, <1>8 DEF Vpu!Thread

LEMMA VpuStep == ASSUME VpuInv, Vpu!Next PROVE VpuInv'
BY VpuMainKeeps, VpuThreadKeeps DEF Vpu!Next

LEMMA VpuImplies == VpuInv => Vpu!FedInOrder
BY DEF VpuInv, VpuFed, Consecutive, Vpu!FedInOrder
------------------------------------------------------------------------------
(* Its failures: what a thread has given back when it ends, and the        *)
(* contexts the threads work on.                                           *)

(* An encoder whose Init, header or picture failed is not closed, and a    *)
(* decoder without memory for its stream neither (vpu_test_encoder.c:552,  *)
(* vpu_test_decoder.c:529).                                                *)
VpuDecoderCovered ==
  /\ "memory" \notin VpuDecoderSetup.faults
  /\ VpuDecoderSetup.faults \intersect {"init", "header", "encode"} # {} =>
       \A w \in VpuDecoder!Tests : VpuDecoderSetup.kinds[w] = "decoder"

ReleaseInv ==
  /\ DOMAIN thread = VpuDecoder!Tests /\ DOMAIN v_files = VpuDecoder!Tests
  /\ DOMAIN v_coder = VpuDecoder!Tests /\ DOMAIN memory = VpuDecoder!Tests
  /\ v_main = "creating" => \A w \in VpuDecoder!Tests : thread[w] = "none"
  /\ VpuDecoderCovered => \A w \in VpuDecoder!Tests :
       /\ thread[w] = "finishing" => v_coder[w] = "none"
       /\ thread[w] = "ended" => ~v_files[w] /\ v_coder[w] = "none" /\ memory[w] = "null"

LEMMA ReleaseInitInv == ASSUME VpuDecoder!Init PROVE ReleaseInv
BY DEF VpuDecoder!Init, ReleaseInv

LEMMA ReleaseStep == ASSUME ReleaseInv, VpuDecoder!Next PROVE ReleaseInv'
<1>. USE DEF ReleaseInv
<1>1. CASE VpuDecoder!Main \/ VpuDecoder!Quit
  <2>1. CASE VpuDecoder!Test_Create
    <3>1. /\ v_main = "creating" /\ UNCHANGED <<thread, v_files, v_coder>>
          /\ memory' = memory
               \/ \E m : memory' = [memory EXCEPT ![v_next] = m]
      BY <2>1 DEF VpuDecoder!Test_Create
    <3>. QED  BY <3>1
  <2>2. CASE ~VpuDecoder!Test_Create
    <3>1. /\ UNCHANGED <<v_files, v_coder, memory>> /\ v_main' # "creating"
          /\ thread' = thread \/ thread' = [thread EXCEPT ![v_next] = "opening"]
      BY <1>1, <2>2 DEF VpuDecoder!Main, VpuDecoder!Quit, VpuDecoder!Test_Start,
           VpuDecoder!Test_Stop, VpuDecoder!Test_Join, VpuDecoder!Test_Destroy,
           VpuDecoder!workvars, VpuDecoder!GoOn
    <3>. QED  BY <3>1
  <2>. QED  BY <2>1, <2>2
<1>2. ASSUME NEW w \in VpuDecoder!Tests, VpuDecoder!Thread(w)
      PROVE  ReleaseInv'
  <2>1. v_main' = v_main /\ thread[w] \notin {"none", "ended"}
    BY <1>2 DEF VpuDecoder!Thread, VpuDecoder!Decoder_Open, VpuDecoder!Decoder_Frame,
         VpuDecoder!Decoder_Finish, VpuDecoder!Encoder_Open, VpuDecoder!Encoder_Frame,
         VpuDecoder!Encoder_Finish, VpuDecoder!Coder_Stop, VpuDecoder!Coder_Close,
         VpuDecoder!mainvars
  <2>2. CASE VpuDecoder!Decoder_Open(w)
    <3>1. /\ v_files' = [v_files EXCEPT ![w] = TRUE]
          /\ memory' = memory \/ memory' = [memory EXCEPT ![w] = "mapped"]
          /\ \E t, c : /\ thread' = [thread EXCEPT ![w] = t] /\ t # "ended"
                       /\ v_coder' = [v_coder EXCEPT ![w] = c]
                       /\ VpuDecoderCovered /\ t = "finishing" => c = "none"
      BY <2>2 DEF VpuDecoder!Decoder_Open, VpuDecoder!DecoderFailures,
                  VpuDecoder!Decoder_Fails, VpuDecoderCovered
    <3>. QED  BY <2>1, <3>1
  <2>3. CASE VpuDecoder!Encoder_Open(w)
    <3>1. /\ v_files' = [v_files EXCEPT ![w] = TRUE]
          /\ \E m : memory' = [memory EXCEPT ![w] = m]
          /\ \E t, c : /\ thread' = [thread EXCEPT ![w] = t] /\ t # "ended"
                       /\ v_coder' = [v_coder EXCEPT ![w] = c]
                       /\ VpuDecoderCovered /\ t = "finishing" => c = "none"
      BY <2>3 DEF VpuDecoder!Encoder_Open, VpuDecoder!Encoder_Fails, VpuDecoder!Encoders,
                  VpuDecoder!Decoders, VpuDecoderCovered
    <3>. QED  BY <2>1, <3>1
  <2>4. CASE VpuDecoder!Decoder_Frame(w)
    <3>1. UNCHANGED <<thread, v_coder, v_files, memory>>
      BY <2>4 DEF VpuDecoder!Decoder_Frame
    <3>. QED  BY <2>1, <3>1
  <2>5. CASE VpuDecoder!Encoder_Frame(w)
    <3>1. /\ UNCHANGED <<v_coder, v_files, memory>>
          /\ \/ thread' = thread
             \/ thread' = [thread EXCEPT ![w] = "failing"]
             \/ thread' = [thread EXCEPT ![w] = "finishing"] /\ ~VpuDecoderCovered
      BY <2>5 DEF VpuDecoder!Encoder_Frame, VpuDecoder!Encoders, VpuDecoder!Decoders,
                  VpuDecoderCovered
    <3>. QED  BY <2>1, <3>1
  <2>6. CASE VpuDecoder!Decoder_Finish(w) \/ VpuDecoder!Encoder_Finish(w)
    <3>1. /\ thread[w] = "finishing" /\ v_coder' = v_coder
          /\ v_files' = [v_files EXCEPT ![w] = FALSE] /\ memory' = [memory EXCEPT ![w] = "null"]
          /\ \/ thread' = [thread EXCEPT ![w] = "opening"]
             \/ thread' = [thread EXCEPT ![w] = "ended"]
      BY <2>6 DEF VpuDecoder!Decoder_Finish, VpuDecoder!Encoder_Finish
    <3>. QED  BY <2>1, <3>1
  <2>7. CASE VpuDecoder!Coder_Close(w)
    <3>1. /\ v_coder' = [v_coder EXCEPT ![w] = "none"]
          /\ thread' = [thread EXCEPT ![w] = "finishing"] /\ UNCHANGED <<v_files, memory>>
      BY <2>7 DEF VpuDecoder!Coder_Close
    <3>. QED  BY <2>1, <3>1
  <2>8. CASE VpuDecoder!Coder_Stop(w)
    <3>1. /\ thread' = [thread EXCEPT ![w] = "failing"] /\ UNCHANGED <<v_coder, v_files, memory>>
      BY <2>8 DEF VpuDecoder!Coder_Stop
    <3>. QED  BY <2>1, <3>1
  <2>. QED
    BY <1>2, <2>2, <2>3, <2>4, <2>5, <2>6, <2>7, <2>8 DEF VpuDecoder!Thread
<1>. QED  BY <1>1, <1>2 DEF VpuDecoder!Next

LEMMA ReleaseImplies == ReleaseInv /\ VpuDecoderCovered => VpuDecoder!Released
BY DEF ReleaseInv, VpuDecoder!Released

(* A thread is started on a context that is there, main frees contexts     *)
(* when it has joined every thread, and a thread that has ended stays so.  *)
Phases == {"creating", "starting", "waiting", "stopping", "joining", "destroying", "ended",
           "crashed"}
Joined(w) == \E j \in Int : 1 <= j /\ j < v_next /\ w = VpuFaults!Nth(j)
All(w) == \E j \in Int : 1 <= j /\ j <= VpuFaults!N /\ w = VpuFaults!Nth(j)

ContextInv ==
  /\ v_main \in Phases /\ v_next \in 1..VpuFaults!N
  /\ ctx \in [VpuFaults!Tests -> {"none", "allocated", "freed"}]
  /\ DOMAIN thread = VpuFaults!Tests /\ (v_main = "waiting" => v_next = 1)
  /\ \A w \in VpuFaults!Tests :
       /\ v_main = "creating" => thread[w] = "none"
       /\ v_main \in {"creating", "starting"} => ctx[w] # "freed"
       /\ thread[w] \notin {"none", "ended"} => ctx[w] = "allocated"
       /\ v_main \in {"stopping", "joining"} /\ Joined(w) => thread[w] = "ended"
       /\ v_main \in {"destroying", "ended"} /\ All(w) => thread[w] = "ended"

LEMMA ContextNumbers == VpuFaults!N \in Nat \ {0}
BY VpuFaultsAssumption, LenProperties DEF VpuFaults!VpuTestConstants, VpuFaults!N

LEMMA ContextInitInv == ASSUME VpuFaults!Init PROVE ContextInv
BY ContextNumbers DEF VpuFaults!Init, ContextInv, Phases

LEMMA ContextMainKeeps ==
  ASSUME ContextInv, VpuFaults!Main \/ VpuFaults!Quit
  PROVE  ContextInv'
<1>. USE ContextNumbers DEF ContextInv, Phases
<1>1. CASE VpuFaults!Test_Create
  <2>1. /\ v_main = "creating" /\ thread' = thread
        /\ ctx' = ctx \/ ctx' = [ctx EXCEPT ![v_next] = "allocated"]
        /\ \/ v_next = VpuFaults!N /\ v_main' = "starting" /\ v_next' = 1
           \/ v_next # VpuFaults!N /\ v_main' = v_main /\ v_next' = v_next + 1
    BY <1>1 DEF VpuFaults!Test_Create, VpuFaults!GoOn
  <2>. QED  BY <2>1
<1>2. CASE VpuFaults!Test_Start
  <2>1. /\ v_main = "starting" /\ ctx' = ctx
        /\ \/ v_main' = "crashed" /\ v_next' = v_next /\ thread' = thread
           \/ /\ ctx[v_next] # "none"
              /\ thread' = [thread EXCEPT ![v_next] = "opening"]
              /\ \/ v_next = VpuFaults!N /\ v_main' = "waiting" /\ v_next' = 1
                 \/ v_next # VpuFaults!N /\ v_main' = v_main /\ v_next' = v_next + 1
    BY <1>2 DEF VpuFaults!Test_Start, VpuFaults!GoOn
  <2>. QED  BY <2>1
<1>3. CASE VpuFaults!Quit
  <2>1. /\ v_main = "waiting" /\ v_main' = "stopping" /\ UNCHANGED <<v_next, ctx, thread>>
    BY <1>3 DEF VpuFaults!Quit, VpuFaults!workvars
  <2>. QED  BY <2>1 DEF Joined
<1>4. CASE VpuFaults!Test_Stop
  <2>1. /\ v_main = "stopping" /\ v_main' = "joining" /\ UNCHANGED <<v_next, ctx, thread>>
    BY <1>4 DEF VpuFaults!Test_Stop, VpuFaults!workvars
  <2>. QED  BY <2>1 DEF Joined
<1>5. CASE VpuFaults!Test_Join
  <2>1. /\ v_main = "joining" /\ thread[VpuFaults!Nth(v_next)] = "ended"
        /\ UNCHANGED <<ctx, thread>>
        /\ \/ v_next = VpuFaults!N /\ v_main' = "destroying" /\ v_next' = 1
           \/ v_next # VpuFaults!N /\ v_main' = "stopping" /\ v_next' = v_next + 1
    BY <1>5 DEF VpuFaults!Test_Join, VpuFaults!workvars
  <2>2. ASSUME NEW w, \E j \in Int : 1 <= j /\ j <= v_next /\ w = VpuFaults!Nth(j)
        PROVE  Joined(w) \/ w = VpuFaults!Nth(v_next)
    <3>1. PICK j \in Int : 1 <= j /\ j <= v_next /\ w = VpuFaults!Nth(j)
      BY <2>2
    <3>2. j = v_next \/ j < v_next
      BY <3>1
    <3>. QED  BY <3>1, <3>2 DEF Joined
  <2>3. CASE v_next = VpuFaults!N
    BY <2>1, <2>2, <2>3 DEF All
  <2>4. CASE v_next # VpuFaults!N
    <3>1. ASSUME NEW w \in VpuFaults!Tests, Joined(w)'
          PROVE  thread[w] = "ended"
      <4>1. \E j \in Int : 1 <= j /\ j <= v_next /\ w = VpuFaults!Nth(j)
        BY <2>1, <2>4, <3>1 DEF Joined
      <4>. QED  BY <2>1, <2>2, <4>1
    <3>. QED  BY <2>1, <2>4, <3>1
  <2>. QED  BY <2>3, <2>4
<1>6. CASE VpuFaults!Test_Destroy
  <2>1. /\ v_main = "destroying" /\ thread' = thread
        /\ ctx' = [ctx EXCEPT ![VpuFaults!Nth(v_next)] = "freed"]
        /\ \/ v_next = VpuFaults!N /\ v_main' = "ended" /\ v_next' = 1
           \/ v_next # VpuFaults!N /\ v_main' = v_main /\ v_next' = v_next + 1
    BY <1>6 DEF VpuFaults!Test_Destroy, VpuFaults!workvars, VpuFaults!GoOn
  <2>2. All(VpuFaults!Nth(v_next))
    BY DEF All
  <2>3. ASSUME NEW w \in VpuFaults!Tests
        PROVE  /\ thread[w] \notin {"none", "ended"} => ctx'[w] = "allocated"
               /\ All(w)' => thread[w] = "ended"
    <3>1. All(w) => thread[w] = "ended"
      BY <2>1
    <3>. QED  BY <2>1, <2>2, <3>1 DEF All
  <2>4. ctx' \in [VpuFaults!Tests -> {"none", "allocated", "freed"}]
    BY <2>1
  <2>5. v_main' \in {"destroying", "ended"} /\ v_next' \in 1..VpuFaults!N
    BY <2>1
  <2>. QED  BY <2>1, <2>3, <2>4, <2>5
<1>. QED  BY <1>1, <1>2, <1>3, <1>4, <1>5, <1>6 DEF VpuFaults!Main

LEMMA ContextThreadKeeps ==
  ASSUME ContextInv, NEW w \in VpuFaults!Tests, VpuFaults!Thread(w)
  PROVE  ContextInv'
<1>1. UNCHANGED <<v_main, v_next, ctx>> /\ thread[w] \notin {"none", "ended"}
  BY DEF VpuFaults!Thread, VpuFaults!Decoder_Open, VpuFaults!Decoder_Frame,
     VpuFaults!Decoder_Finish, VpuFaults!Encoder_Open, VpuFaults!Encoder_Frame,
     VpuFaults!Encoder_Finish, VpuFaults!Coder_Stop, VpuFaults!Coder_Close, VpuFaults!mainvars
<1>2. thread' = thread \/ \E t : thread' = [thread EXCEPT ![w] = t]
  BY DEF VpuFaults!Thread, VpuFaults!Decoder_Open, VpuFaults!Decoder_Frame,
     VpuFaults!Decoder_Finish, VpuFaults!Encoder_Open, VpuFaults!Encoder_Frame,
     VpuFaults!Encoder_Finish, VpuFaults!Coder_Stop, VpuFaults!Coder_Close,
     VpuFaults!DecoderFailures, VpuFaults!Decoder_Fails, VpuFaults!Encoder_Fails
<1>. QED  BY <1>1, <1>2 DEF ContextInv, Joined, All

LEMMA ContextStep == ASSUME ContextInv, VpuFaults!Next PROVE ContextInv'
BY ContextMainKeeps, ContextThreadKeeps DEF VpuFaults!Next

LEMMA ContextImplies == ContextInv => VpuFaults!ContextHeld
BY DEF ContextInv, VpuFaults!ContextHeld
------------------------------------------------------------------------------
(* The audio decoder.                                                      *)

AudioPlugin ==
  [open : BOOLEAN, decoder : BOOLEAN, data : BOOLEAN, pucStream : Seq(Nat),
   uiOffset : Nat, uiStreamLen : Nat]

Pending(p) == SubSeq(p.pucStream, p.uiOffset + 1, p.uiOffset + p.uiStreamLen)

Counting(from, n) == [i \in 1..n |-> from + i]

AudioTypes ==
  /\ given \in Nat /\ start \in Nat /\ start <= given
  /\ decoded \in Seq(Nat) /\ (\E S : a_frames \in Seq(S))
  /\ plugin \in AudioPlugin
  /\ plugin.uiOffset + plugin.uiStreamLen <= Len(plugin.pucStream)

(* What is decoded and what waits in the plugin are the stream since it    *)
(* was dropped, and what is heard are its frames.                          *)
AudioStream ==
  /\ a_handle = "created" =>
       /\ plugin.uiStreamLen = 0 /\ given = start
       /\ decoded = <<>> /\ a_frames = <<>> /\ heard = <<>>
  /\ a_handle = "working" =>
       /\ ret = "decoding_fail" => plugin.uiStreamLen = 0
       /\ decoded \o Pending(plugin) = Counting(start, given - start)
       /\ heard = IF channels = 2 THEN a_frames ELSE <<>>

(* The other codecs' Deinit leaves codec data (decoder_plugin_mp3.c:292).  *)
AudioCovered == AudioSetup.withData \subseteq {"aac"}

(* What a handle has allocated, by where it is in its life.                *)
AudioLife ==
  /\ plugin.data => eCodec \in AudioSetup.withData
  /\ a_handle = "created" => ptPluginDesc = "null"
  /\ a_handle = "working" => ptPluginDesc = "loaded"
  /\ a_handle \in {"created", "failed"} /\ ptPluginDesc = "null" => Audio!Left(plugin) = {}
  /\ AudioCovered /\ a_handle = "deinited" => Audio!Left(plugin) = {}
  /\ AudioCovered => Audio!NothingLeft

AudioInv == AudioTypes /\ AudioStream /\ AudioLife

LEMMA NoPluginEmpty ==
  /\ Audio!NoPlugin \in AudioPlugin
  /\ Audio!NoPlugin.uiOffset = 0 /\ Audio!NoPlugin.uiStreamLen = 0
  /\ Audio!NoPlugin.pucStream = <<>> /\ Audio!NoPlugin.data = FALSE
  /\ Audio!Left(Audio!NoPlugin) = {}
BY EmptySeq DEF Audio!NoPlugin, AudioPlugin, Audio!Left

LEMMA CountingIsSeq ==
  ASSUME NEW from \in Nat, NEW n \in Nat
  PROVE  /\ Counting(from, n) \in Seq(Nat) /\ Len(Counting(from, n)) = n
         /\ \A i \in 1..n : Counting(from, n)[i] = from + i
<1>1. Counting(from, n) \in [1..n -> Nat]
  BY DEF Counting
<1>2. Counting(from, n) \in Seq(Nat)
  BY <1>1, SeqDef
<1>3. Len(Counting(from, n)) = n
  BY <1>1, <1>2, LenProperties
<1>. QED  BY <1>2, <1>3 DEF Counting

LEMMA CountingOn ==
  ASSUME NEW from \in Nat, NEW m \in Nat, NEW n \in Nat
  PROVE  Counting(from, m) \o Counting(from + m, n) = Counting(from, m + n)
<1>. DEFINE s == Counting(from, m)
            t == Counting(from + m, n)
            u == Counting(from, m + n)
<1>s. s \in Seq(Nat) /\ Len(s) = m /\ \A i \in 1..m : s[i] = from + i
  BY CountingIsSeq
<1>t. t \in Seq(Nat) /\ Len(t) = n /\ \A i \in 1..n : t[i] = from + m + i
  <2>1. from + m \in Nat
    OBVIOUS
  <2>. QED  BY <2>1, CountingIsSeq
<1>u. u \in Seq(Nat) /\ Len(u) = m + n /\ \A i \in 1..(m + n) : u[i] = from + i
  <2>1. m + n \in Nat
    OBVIOUS
  <2>. QED  BY <2>1, CountingIsSeq
<1>. HIDE DEF s, t, u
<1>2. /\ s \o t \in Seq(Nat) /\ Len(s \o t) = m + n
      /\ \A i \in 1..(m + n) : (s \o t)[i] = IF i <= m THEN s[i] ELSE t[i - m]
  BY <1>s, <1>t, ConcatProperties
<1>3. ASSUME NEW i \in 1..(m + n)
      PROVE  (s \o t)[i] = u[i]
  <2>1. CASE i <= m
    BY <1>s, <1>u, <1>2, <2>1
  <2>2. CASE ~(i <= m)
    <3>1. i - m \in 1..n
      BY <2>2
    <3>2. t[i - m] = from + m + (i - m)
      BY <1>t, <3>1
    <3>3. (s \o t)[i] = t[i - m] /\ u[i] = from + i
      BY <1>u, <1>2, <2>2
    <3>. QED  BY <3>2, <3>3
  <2>. QED  BY <2>1, <2>2
<1>4. s \o t = u
  BY <1>u, <1>2, <1>3, SeqEqual
<1>. QED  BY <1>4 DEF s, t, u

LEMMA PendingIsSeq ==
  ASSUME NEW p \in AudioPlugin, p.uiOffset + p.uiStreamLen <= Len(p.pucStream)
  PROVE  Pending(p) \in Seq(Nat) /\ (p.uiStreamLen = 0 => Pending(p) = <<>>)
<1>1. p.pucStream \in Seq(Nat) /\ p.uiOffset \in Nat /\ p.uiStreamLen \in Nat
  BY DEF AudioPlugin
<1>2. ASSUME NEW i \in (p.uiOffset + 1)..(p.uiOffset + p.uiStreamLen)
      PROVE  p.pucStream[i] \in Nat
  <2>1. Len(p.pucStream) \in Nat
    BY <1>1, LenProperties
  <2>2. i \in 1..Len(p.pucStream)
    BY <1>1, <2>1
  <2>. QED  BY <1>1, <2>2, ElementOfSeq
<1>. QED  BY <1>1, <1>2, SubSeqProperties, SubSeqEmpty DEF Pending

(* What of the stream a call decodes, and what it leaves for the next.     *)
LEMMA KeptIsRest ==
  ASSUME NEW p \in AudioPlugin, NEW stream \in Seq(Nat), NEW k \in Nat,
         k * Audio!Units(eCodec) \in Nat, k * Audio!Units(eCodec) <= Len(stream)
  PROVE  LET taken == k * Audio!Units(eCodec)
             q == Audio!Kept(p, stream, k)
         IN /\ q \in AudioPlugin /\ q.data = p.data
            /\ q.uiOffset + q.uiStreamLen <= Len(q.pucStream)
            /\ SubSeq(stream, 1, taken) \in Seq(Nat)
            /\ SubSeq(stream, 1, taken) \o Pending(q) = stream
<1>. DEFINE taken == k * Audio!Units(eCodec)
            q == Audio!Kept(p, stream, k)
<1>1. Len(stream) \in Nat /\ taken \in 0..Len(stream)
  BY LenProperties
<1>2. SubSeq(stream, 1, taken) \in Seq(Nat)
  <2>1. \A i \in 1..taken : stream[i] \in Nat
    BY <1>1, ElementOfSeq
  <2>. HIDE DEF taken
  <2>. QED  BY <1>1, <2>1, SubSeqProperties
<1>3. CASE taken = Len(stream)
  <2>1. q = [p EXCEPT !.pucStream = <<>>, !.uiOffset = 0, !.uiStreamLen = 0]
    BY <1>3 DEF Audio!Kept
  <2>2. /\ q \in AudioPlugin /\ q.data = p.data
        /\ q.pucStream = <<>> /\ q.uiOffset = 0 /\ q.uiStreamLen = 0
    <3>. HIDE DEF q
    <3>1. q.pucStream = <<>> /\ q.uiOffset = 0 /\ q.uiStreamLen = 0
      BY <2>1 DEF AudioPlugin
    <3>2. q.open = p.open /\ q.decoder = p.decoder /\ q.data = p.data
      BY <2>1 DEF AudioPlugin
    <3>3. q \in AudioPlugin
      BY <2>1, EmptySeq DEF AudioPlugin
    <3>. QED  BY <3>1, <3>2, <3>3
  <2>. HIDE DEF q, taken
  <2>3. Pending(q) = <<>> /\ q.uiOffset + q.uiStreamLen <= Len(q.pucStream)
    BY <2>2, SubSeqEmpty, EmptySeq DEF Pending
  <2>4. SubSeq(stream, 1, taken) = stream
    BY <1>3, SubSeqFull
  <2>5. stream \o <<>> = stream
    BY ConcatEmptySeq
  <2>. QED  BY <1>2, <2>2, <2>3, <2>4, <2>5 DEF q, taken
<1>4. CASE taken # Len(stream)
  <2>1. q = [p EXCEPT !.pucStream = stream, !.uiOffset = taken,
                      !.uiStreamLen = Len(stream) - taken]
    BY <1>4 DEF Audio!Kept
  <2>. HIDE DEF q, taken
  <2>2. Len(stream) - taken \in Nat
    BY <1>1, <1>4
  <2>3. /\ q \in AudioPlugin /\ q.data = p.data /\ q.pucStream = stream
        /\ q.uiOffset = taken /\ q.uiStreamLen = Len(stream) - taken
    <3>1. q.pucStream = stream /\ q.uiOffset = taken /\ q.uiStreamLen = Len(stream) - taken
      BY <2>1 DEF AudioPlugin
    <3>2. q.open = p.open /\ q.decoder = p.decoder /\ q.data = p.data
      BY <2>1 DEF AudioPlugin
    <3>. DEFINE rest == Len(stream) - taken
    <3>3. taken \in Nat /\ rest \in Nat
      BY <1>1, <2>2
    <3>4. q = [p EXCEPT !.pucStream = stream, !.uiOffset = taken, !.uiStreamLen = rest]
      BY <2>1
    <3>. HIDE DEF rest
    <3>5. q \in AudioPlugin
      BY <3>3, <3>4 DEF AudioPlugin
    <3>. QED  BY <3>1, <3>2, <3>5
  <2>4. Pending(q) = SubSeq(stream, taken + 1, Len(stream))
    <3>1. taken + (Len(stream) - taken) = Len(stream)
      BY <1>1
    <3>. QED  BY <2>3, <3>1 DEF Pending
  <2>5. SubSeq(stream, 1, taken) \o SubSeq(stream, taken + 1, Len(stream)) = stream
    <3>1. /\ 1 \in 1..(Len(stream) + 1) /\ taken \in (1 - 1)..Len(stream)
          /\ Len(stream) \in taken..Len(stream)
      BY <1>1
    <3>2. SubSeq(stream, 1, taken) \o SubSeq(stream, taken + 1, Len(stream))
            = SubSeq(stream, 1, Len(stream))
      BY <3>1, ConcatAdjacentSubSeq
    <3>. QED  BY <3>2, SubSeqFull
  <2>6. q.uiOffset + q.uiStreamLen <= Len(q.pucStream)
    BY <1>1, <2>3
  <2>. QED  BY <1>2, <2>3, <2>4, <2>5, <2>6 DEF q, taken
<1>. QED  BY <1>3, <1>4

LEMMA CountingNothing ==
  ASSUME NEW from \in Nat, NEW to, from = to
  PROVE  Counting(from, to - from) = <<>>
<1>1. to - from = 0
  OBVIOUS
<1>2. Counting(from, 0) \in Seq(Nat) /\ Len(Counting(from, 0)) = 0
  BY CountingIsSeq
<1>. QED  BY <1>1, <1>2, EmptySeq

LEMMA NatSeqAssociative ==
  ASSUME NEW s \in Seq(Nat), NEW t \in Seq(Nat), NEW u \in Seq(Nat)
  PROVE  (s \o t) \o u = s \o (t \o u)
<1>1. /\ s \o t \in Seq(Nat) /\ t \o u \in Seq(Nat)
      /\ (s \o t) \o u \in Seq(Nat) /\ s \o (t \o u) \in Seq(Nat)
  BY ConcatProperties
<1>2. /\ Len((s \o t) \o u) = Len(s) + Len(t) + Len(u)
      /\ Len(s \o (t \o u)) = Len(s) + Len(t) + Len(u)
      /\ Len(s \o t) = Len(s) + Len(t) /\ Len(t \o u) = Len(t) + Len(u)
      /\ Len(s) \in Nat /\ Len(t) \in Nat /\ Len(u) \in Nat
  BY <1>1, ConcatProperties, LenProperties
<1>3. ASSUME NEW i \in 1..(Len(s) + Len(t) + Len(u))
      PROVE  ((s \o t) \o u)[i] = (s \o (t \o u))[i]
  BY <1>1, <1>2, <1>3, ConcatProperties
<1>. QED  BY <1>1, <1>2, <1>3, SeqEqual

LEMMA AudioInitInv == ASSUME Audio!Init PROVE AudioInv
<1>1. /\ a_handle = "none" /\ given = 0 /\ start = 0 /\ decoded = <<>> /\ a_frames = <<>>
      /\ plugin = Audio!NoPlugin /\ leaked = {}
  BY DEF Audio!Init
<1>2. AudioTypes
  BY <1>1, NoPluginEmpty, EmptySeq DEF AudioTypes
<1>3. AudioStream /\ AudioLife
  BY <1>1, NoPluginEmpty DEF AudioStream, AudioLife, Audio!NothingLeft
<1>. QED  BY <1>2, <1>3 DEF AudioInv

LEMMA FirstUnitsAreSeq ==
  ASSUME NEW stream, NEW k \in Nat
  PROVE  \E S : Audio!FirstUnits(stream, k) \in Seq(S)
<1>. DEFINE e(i) == stream[(i - 1) * Audio!Units(eCodec) + 1]
            S == {e(i) : i \in 1..k}
            f == [i \in 1..k |-> e(i)]
<1>1. Audio!FirstUnits(stream, k) = f
  BY DEF Audio!FirstUnits
<1>2. f \in [1..k -> S]
  <2>. HIDE DEF e
  <2>. QED  OBVIOUS
<1>. HIDE DEF f, S
<1>3. f \in Seq(S)
  BY <1>2, SeqDef
<1>. QED  BY <1>1, <1>3

LEMMA AudioDecodes ==
  ASSUME AudioInv, NEW n \in Nat, Audio!AudioDecoder_Decode(n)
  PROVE  AudioInv'
<1>. USE DEF AudioInv
<1>1. /\ a_handle = "working"
      /\ UNCHANGED <<a_handle, eCodec, ptPluginDesc, channels, leaked>>
      /\ IF n = 0 /\ plugin.uiStreamLen = 0 THEN Audio!Decode_Empty ELSE Audio!Decode_Stream(n)
  BY DEF Audio!AudioDecoder_Decode
<1>2. CASE Audio!Decode_Empty
  <2>1. plugin.uiStreamLen = 0 /\ UNCHANGED <<plugin, given, start, decoded, a_frames, heard>>
    BY <1>2 DEF Audio!Decode_Empty
  <2>. QED
    BY <1>1, <2>1 DEF AudioTypes, AudioStream, AudioLife, Audio!NothingLeft, Pending
<1>3. CASE Audio!Decode_Stream(n)
  <2>. DEFINE stream == Audio!Appended(plugin, Audio!Chunk(n))
              U == Audio!Units(eCodec)
  <2>1. /\ Pending(plugin) \in Seq(Nat) /\ (plugin.uiStreamLen = 0 => Pending(plugin) = <<>>)
        /\ Audio!Chunk(n) = Counting(given, n) /\ Audio!Chunk(n) \in Seq(Nat)
        /\ stream = Pending(plugin) \o Audio!Chunk(n) /\ stream \in Seq(Nat)
    <3>1. Pending(plugin) \in Seq(Nat) /\ (plugin.uiStreamLen = 0 => Pending(plugin) = <<>>)
      BY PendingIsSeq DEF AudioTypes
    <3>2. Audio!Chunk(n) = Counting(given, n) /\ Audio!Chunk(n) \in Seq(Nat)
      BY CountingIsSeq DEF Audio!Chunk, Counting, AudioTypes
    <3>3. stream = Pending(plugin) \o Audio!Chunk(n)
      BY DEF Audio!Appended, Pending
    <3>. HIDE DEF stream
    <3>. QED  BY <3>1, <3>2, <3>3, ConcatProperties
  <2>2. PICK k \in 0..AudioSetup.units, why \in {"end", "more", "error"} :
          /\ Audio!Library(stream, k, why)
          /\ given' = given + n
          /\ heard' = heard \o Audio!PutOut(stream, k, why)
          /\ IF why = "error"
             THEN /\ plugin' = [plugin EXCEPT !.pucStream = <<>>, !.uiOffset = 0,
                                              !.uiStreamLen = 0]
                  /\ start' = given' /\ decoded' = <<>> /\ a_frames' = a_frames
             ELSE /\ plugin' = Audio!Kept(plugin, stream, k)
                  /\ decoded' = decoded \o SubSeq(stream, 1, k * U)
                  /\ a_frames' = a_frames \o Audio!FirstUnits(stream, k)
                  /\ ret' = "none" /\ start' = start
    BY <1>3 DEF Audio!Decode_Stream
  <2>. HIDE DEF stream
  <2>3. k \in Nat /\ k * U \in Nat /\ k * U <= Len(stream)
    <3>1. AudioSetup.units \in Nat /\ U \in Nat
      BY AudioAssumption DEF Audio!AudioConstants, Audio!Units
    <3>2. k \in Nat /\ k * U \in Nat
      BY <3>1
    <3>3. Len(stream) \in Nat /\ Len(stream) - k * U >= 0
      BY <2>1, <2>2, LenProperties DEF Audio!Library
    <3>. HIDE DEF U
    <3>. QED  BY <3>2, <3>3
  <2>4. PICK S : a_frames \in Seq(S)
    BY DEF AudioTypes
  <2>5. heard = IF channels = 2 THEN a_frames ELSE <<>>
    BY <1>1 DEF AudioStream
  <2>6. heard' = IF channels = 2 THEN a_frames' ELSE <<>>
    <3>1. CASE why = "error"
      <4>1. Audio!PutOut(stream, k, why) = <<>>
        BY <3>1 DEF Audio!PutOut
      <4>2. a_frames \o <<>> = a_frames /\ <<>> \o <<>> = <<>>
        BY <2>4, ConcatEmptySeq, EmptySeq
      <4>. QED  BY <2>2, <2>5, <3>1, <4>1, <4>2
    <3>2. CASE why # "error" /\ channels = 2
      BY <2>2, <2>5, <3>2 DEF Audio!PutOut
    <3>3. CASE why # "error" /\ channels # 2
      <4>1. <<>> \o <<>> = <<>>
        BY ConcatEmptySeq, EmptySeq
      <4>. QED  BY <2>2, <2>5, <3>3, <4>1 DEF Audio!PutOut
    <3>. QED  BY <3>1, <3>2, <3>3
  <2>7. \E T : a_frames' \in Seq(T)
    <3>1. CASE a_frames' = a_frames
      BY <2>4, <3>1
    <3>2. CASE a_frames' = a_frames \o Audio!FirstUnits(stream, k)
      <4>1. PICK T : Audio!FirstUnits(stream, k) \in Seq(T)
        BY <2>3, FirstUnitsAreSeq
      <4>2. a_frames \in Seq(S \union T) /\ Audio!FirstUnits(stream, k) \in Seq(S \union T)
        BY <2>4, <4>1, SeqMonotonic
      <4>3. a_frames' \in Seq(S \union T)
        BY <3>2, <4>2, ConcatProperties
      <4>. QED  BY <4>3
    <3>. QED  BY <2>2, <3>1, <3>2
  <2>8. /\ plugin' \in AudioPlugin /\ plugin'.data = plugin.data
        /\ plugin'.uiOffset + plugin'.uiStreamLen <= Len(plugin'.pucStream)
        /\ start' \in Nat /\ start' <= given' /\ decoded' \in Seq(Nat)
        /\ ret' = "decoding_fail" => plugin'.uiStreamLen = 0
        /\ decoded' \o Pending(plugin') = Counting(start', given' - start')
    <3>1. CASE why = "error"
      <4>1. plugin' = [plugin EXCEPT !.pucStream = <<>>, !.uiOffset = 0, !.uiStreamLen = 0]
        BY <2>2, <3>1
      <4>2. plugin'.pucStream = <<>> /\ plugin'.uiOffset = 0 /\ plugin'.uiStreamLen = 0
        BY <4>1 DEF AudioTypes, AudioPlugin
      <4>3. plugin'.data = plugin.data
        BY <4>1 DEF AudioTypes, AudioPlugin
      <4>4. plugin' \in AudioPlugin
        BY <4>1, EmptySeq DEF AudioTypes, AudioPlugin
      <4>5. plugin'.uiOffset + plugin'.uiStreamLen <= Len(plugin'.pucStream)
        BY <4>2, EmptySeq
      <4>6. given' \in Nat /\ start' = given' /\ decoded' = <<>> /\ decoded' \in Seq(Nat)
        BY <2>2, <3>1, EmptySeq DEF AudioTypes
      <4>7. decoded' \o Pending(plugin') = <<>>
        BY <4>2, <4>6, SubSeqEmpty, ConcatEmptySeq, EmptySeq DEF Pending
      <4>8. Counting(start', given' - start') = <<>>
        BY <4>6, CountingNothing
      <4>. QED  BY <4>2, <4>3, <4>4, <4>5, <4>6, <4>7, <4>8
    <3>2. CASE why # "error"
      <4>1. /\ plugin' = Audio!Kept(plugin, stream, k) /\ start' = start /\ ret' = "none"
            /\ decoded' = decoded \o SubSeq(stream, 1, k * U)
        BY <2>2, <3>2
      <4>. HIDE DEF U
      <4>2. /\ plugin' \in AudioPlugin /\ plugin'.data = plugin.data
            /\ plugin'.uiOffset + plugin'.uiStreamLen <= Len(plugin'.pucStream)
            /\ SubSeq(stream, 1, k * U) \in Seq(Nat)
            /\ SubSeq(stream, 1, k * U) \o Pending(plugin') = stream
        BY <2>1, <2>3, <4>1, KeptIsRest DEF AudioTypes, U
      <4>3. decoded \in Seq(Nat) /\ decoded' \in Seq(Nat) /\ Pending(plugin') \in Seq(Nat)
        <5>1. decoded \in Seq(Nat)
          BY DEF AudioTypes
        <5>2. decoded' \in Seq(Nat)
          BY <4>1, <4>2, <5>1, ConcatProperties
        <5>3. Pending(plugin') \in Seq(Nat)
          BY <4>2, PendingIsSeq
        <5>. QED  BY <5>1, <5>2, <5>3
      <4>4. decoded' \o Pending(plugin') = decoded \o stream
        <5>1. (decoded \o SubSeq(stream, 1, k * U)) \o Pending(plugin')
                = decoded \o (SubSeq(stream, 1, k * U) \o Pending(plugin'))
          BY <4>2, <4>3, NatSeqAssociative
        <5>. QED  BY <4>1, <4>2, <5>1
      <4>5. decoded \o stream = (decoded \o Pending(plugin)) \o Audio!Chunk(n)
        <5>1. /\ decoded \in Seq(Nat) /\ Pending(plugin) \in Seq(Nat)
              /\ Audio!Chunk(n) \in Seq(Nat) /\ stream = Pending(plugin) \o Audio!Chunk(n)
          BY <2>1, <4>3
        <5>2. (decoded \o Pending(plugin)) \o Audio!Chunk(n)
                = decoded \o (Pending(plugin) \o Audio!Chunk(n))
          BY <5>1, NatSeqAssociative
        <5>. QED  BY <5>1, <5>2
      <4>6. (decoded \o Pending(plugin)) \o Audio!Chunk(n) = Counting(start, given' - start)
        <5>1. decoded \o Pending(plugin) = Counting(start, given - start)
          BY <1>1 DEF AudioStream
        <5>2. /\ given - start \in Nat /\ start \in Nat /\ given = start + (given - start)
              /\ given' - start = (given - start) + n
          BY <2>2 DEF AudioTypes
        <5>3. Counting(start, given - start) \o Counting(start + (given - start), n)
                = Counting(start, (given - start) + n)
          BY <5>2, CountingOn
        <5>. QED  BY <2>1, <5>1, <5>2, <5>3
      <4>7. start' \in Nat /\ start' <= given'
        BY <2>2, <4>1 DEF AudioTypes
      <4>. QED  BY <4>1, <4>2, <4>3, <4>4, <4>5, <4>6, <4>7
    <3>. QED  BY <3>1, <3>2
  <2>9. given' \in Nat
    BY <2>2 DEF AudioTypes
  <2>10. AudioTypes'
    BY <2>7, <2>8, <2>9 DEF AudioTypes
  <2>11. AudioStream'
    BY <1>1, <2>6, <2>8 DEF AudioStream
  <2>12. AudioLife'
    BY <1>1, <2>8 DEF AudioLife, Audio!NothingLeft
  <2>. QED  BY <2>10, <2>11, <2>12
<1>. QED  BY <1>1, <1>2, <1>3

LEMMA AudioStep == ASSUME AudioInv, Audio!Next PROVE AudioInv'
<1>. USE DEF AudioInv
<1>1. CASE Audio!AudioDecoder_Create
  <2>1. /\ a_handle' = "created" /\ ptPluginDesc' = "null" /\ plugin' = Audio!NoPlugin
        /\ given' = 0 /\ start' = 0 /\ decoded' = <<>> /\ a_frames' = <<>> /\ heard' = <<>>
        /\ leaked' = leaked
    BY <1>1 DEF Audio!AudioDecoder_Create
  <2>2. AudioTypes'
    BY <2>1, NoPluginEmpty, EmptySeq DEF AudioTypes
  <2>3. AudioStream' /\ AudioLife'
    BY <2>1, NoPluginEmpty DEF AudioStream, AudioLife, Audio!NothingLeft
  <2>. QED  BY <2>2, <2>3
<1>2. ASSUME NEW c, Audio!AudioDecoder_Init(c)
      PROVE  AudioInv'
  <2>1. /\ a_handle = "created" /\ eCodec' = c
        /\ UNCHANGED <<ret, given, start, decoded, a_frames, heard, leaked>>
        /\ \/ a_handle' = "failed" /\ UNCHANGED <<ptPluginDesc, plugin>>
           \/ a_handle' = "failed" /\ ptPluginDesc' \in {"null", "unloaded"}
                /\ plugin' = Audio!NoPlugin
           \/ \E b \in BOOLEAN : a_handle' \in {"failed", "working"} /\ Audio!Opened(c, b)
    BY <1>2 DEF Audio!AudioDecoder_Init, Audio!history, Audio!LoadFails, Audio!OpenFails
  <2>2. /\ plugin.uiStreamLen = 0 /\ given = start /\ decoded = <<>> /\ a_frames = <<>>
        /\ heard = <<>> /\ Audio!Left(plugin) = {} /\ plugin.data = FALSE
    BY <2>1 DEF AudioStream, AudioLife, AudioTypes, AudioPlugin, Audio!Left
  <2>3. CASE a_handle' = "failed" /\ UNCHANGED <<ptPluginDesc, plugin>>
    BY <2>1, <2>2, <2>3 DEF AudioTypes, AudioStream, AudioLife, Audio!NothingLeft, Audio!Left
  <2>4. CASE /\ a_handle' = "failed" /\ ptPluginDesc' \in {"null", "unloaded"}
             /\ plugin' = Audio!NoPlugin
    <3>1. AudioTypes'
      BY <2>1, <2>4, NoPluginEmpty, EmptySeq DEF AudioTypes
    <3>2. AudioStream' /\ AudioLife'
      BY <2>1, <2>4, NoPluginEmpty DEF AudioStream, AudioLife, Audio!NothingLeft
    <3>. QED  BY <3>1, <3>2
  <2>5. ASSUME NEW b \in BOOLEAN, a_handle' \in {"failed", "working"}, Audio!Opened(c, b)
        PROVE  AudioInv'
    <3>. DEFINE d == c \in AudioSetup.withData
    <3>1. /\ ptPluginDesc' = "loaded"
          /\ plugin' = [Audio!NoPlugin EXCEPT !.open = TRUE, !.decoder = b, !.data = d]
      BY <2>5 DEF Audio!Opened
    <3>2. /\ plugin' = [open |-> TRUE, decoder |-> b, data |-> d, pucStream |-> <<>>,
                        uiOffset |-> 0, uiStreamLen |-> 0]
      BY <3>1 DEF Audio!NoPlugin
    <3>3. /\ plugin'.data = d /\ plugin'.pucStream = <<>>
          /\ plugin'.uiOffset = 0 /\ plugin'.uiStreamLen = 0
      BY <3>2
    <3>4. plugin' \in AudioPlugin
      BY <3>2, EmptySeq DEF AudioPlugin
    <3>5. AudioTypes'
      BY <2>1, <3>3, <3>4, EmptySeq DEF AudioTypes
    <3>6. decoded' \o Pending(plugin') = Counting(start', given' - start')
      <4>1. decoded' \o Pending(plugin') = <<>>
        BY <2>1, <2>2, <3>3, SubSeqEmpty, ConcatEmptySeq, EmptySeq DEF Pending
      <4>2. start' \in Nat /\ given' = start'
        BY <2>1, <2>2 DEF AudioTypes
      <4>. QED  BY <4>1, <4>2, CountingNothing
    <3>7. AudioStream'
      BY <2>1, <2>2, <2>5, <3>3, <3>6 DEF AudioStream
    <3>8. AudioLife'
      BY <2>1, <2>5, <3>1, <3>3 DEF AudioLife, Audio!NothingLeft
    <3>. QED  BY <3>5, <3>7, <3>8
  <2>. QED  BY <2>1, <2>3, <2>4, <2>5
<1>3. ASSUME NEW n \in 0..AudioSetup.chunk, Audio!AudioDecoder_Decode(n)
      PROVE  AudioInv'
  <2>1. n \in Nat
    BY AudioAssumption DEF Audio!AudioConstants
  <2>. QED  BY <1>3, <2>1, AudioDecodes
<1>4. CASE Audio!AudioDecoder_DecodeFailed
  <2>1. /\ a_handle = "failed" /\ a_handle' \in {"failed", "lost"}
        /\ UNCHANGED <<eCodec, ptPluginDesc, plugin, given, start, decoded, a_frames, heard,
                       leaked>>
    BY <1>4 DEF Audio!AudioDecoder_DecodeFailed, Audio!history
  <2>. QED
    BY <2>1 DEF AudioTypes, AudioStream, AudioLife, Audio!NothingLeft, Audio!Left
<1>5. CASE Audio!AudioDecoder_Deinit
  <2>1. /\ a_handle \in {"working", "failed"} /\ a_handle' \in {"lost", "deinited"}
        /\ UNCHANGED <<eCodec, ptPluginDesc, given, start, decoded, a_frames, heard, leaked>>
        /\ IF ptPluginDesc = "null" THEN plugin' = plugin
           ELSE plugin' = Audio!Deinited(eCodec, plugin)
    BY <1>5 DEF Audio!AudioDecoder_Deinit, Audio!history
  <2>2. CASE ptPluginDesc = "null"
    BY <2>1, <2>2 DEF AudioTypes, AudioStream, AudioLife, Audio!NothingLeft, Audio!Left
  <2>3. CASE ptPluginDesc # "null"
    <3>. DEFINE d == plugin.data /\ eCodec # "aac"
    <3>0. plugin.open \in BOOLEAN /\ plugin.data \in BOOLEAN
      BY DEF AudioTypes, AudioPlugin
    <3>1. plugin' = [Audio!NoPlugin EXCEPT !.open = plugin.open, !.data = d]
      BY <2>1, <2>3 DEF Audio!Deinited
    <3>2. plugin' = [open |-> plugin.open, decoder |-> FALSE, data |-> d, pucStream |-> <<>>,
                     uiOffset |-> 0, uiStreamLen |-> 0]
      BY <3>1 DEF Audio!NoPlugin
    <3>3. /\ plugin'.data = d /\ plugin'.decoder = FALSE /\ plugin'.pucStream = <<>>
          /\ plugin'.uiOffset = 0 /\ plugin'.uiStreamLen = 0
      BY <3>2
    <3>4. plugin' \in AudioPlugin
      BY <3>0, <3>2, EmptySeq DEF AudioPlugin
    <3>5. AudioTypes'
      BY <2>1, <3>3, <3>4, EmptySeq DEF AudioTypes
    <3>6. AudioCovered => d = FALSE
      BY <3>0 DEF AudioCovered, AudioLife
    <3>7. AudioCovered => Audio!Left(plugin') = {}
      BY <3>3, <3>6 DEF Audio!Left
    <3>8. AudioStream'
      BY <2>1 DEF AudioStream
    <3>9. AudioLife'
      BY <2>1, <2>3, <3>0, <3>3, <3>7 DEF AudioLife, Audio!NothingLeft, Audio!Left
    <3>. QED  BY <3>5, <3>8, <3>9
  <2>. QED  BY <2>2, <2>3
<1>6. CASE Audio!AudioDecoder_Destroy
  <2>1. /\ a_handle \in {"created", "failed", "deinited"} /\ a_handle' = "none"
        /\ leaked' = leaked \union {<<what, a_handle>> : what \in Audio!Left(plugin)}
        /\ plugin' = Audio!NoPlugin /\ ptPluginDesc' = "null"
        /\ UNCHANGED <<eCodec, given, start, decoded, a_frames, heard>>
    BY <1>6 DEF Audio!AudioDecoder_Destroy, Audio!history
  <2>2. AudioTypes'
    BY <2>1, NoPluginEmpty, EmptySeq DEF AudioTypes
  <2>3. AudioStream'
    BY <2>1 DEF AudioStream
  <2>4. AudioCovered => Audio!NothingLeft'
    <3>1. ASSUME AudioCovered, NEW l \in leaked'
          PROVE  l[2] # "deinited"
      <4>1. CASE l \in leaked
        BY <3>1, <4>1 DEF AudioLife, Audio!NothingLeft
      <4>2. CASE l \in {<<what, a_handle>> : what \in Audio!Left(plugin)}
        BY <3>1, <4>2 DEF AudioLife
      <4>. QED  BY <2>1, <4>1, <4>2
    <3>. QED  BY <3>1 DEF Audio!NothingLeft
  <2>5. AudioLife'
    BY <2>1, <2>4, NoPluginEmpty DEF AudioLife
  <2>. QED  BY <2>2, <2>3, <2>5
<1>. QED  BY <1>1, <1>2, <1>3, <1>4, <1>5, <1>6 DEF Audio!Next

LEMMA AudioImplies ==
  AudioInv => /\ Audio!InputInOrder /\ Audio!HeardInOrder
              /\ AudioCovered => Audio!NothingLeft
BY DEF AudioInv, AudioStream, AudioLife, Audio!InputInOrder, Audio!HeardInOrder, Pending,
       Counting
------------------------------------------------------------------------------
(* The tasks of a script.                                                  *)

(* Without memory for a task its block goes on with the task before, whose *)
(* handle it takes (vpu_script.c:142).                                     *)
TasksCovered == "malloc" \notin TaskSetup.faults

IsSequence(s) == \E S : s \in Seq(S)

LEMMA SequenceExcept ==
  ASSUME NEW s, IsSequence(s), NEW i \in DOMAIN s, NEW e
  PROVE  IsSequence([s EXCEPT ![i] = e])
<1>1. PICK S : s \in Seq(S)
  BY DEF IsSequence
<1>2. s \in Seq(S \union {e}) /\ e \in S \union {e} /\ i \in 1..Len(s)
  BY <1>1, SeqMonotonic, LenProperties
<1>3. [s EXCEPT ![i] = e] \in Seq(S \union {e})
  BY <1>2, ExceptSeq
<1>. QED  BY <1>3 DEF IsSequence

LEMMA SequenceAppend ==
  ASSUME NEW s, IsSequence(s), NEW e
  PROVE  /\ IsSequence(Append(s, e)) /\ Len(s) \in Nat
         /\ DOMAIN s = 1..Len(s) /\ DOMAIN Append(s, e) = 1..(Len(s) + 1)
         /\ Append(s, e)[Len(s) + 1] = e
         /\ \A i \in 1..Len(s) : Append(s, e)[i] = s[i]
<1>1. PICK S : s \in Seq(S)
  BY DEF IsSequence
<1>2. s \in Seq(S \union {e}) /\ e \in S \union {e}
  BY <1>1, SeqMonotonic
<1>3. /\ Append(s, e) \in Seq(S \union {e}) /\ Len(Append(s, e)) = Len(s) + 1
      /\ Append(s, e)[Len(s) + 1] = e /\ \A i \in 1..Len(s) : Append(s, e)[i] = s[i]
  BY <1>2, AppendProperties
<1>4. Len(s) \in Nat /\ DOMAIN s = 1..Len(s)
  BY <1>1, LenProperties
<1>5. DOMAIN Append(s, e) = 1..(Len(s) + 1)
  BY <1>3, LenProperties
<1>. QED  BY <1>3, <1>4, <1>5 DEF IsSequence

TaskShapes ==
  /\ t_pc = "reading" => IsSequence(tasks) /\ IsSequence(threads)
  /\ 0 \notin DOMAIN tasks
  /\ \A k \in DOMAIN tasks : {"running", "handle", "pos", "state"} \subseteq DOMAIN tasks[k]
  /\ \A t \in DOMAIN threads : {"task", "at"} \subseteq DOMAIN threads[t]

(* A task that is being read has no thread yet, and each thread is found   *)
(* by its task; main frees a task when it has joined its thread.           *)
TaskHandles ==
  /\ inside => task \in DOMAIN tasks /\ tasks[task].handle = 0
  /\ \A t \in DOMAIN threads :
       /\ t # 0 /\ threads[t].task \in DOMAIN tasks
       /\ tasks[threads[t].task].handle = t

TaskJoined ==
  /\ t_pc \in {"reading", "joining"} => \A k \in DOMAIN tasks : tasks[k].state # "freed"
  /\ t_pc = "joining" =>
       /\ line \in Nat
       /\ \A t \in DOMAIN threads : \A i \in Nat :
            i < line /\ i < TaskSetup.tasks /\ table[i] = threads[t].task =>
              threads[t].at = "stopped"
  /\ \A t \in DOMAIN threads :
       tasks[threads[t].task].state = "freed" => threads[t].at = "stopped"

TasksInv == TasksCovered => TaskShapes /\ TaskHandles /\ TaskJoined

LEMMA TaskNumbers == TaskSetup.tasks \in Nat /\ TaskSetup.tasks # 0
BY TaskAssumption DEF Tasks!ScriptTasksConstants

LEMMA TasksInitInv == ASSUME Tasks!Init PROVE TasksInv
<1>1. /\ tasks = <<>> /\ threads = <<>> /\ inside = FALSE /\ t_pc = "reading"
      /\ DOMAIN tasks = {} /\ DOMAIN threads = {}
  BY DEF Tasks!Init
<1>2. IsSequence(<<>>)
  BY EmptySeq DEF IsSequence
<1>. QED  BY <1>1, <1>2 DEF TasksInv, TaskShapes, TaskHandles, TaskJoined

(* A line copied to a task's text, or not, changes nothing else of the     *)
(* task.                                                                   *)
LEMMA CopiedKeeps ==
  ASSUME NEW t, {"running", "handle", "pos", "state"} \subseteq DOMAIN t
  PROVE  /\ {"running", "handle", "pos", "state"} \subseteq DOMAIN Tasks!Copied(t)
         /\ Tasks!Copied(t).handle = t.handle /\ Tasks!Copied(t).state = t.state
         /\ {"running", "handle", "pos", "state"} \subseteq DOMAIN Tasks!Unmoved(t)
         /\ Tasks!Unmoved(t).handle = t.handle /\ Tasks!Unmoved(t).state = t.state
<1>. DEFINE g == Tasks!Grown(t)
<1>1. /\ {"running", "handle", "pos", "state"} \subseteq DOMAIN g
      /\ g.handle = t.handle /\ g.state = t.state
  <2>1. CASE Tasks!Tight(t)
    BY <2>1 DEF Tasks!Grown
  <2>2. CASE ~Tasks!Tight(t)
    BY <2>2 DEF Tasks!Grown
  <2>. QED  BY <2>1, <2>2
<1>. HIDE DEF g
<1>2. Tasks!Copied(t) = [g EXCEPT !.text = Append(@, line), !.filled = @ + Tasks!Line.length + 1]
  BY DEF Tasks!Copied, g
<1>3. Tasks!Unmoved(t) = [t EXCEPT !.buffer = FALSE, !.lost = t.buffer]
  BY DEF Tasks!Unmoved
<1>. QED  BY <1>1, <1>2, <1>3

LEMMA TaskReadingKeeps ==
  ASSUME TasksInv, TasksCovered,
         Tasks!TaskStart \/ Tasks!CommandLine \/ Tasks!TaskEnd \/ Tasks!EndOfScript
  PROVE  TasksInv'
<1>. USE DEF TasksInv
<1>0. t_pc = "reading" /\ TaskShapes /\ TaskHandles /\ TaskJoined
  BY DEF Tasks!TaskStart, Tasks!CommandLine, Tasks!TaskEnd, Tasks!EndOfScript, Tasks!Reads
<1>1. CASE Tasks!TaskStart
  <2>. DEFINE n == Len(tasks) + 1
              new == Tasks!NewTask(TRUE)
              all == Append(tasks, new)
  <2>1. /\ inside' = TRUE /\ task' = n /\ threads' = threads
        /\ \/ tasks' = [all EXCEPT ![n] = Tasks!Copied(@)] /\ t_pc' = t_pc
           \/ tasks' = all /\ t_pc' = "crashed"
           \/ tasks' = [all EXCEPT ![n] = Tasks!Unmoved(@)] /\ t_pc' = "joining" /\ line' = 0
    <3>1. /\ inside' = TRUE /\ task' = n /\ threads' = threads
          /\ Tasks!CopyLine(n, all)
      BY <1>1 DEF Tasks!TaskStart, TasksCovered
    <3>. QED  BY <3>1 DEF Tasks!CopyLine
  <2>2. /\ IsSequence(all) /\ n \in Nat /\ n # 0 /\ DOMAIN tasks = 1..(n - 1)
        /\ DOMAIN all = 1..n /\ all[n] = new
        /\ \A k \in DOMAIN tasks : all[k] = tasks[k]
    <3>. HIDE DEF new
    <3>1. IsSequence(tasks)
      BY <1>0 DEF TaskShapes
    <3>. QED  BY <3>1, SequenceAppend
  <2>3. /\ {"running", "handle", "pos", "state"} \subseteq DOMAIN new
        /\ new.handle = 0 /\ new.state = "built"
    BY DEF Tasks!NewTask
  <2>. HIDE DEF n, all, new
  <2>4. /\ DOMAIN tasks' = 1..n /\ \A k \in DOMAIN tasks : tasks'[k] = tasks[k] /\ k # n
        /\ tasks'[n] \in {new, Tasks!Copied(new), Tasks!Unmoved(new)}
    BY <2>1, <2>2
  <2>5. /\ {"running", "handle", "pos", "state"} \subseteq DOMAIN tasks'[n]
        /\ tasks'[n].handle = 0 /\ tasks'[n].state = "built"
    BY <2>3, <2>4, CopiedKeeps
  <2>6. t_pc' # "done" /\ (t_pc' = "reading" => IsSequence(tasks'))
    <3>1. n \in DOMAIN all
      BY <2>2
    <3>2. IsSequence([all EXCEPT ![n] = Tasks!Copied(all[n])])
      BY <2>2, <3>1, SequenceExcept
    <3>. QED  BY <1>0, <2>1, <2>2, <3>2
  <2>7. TaskShapes'
    BY <1>0, <2>1, <2>2, <2>4, <2>5, <2>6 DEF TaskShapes
  <2>8. TaskHandles'
    BY <1>0, <2>1, <2>2, <2>4, <2>5 DEF TaskHandles
  <2>9. TaskJoined'
    <3>1. \A k \in DOMAIN tasks' : k = n \/ k \in DOMAIN tasks
      BY <2>2, <2>4
    <3>2. \A k \in DOMAIN tasks' : tasks'[k].state # "freed"
      BY <1>0, <2>4, <2>5, <3>1 DEF TaskJoined
    <3>3. t_pc' = "joining" => line' = 0
      BY <1>0, <2>1
    <3>4. \A t \in DOMAIN threads' : threads'[t].task \in DOMAIN tasks'
      BY <2>8 DEF TaskHandles
    <3>. QED  BY <3>2, <3>3, <3>4 DEF TaskJoined
  <2>. QED  BY <2>7, <2>8, <2>9
<1>2. CASE Tasks!CommandLine
  <2>1. /\ UNCHANGED <<inside, task, threads>>
        /\ \/ tasks' = tasks /\ t_pc' = t_pc
           \/ inside /\ tasks' = [tasks EXCEPT ![task] = Tasks!Copied(@)] /\ t_pc' = t_pc
           \/ inside /\ tasks' = tasks /\ t_pc' = "crashed"
           \/ /\ inside /\ tasks' = [tasks EXCEPT ![task] = Tasks!Unmoved(@)]
              /\ t_pc' = "joining" /\ line' = 0
    BY <1>2 DEF Tasks!CommandLine, Tasks!CopyLine
  <2>2. inside => task \in DOMAIN tasks
    BY <1>0 DEF TaskHandles
  <2>3. /\ DOMAIN tasks' = DOMAIN tasks
        /\ \A k \in DOMAIN tasks :
             /\ {"running", "handle", "pos", "state"} \subseteq DOMAIN tasks'[k]
             /\ tasks'[k].handle = tasks[k].handle /\ tasks'[k].state = tasks[k].state
    BY <1>0, <2>1, <2>2, CopiedKeeps DEF TaskShapes
  <2>4. t_pc' = "reading" => IsSequence(tasks')
    <3>1. inside => IsSequence([tasks EXCEPT ![task] = Tasks!Copied(tasks[task])])
      BY <1>0, <2>2, SequenceExcept DEF TaskShapes
    <3>. QED  BY <1>0, <2>1, <3>1 DEF TaskShapes
  <2>5. TaskShapes' /\ TaskHandles'
    BY <1>0, <2>1, <2>3, <2>4 DEF TaskShapes, TaskHandles
  <2>6. TaskJoined'
    <3>1. t_pc' # "done" /\ (t_pc' = "joining" => line' = 0)
      BY <1>0, <2>1
    <3>2. \A t \in DOMAIN threads : threads[t].task \in DOMAIN tasks
      BY <1>0 DEF TaskHandles
    <3>. QED  BY <1>0, <2>1, <2>3, <3>1, <3>2 DEF TaskJoined
  <2>. QED  BY <2>5, <2>6
<1>3. CASE Tasks!TaskEnd
  <2>1. t_pc' = t_pc /\ inside' = FALSE
    BY <1>3 DEF Tasks!TaskEnd
  <2>2. CASE ~inside
    <3>1. UNCHANGED <<threads, tasks>>
      BY <1>3, <2>2 DEF Tasks!TaskEnd
    <3>. QED  BY <1>0, <2>1, <3>1 DEF TaskShapes, TaskHandles, TaskJoined
  <2>3. CASE inside
    <3>. DEFINE n == Len(threads) + 1
                new == [task |-> task, at |-> "new", taken |-> <<>>, done |-> <<>>]
    <3>1. /\ threads' = Append(threads, new)
          /\ tasks' = [tasks EXCEPT ![task].running = TRUE, ![task].handle = n]
      BY <1>3, <2>3 DEF Tasks!TaskEnd, Tasks!Started
    <3>2. /\ IsSequence(threads') /\ n \in Nat /\ n # 0 /\ DOMAIN threads = 1..(n - 1)
          /\ DOMAIN threads' = 1..n /\ threads'[n] = new
          /\ \A t \in DOMAIN threads : threads'[t] = threads[t]
      BY <1>0, <3>1, SequenceAppend DEF TaskShapes
    <3>. HIDE DEF n
    <3>3. new.task = task /\ {"task", "at"} \subseteq DOMAIN new
      OBVIOUS
    <3>. HIDE DEF new
    <3>4. task \in DOMAIN tasks /\ tasks[task].handle = 0
      BY <1>0, <2>3 DEF TaskHandles
    <3>5. {"running", "handle", "pos", "state"} \subseteq DOMAIN tasks[task]
      BY <1>0, <3>4 DEF TaskShapes
    <3>. DEFINE e == [[tasks[task] EXCEPT !.running = TRUE] EXCEPT !.handle = n]
    <3>6. tasks' = [tasks EXCEPT ![task] = e]
      BY <3>1, <3>4
    <3>7. /\ {"running", "handle", "pos", "state"} \subseteq DOMAIN e
          /\ e.handle = n /\ e.state = tasks[task].state
      BY <3>5
    <3>. HIDE DEF e
    <3>8. IsSequence(tasks') /\ DOMAIN tasks' = DOMAIN tasks
      BY <1>0, <3>4, <3>6, SequenceExcept DEF TaskShapes
    <3>9. \A k \in DOMAIN tasks : k # task => tasks'[k] = tasks[k]
      BY <3>6
    <3>10. tasks'[task] = e
      BY <3>4, <3>6
    <3>11. \A t \in DOMAIN threads' : t \in DOMAIN threads \/ t = n
      BY <3>2
    <3>12. \A t \in DOMAIN threads : threads[t].task # task /\ t # 0
      BY <1>0, <3>4 DEF TaskHandles
    <3>13. TaskShapes'
      BY <1>0, <3>2, <3>3, <3>7, <3>8, <3>9, <3>10, <3>11 DEF TaskShapes
    <3>14. TaskHandles'
      BY <1>0, <2>1, <3>2, <3>3, <3>4, <3>7, <3>8, <3>9, <3>10, <3>11, <3>12 DEF TaskHandles
    <3>15. \A k \in DOMAIN tasks' : tasks'[k].state # "freed"
      BY <1>0, <3>4, <3>7, <3>8, <3>9, <3>10 DEF TaskJoined
    <3>16. TaskJoined'
      BY <1>0, <2>1, <3>14, <3>15 DEF TaskJoined, TaskHandles
    <3>. QED  BY <3>13, <3>14, <3>16
  <2>. QED  BY <2>2, <2>3
<1>4. CASE Tasks!EndOfScript
  <2>1. t_pc' = "joining" /\ line' = 0 /\ UNCHANGED <<inside, task, tasks, threads>>
    BY <1>4 DEF Tasks!EndOfScript
  <2>. QED  BY <1>0, <2>1 DEF TaskShapes, TaskHandles, TaskJoined
<1>. QED  BY <1>1, <1>2, <1>3, <1>4

LEMMA TaskJoiningKeeps ==
  ASSUME TasksInv, TasksCovered, Tasks!Join \/ Tasks!Release
  PROVE  TasksInv'
<1>. USE DEF TasksInv
<1>0. t_pc = "joining" /\ TaskShapes /\ TaskHandles /\ TaskJoined
  BY DEF Tasks!Join, Tasks!Release
<1>1. CASE Tasks!Join
  <2>1. /\ UNCHANGED <<inside, task, tasks, threads, table>>
        /\ \/ /\ Tasks!Joined # 0 => threads[Tasks!Joined].at = "stopped"
              /\ line' = line + 1 /\ t_pc' = t_pc
           \/ t_pc' = "crashed"
    BY <1>1 DEF Tasks!Join
  <2>2. TaskShapes' /\ TaskHandles'
    BY <1>0, <2>1 DEF TaskShapes, TaskHandles
  <2>3. CASE t_pc' = "crashed"
    BY <1>0, <2>1, <2>2, <2>3 DEF TaskJoined
  <2>4. CASE /\ Tasks!Joined # 0 => threads[Tasks!Joined].at = "stopped"
             /\ line' = line + 1 /\ t_pc' = t_pc
    <3>1. ASSUME NEW t \in DOMAIN threads, table[line] = threads[t].task
          PROVE  threads[t].at = "stopped"
      <4>1. Tasks!Joined = t /\ t # 0
        BY <1>0, <3>1 DEF TaskHandles, TaskShapes, Tasks!Joined
      <4>. QED  BY <2>4, <4>1
    <3>2. ASSUME NEW t \in DOMAIN threads, NEW i \in Nat, i < line', i < TaskSetup.tasks,
                 table[i] = threads[t].task
          PROVE  threads[t].at = "stopped"
      <4>1. i < line \/ i = line
        BY <1>0, <2>4, <3>2 DEF TaskJoined
      <4>. QED  BY <1>0, <3>1, <3>2, <4>1 DEF TaskJoined
    <3>3. line' \in Nat
      BY <1>0, <2>4 DEF TaskJoined
    <3>4. TaskJoined'
      BY <1>0, <2>1, <2>4, <3>2, <3>3 DEF TaskJoined
    <3>. QED  BY <2>2, <3>4
  <2>. QED  BY <2>1, <2>3, <2>4
<1>2. CASE Tasks!Release
  <2>. DEFINE IsListed(k) == \E i \in 0..(TaskSetup.tasks - 1) : table[i] = k
  <2>1. /\ line = TaskSetup.tasks /\ t_pc' = "done" /\ UNCHANGED <<inside, task, threads>>
        /\ tasks' = [k \in DOMAIN tasks |->
                       IF IsListed(k) THEN [tasks[k] EXCEPT !.state = "freed"] ELSE tasks[k]]
    BY <1>2 DEF Tasks!Release
  <2>2. /\ DOMAIN tasks' = DOMAIN tasks
        /\ \A k \in DOMAIN tasks :
             /\ {"running", "handle", "pos", "state"} \subseteq DOMAIN tasks'[k]
             /\ tasks'[k].handle = tasks[k].handle
             /\ ~IsListed(k) => tasks'[k] = tasks[k]
    <3>. HIDE DEF IsListed
    <3>. QED  BY <1>0, <2>1 DEF TaskShapes
  <2>3. TaskShapes' /\ TaskHandles'
    BY <1>0, <2>1, <2>2 DEF TaskShapes, TaskHandles
  <2>4. ASSUME NEW t \in DOMAIN threads, IsListed(threads[t].task)
        PROVE  threads[t].at = "stopped"
    <3>1. PICK i \in 0..(TaskSetup.tasks - 1) : table[i] = threads[t].task
      BY <2>4
    <3>2. i \in Nat /\ i < line /\ i < TaskSetup.tasks
      BY <2>1, TaskNumbers
    <3>. QED  BY <1>0, <3>1, <3>2 DEF TaskJoined
  <2>5. TaskJoined'
    <3>. HIDE DEF IsListed
    <3>. QED  BY <1>0, <2>1, <2>2, <2>4 DEF TaskJoined, TaskHandles
  <2>. QED  BY <2>3, <2>5
<1>. QED  BY <1>1, <1>2

LEMMA TaskThreadKeeps ==
  ASSUME TasksInv, TasksCovered, NEW t, Tasks!Thread(t)
  PROVE  TasksInv'
<1>. USE DEF TasksInv
<1>0. TaskShapes /\ TaskHandles /\ TaskJoined
  OBVIOUS
<1>. DEFINE m == threads[t].task
<1>1. CASE Tasks!ThreadCrashes(t)
  <2>1. t_pc' = "crashed" /\ UNCHANGED <<inside, task, tasks, threads>>
    BY <1>1 DEF Tasks!ThreadCrashes
  <2>. QED  BY <1>0, <2>1 DEF TaskShapes, TaskHandles, TaskJoined
<1>2. ASSUME ~Tasks!ThreadCrashes(t)
      PROVE  TasksInv'
  <2>1. /\ UNCHANGED <<t_pc, line, inside, task, table>>
        /\ t \in DOMAIN threads /\ threads[t].at # "stopped"
    BY <1>2 DEF Tasks!Thread, Tasks!ThreadStarts, Tasks!ThreadLine, Tasks!FirstToken,
         Tasks!NextToken, Tasks!LastToken, Tasks!FreedToken, Tasks!ThreadStops, Tasks!Alive,
         Tasks!Between, Tasks!Takes, Tasks!reader
  <2>2. m \in DOMAIN tasks
    BY <1>0, <2>1 DEF TaskHandles
  <2>3. /\ {"running", "handle", "pos", "state"} \subseteq DOMAIN tasks[m]
        /\ {"task", "at"} \subseteq DOMAIN threads[t]
    BY <1>0, <2>1, <2>2 DEF TaskShapes
  <2>. DEFINE TasksKept ==
         /\ DOMAIN tasks' = DOMAIN tasks
         /\ IsSequence(tasks) => IsSequence(tasks')
         /\ \A k \in DOMAIN tasks :
              /\ {"running", "handle", "pos", "state"} \subseteq DOMAIN tasks'[k]
              /\ tasks'[k].handle = tasks[k].handle /\ tasks'[k].state = tasks[k].state
  <2>4. TasksKept
    <3>0. \A k \in DOMAIN tasks : {"running", "handle", "pos", "state"} \subseteq DOMAIN tasks[k]
      BY <1>0 DEF TaskShapes
    <3>. DEFINE Kept(e) == /\ tasks' = [tasks EXCEPT ![m] = e]
                           /\ {"running", "handle", "pos", "state"} \subseteq DOMAIN e
                           /\ e.handle = tasks[m].handle /\ e.state = tasks[m].state
    <3>1. ASSUME NEW e, Kept(e)
          PROVE  TasksKept
      <4>1. IsSequence(tasks) => IsSequence([tasks EXCEPT ![m] = e])
        BY <2>2, SequenceExcept
      <4>. HIDE DEF m
      <4>. QED  BY <2>2, <3>0, <3>1, <4>1
    <3>2. CASE Tasks!ThreadStarts(t) \/ Tasks!ThreadLine(t) \/ Tasks!FirstToken(t)
      <4>1. PICK p : tasks' = [tasks EXCEPT ![m] = [@ EXCEPT !.pos = p]]
        BY <3>2, <2>2 DEF Tasks!ThreadStarts, Tasks!ThreadLine, Tasks!FirstToken, Tasks!NextLine,
           Tasks!MyTask
      <4>2. Kept([tasks[m] EXCEPT !.pos = p])
        BY <2>2, <2>3, <4>1
      <4>. QED  BY <3>1, <4>2
    <3>3. CASE Tasks!ThreadStops(t)
      <4>. DEFINE e == [[tasks[m] EXCEPT !.running = FALSE] EXCEPT !.pos = 0]
      <4>1. tasks' = [tasks EXCEPT ![m].running = FALSE, ![m].pos = 0]
        BY <3>3 DEF Tasks!ThreadStops, Tasks!MyTask
      <4>2. tasks' = [tasks EXCEPT ![m] = e]
        BY <2>2, <4>1
      <4>3. Kept(e)
        BY <2>3, <4>2
      <4>. QED  BY <3>1, <4>3
    <3>4. CASE Tasks!NextToken(t) \/ Tasks!LastToken(t) \/ Tasks!FreedToken(t)
      <4>1. tasks' = tasks
        BY <3>4 DEF Tasks!NextToken, Tasks!LastToken, Tasks!FreedToken
      <4>. QED  BY <3>0, <4>1
    <3>. QED  BY <1>2, <3>2, <3>3, <3>4 DEF Tasks!Thread
  <2>5. PICK f : /\ threads' = [threads EXCEPT ![t] = f]
                 /\ {"task", "at"} \subseteq DOMAIN f /\ f.task = m
    <3>1. CASE Tasks!ThreadStarts(t) \/ Tasks!ThreadStops(t)
      <4>1. PICK a : threads' = [threads EXCEPT ![t] = [@ EXCEPT !.at = a]]
        BY <2>1, <3>1 DEF Tasks!ThreadStarts, Tasks!ThreadStops
      <4>2. threads' = [threads EXCEPT ![t] = [threads[t] EXCEPT !.at = a]]
        BY <2>1, <4>1
      <4>3. LET f == [threads[t] EXCEPT !.at = a] IN {"task", "at"} \subseteq DOMAIN f /\ f.task = m
        BY <2>3
      <4>. QED  BY <4>2, <4>3
    <3>2. CASE Tasks!ThreadLine(t)
      <4>1. PICK d : threads' = [threads EXCEPT ![t] = [threads[t] EXCEPT !.done = d]]
        BY <2>1, <3>2 DEF Tasks!ThreadLine
      <4>2. LET f == [threads[t] EXCEPT !.done = d] IN {"task", "at"} \subseteq DOMAIN f /\ f.task = m
        BY <2>3
      <4>. QED  BY <4>1, <4>2
    <3>3. CASE Tasks!NextToken(t) \/ Tasks!FreedToken(t)
      <4>1. PICK d : threads' = [threads EXCEPT ![t] = [threads[t] EXCEPT !.taken = d]]
        BY <2>1, <3>3 DEF Tasks!NextToken, Tasks!FreedToken
      <4>2. LET f == [threads[t] EXCEPT !.taken = d] IN {"task", "at"} \subseteq DOMAIN f /\ f.task = m
        BY <2>3
      <4>. QED  BY <4>1, <4>2
    <3>4. CASE Tasks!FirstToken(t)
      <4>. DEFINE d == <<<<t, Tasks!MyLine(t), 1>>>>
                  g == [[threads[t] EXCEPT !.at = "tokens"] EXCEPT !.taken = d]
      <4>1. threads' = [threads EXCEPT ![t].at = "tokens", ![t].taken = d]
        BY <3>4 DEF Tasks!FirstToken
      <4>. HIDE DEF d
      <4>2. threads' = [threads EXCEPT ![t] = g]
        BY <2>1, <4>1
      <4>3. {"task", "at"} \subseteq DOMAIN g /\ g.task = m
        BY <2>3
      <4>. QED  BY <4>2, <4>3
    <3>5. CASE Tasks!LastToken(t)
      <4>. DEFINE d == Append(threads[t].done, threads[t].taken[1][2])
                  g == [[threads[t] EXCEPT !.at = "lines"] EXCEPT !.done = d]
      <4>1. threads' = [threads EXCEPT ![t].at = "lines",
                                       ![t].done = Append(@, threads[t].taken[1][2])]
        BY <3>5 DEF Tasks!LastToken
      <4>2. threads' = [threads EXCEPT ![t] = g]
        BY <2>1, <2>3, <4>1
      <4>. HIDE DEF d
      <4>3. {"task", "at"} \subseteq DOMAIN g /\ g.task = m
        BY <2>3
      <4>. QED  BY <4>2, <4>3
    <3>. QED  BY <1>2, <3>1, <3>2, <3>3, <3>4, <3>5 DEF Tasks!Thread
  <2>. HIDE DEF m
  <2>7. /\ DOMAIN threads' = DOMAIN threads
        /\ \A u \in DOMAIN threads :
             /\ {"task", "at"} \subseteq DOMAIN threads'[u]
             /\ threads'[u].task = threads[u].task /\ (u # t => threads'[u] = threads[u])
    BY <1>0, <2>1, <2>5 DEF TaskShapes, m
  <2>8. t_pc = "reading" => IsSequence(tasks') /\ IsSequence(threads')
    BY <1>0, <2>1, <2>4, <2>5, SequenceExcept DEF TaskShapes
  <2>9. TaskShapes' /\ TaskHandles'
    BY <1>0, <2>1, <2>4, <2>7, <2>8 DEF TaskShapes, TaskHandles
  <2>10. TaskJoined'
    BY <1>0, <2>1, <2>4, <2>7 DEF TaskJoined, TaskHandles
  <2>. QED  BY <2>9, <2>10
<1>. QED  BY <1>1, <1>2

LEMMA TasksStep == ASSUME TasksInv, Tasks!Next PROVE TasksInv'
<1>1. ASSUME TasksCovered
      PROVE  ~Tasks!TaskStartFails
  BY <1>1 DEF TasksCovered, Tasks!TaskStartFails
<1>2. ASSUME ~TasksCovered
      PROVE  TasksInv'
  BY <1>2 DEF TasksInv, TasksCovered
<1>. QED
  BY <1>1, <1>2, TaskReadingKeeps, TaskJoiningKeeps, TaskThreadKeeps
     DEF Tasks!Next, Tasks!Main

LEMMA TasksImplies == TasksInv /\ TasksCovered => Tasks!FreedAfterStop
BY DEF TasksInv, TaskJoined, Tasks!FreedAfterStop
------------------------------------------------------------------------------
(* The parts together.                                                     *)

LEMMA TasksOfPrograms ==
  /\ ProgramsInit => (part = "tasks" => TasksInv)
  /\ (part = "tasks" => TasksInv) /\ [ProgramsNext]_allVars => (part = "tasks" => TasksInv)'
<1>1. ASSUME ProgramsInit, part = "tasks"
      PROVE  TasksInv
  BY <1>1, TasksInitInv DEF ProgramsInit
<1>2. ASSUME part = "tasks" => TasksInv, [ProgramsNext]_allVars, part' = "tasks"
      PROVE  TasksInv'
  <2>1. CASE UNCHANGED allVars
    <3>1. TasksInv /\ UNCHANGED taskVars
      BY <1>2, <2>1 DEF allVars
    <3>. QED  BY <3>1 DEF taskVars, TasksInv, TaskShapes, TaskHandles, TaskJoined
  <2>2. CASE ProgramsNext
    <3>1. part = "tasks" /\ Tasks!Next
      BY <1>2, <2>2 DEF ProgramsNext, InScript, InTasks, InStress, InVpu, InIndex, InAudio
    <3>. QED  BY <1>2, <3>1, TasksStep
  <2>. QED  BY <1>2, <2>1, <2>2
<1>. QED  BY <1>1, <1>2

LEMMA StressOfPrograms ==
  /\ ProgramsInit => (part = "stress" => QuitInv)
  /\ (part = "stress" => QuitInv) /\ [ProgramsNext]_allVars => (part = "stress" => QuitInv)'
<1>1. ASSUME ProgramsInit, part = "stress"
      PROVE  QuitInv
  BY <1>1, QuitInitInv DEF ProgramsInit
<1>2. ASSUME part = "stress" => QuitInv, [ProgramsNext]_allVars, part' = "stress"
      PROVE  QuitInv'
  <2>1. CASE UNCHANGED allVars
    <3>1. QuitInv /\ UNCHANGED stressVars
      BY <1>2, <2>1 DEF allVars
    <3>. QED  BY <3>1 DEF stressVars, QuitInv, QuitTypes, QuitHanded, QuitWork, QuitOwn,
                          HasOwn, Quits!SharesTester
  <2>2. CASE ProgramsNext
    <3>1. part = "stress" /\ Quits!Next
      BY <1>2, <2>2 DEF ProgramsNext, InScript, InTasks, InStress, InVpu, InIndex, InAudio
    <3>. QED  BY <1>2, <3>1, QuitStep
  <2>. QED  BY <1>2, <2>1, <2>2
<1>. QED  BY <1>1, <1>2

LEMMA AutoOfPrograms ==
  /\ ProgramsInit => (part = "auto" => AutoInv)
  /\ (part = "auto" => AutoInv) /\ [ProgramsNext]_allVars => (part = "auto" => AutoInv)'
<1>1. ASSUME ProgramsInit, part = "auto"
      PROVE  AutoInv
  BY <1>1, AutoInitInv DEF ProgramsInit
<1>2. ASSUME part = "auto" => AutoInv, [ProgramsNext]_allVars, part' = "auto"
      PROVE  AutoInv'
  <2>1. CASE UNCHANGED allVars
    <3>1. AutoInv /\ UNCHANGED stressVars
      BY <1>2, <2>1 DEF allVars
    <3>. QED  BY <3>1 DEF stressVars, AutoInv, AutoTypes, AutoHanded, AutoWork, Over
  <2>2. CASE ProgramsNext
    <3>1. part = "auto" /\ Automatic!Next
      BY <1>2, <2>2 DEF ProgramsNext, InScript, InTasks, InStress, InVpu, InIndex, InAudio
    <3>. QED  BY <1>2, <3>1, AutoStep
  <2>. QED  BY <1>2, <2>1, <2>2
<1>. QED  BY <1>1, <1>2

LEMMA VpuOfPrograms ==
  /\ ProgramsInit => (part = "vpu" => VpuInv)
  /\ (part = "vpu" => VpuInv) /\ [ProgramsNext]_allVars => (part = "vpu" => VpuInv)'
<1>1. ASSUME ProgramsInit, part = "vpu"
      PROVE  VpuInv
  BY <1>1, VpuInitInv DEF ProgramsInit
<1>2. ASSUME part = "vpu" => VpuInv, [ProgramsNext]_allVars, part' = "vpu"
      PROVE  VpuInv'
  <2>1. CASE UNCHANGED allVars
    <3>1. VpuInv /\ UNCHANGED vpuVars
      BY <1>2, <2>1 DEF allVars
    <3>. QED  BY <3>1 DEF vpuVars, VpuInv, VpuTypes, VpuFed
  <2>2. CASE ProgramsNext
    <3>1. part = "vpu" /\ Vpu!Next
      BY <1>2, <2>2 DEF ProgramsNext, InScript, InTasks, InStress, InVpu, InIndex, InAudio
    <3>. QED  BY <1>2, <3>1, VpuStep
  <2>. QED  BY <1>2, <2>1, <2>2
<1>. QED  BY <1>1, <1>2

LEMMA VpuDecoderOfPrograms ==
  /\ ProgramsInit => (part = "vpu_decoder" => ReleaseInv)
  /\ (part = "vpu_decoder" => ReleaseInv) /\ [ProgramsNext]_allVars
       => (part = "vpu_decoder" => ReleaseInv)'
<1>1. ASSUME ProgramsInit, part = "vpu_decoder"
      PROVE  ReleaseInv
  BY <1>1, ReleaseInitInv DEF ProgramsInit
<1>2. ASSUME part = "vpu_decoder" => ReleaseInv, [ProgramsNext]_allVars, part' = "vpu_decoder"
      PROVE  ReleaseInv'
  <2>1. CASE UNCHANGED allVars
    <3>1. ReleaseInv /\ UNCHANGED vpuVars
      BY <1>2, <2>1 DEF allVars
    <3>. QED  BY <3>1 DEF vpuVars, ReleaseInv
  <2>2. CASE ProgramsNext
    <3>1. part = "vpu_decoder" /\ VpuDecoder!Next
      BY <1>2, <2>2 DEF ProgramsNext, InScript, InTasks, InStress, InVpu, InIndex, InAudio
    <3>. QED  BY <1>2, <3>1, ReleaseStep
  <2>. QED  BY <1>2, <2>1, <2>2
<1>. QED  BY <1>1, <1>2

LEMMA VpuFaultsOfPrograms ==
  /\ ProgramsInit => (part = "vpu_faults" => ContextInv)
  /\ (part = "vpu_faults" => ContextInv) /\ [ProgramsNext]_allVars
       => (part = "vpu_faults" => ContextInv)'
<1>1. ASSUME ProgramsInit, part = "vpu_faults"
      PROVE  ContextInv
  BY <1>1, ContextInitInv DEF ProgramsInit
<1>2. ASSUME part = "vpu_faults" => ContextInv, [ProgramsNext]_allVars, part' = "vpu_faults"
      PROVE  ContextInv'
  <2>1. CASE UNCHANGED allVars
    <3>1. ContextInv /\ UNCHANGED vpuVars
      BY <1>2, <2>1 DEF allVars
    <3>. QED  BY <3>1 DEF vpuVars, ContextInv, Joined, All
  <2>2. CASE ProgramsNext
    <3>1. part = "vpu_faults" /\ VpuFaults!Next
      BY <1>2, <2>2 DEF ProgramsNext, InScript, InTasks, InStress, InVpu, InIndex, InAudio
    <3>. QED  BY <1>2, <3>1, ContextStep
  <2>. QED  BY <1>2, <2>1, <2>2
<1>. QED  BY <1>1, <1>2

LEMMA AudioOfPrograms ==
  /\ ProgramsInit => (part = "audio" => AudioInv)
  /\ (part = "audio" => AudioInv) /\ [ProgramsNext]_allVars => (part = "audio" => AudioInv)'
<1>1. ASSUME ProgramsInit, part = "audio"
      PROVE  AudioInv
  BY <1>1, AudioInitInv DEF ProgramsInit
<1>2. ASSUME part = "audio" => AudioInv, [ProgramsNext]_allVars, part' = "audio"
      PROVE  AudioInv'
  <2>1. CASE UNCHANGED allVars
    <3>1. AudioInv /\ UNCHANGED audioVars
      BY <1>2, <2>1 DEF allVars
    <3>2. AudioTypes'
      BY <3>1 DEF audioVars, AudioInv, AudioTypes
    <3>3. AudioStream'
      <4>1. Pending(plugin)' = Pending(plugin)
        BY <3>1 DEF audioVars, Pending
      <4>2. Counting(start, given - start)' = Counting(start, given - start)
        BY <3>1 DEF audioVars, Counting
      <4>. QED  BY <3>1, <4>1, <4>2 DEF audioVars, AudioInv, AudioStream
    <3>4. AudioLife'
      <4>1. Audio!Left(plugin)' = Audio!Left(plugin)
        BY <3>1 DEF audioVars, Audio!Left
      <4>2. Audio!NothingLeft => Audio!NothingLeft'
        BY <3>1 DEF audioVars, Audio!NothingLeft, Audio!Left
      <4>. QED  BY <3>1, <4>1, <4>2 DEF audioVars, AudioInv, AudioLife
    <3>. QED  BY <3>2, <3>3, <3>4 DEF AudioInv
  <2>2. CASE ProgramsNext
    <3>1. part = "audio" /\ Audio!Next
      BY <1>2, <2>2 DEF ProgramsNext, InScript, InTasks, InStress, InVpu, InIndex, InAudio
    <3>. QED  BY <1>2, <3>1, AudioStep
  <2>. QED  BY <1>2, <2>1, <2>2
<1>. QED  BY <1>1, <1>2

(* TestsRunAndEnd, however the threads and main interleave, for any number *)
(* of tests, tasks, pictures and frames and any scripts: a thread of the   *)
(* stress tester runs its own test or a later one, and one that shares its *)
(* tester with no other ends clean; no task or context is freed under a    *)
(* thread, every thread gives back what it took, an automatic test decodes *)
(* all its frames, and the units of a file are fed in order.               *)
THEOREM TestsKept ==
  ASSUME TasksCovered, VpuDecoderCovered
  PROVE  ProgramsSpec => []TestsRunAndEnd
<1>. DEFINE Parts == /\ part = "tasks" => TasksInv
                     /\ part = "stress" => QuitInv
                     /\ part = "auto" => AutoInv
                     /\ part = "vpu" => VpuInv
                     /\ part = "vpu_decoder" => ReleaseInv
                     /\ part = "vpu_faults" => ContextInv
<1>1. ProgramsInit => Parts
  BY TasksOfPrograms, StressOfPrograms, AutoOfPrograms, VpuOfPrograms, VpuDecoderOfPrograms,
     VpuFaultsOfPrograms
<1>2. Parts /\ [ProgramsNext]_allVars => Parts'
  BY TasksOfPrograms, StressOfPrograms, AutoOfPrograms, VpuOfPrograms, VpuDecoderOfPrograms,
     VpuFaultsOfPrograms
<1>3. Parts => TestsRunAndEnd
  BY TasksImplies, QuitImplies, AutoImplies, VpuImplies, ReleaseImplies, ContextImplies
     DEF TestsRunAndEnd
<1>. QED  BY <1>1, <1>2, <1>3, PTL DEF ProgramsSpec

(* AudioInOrder: however a stream is cut into calls its units are decoded  *)
(* once each and in order, and heard as they were decoded; and a handle    *)
(* that is closed has left nothing allocated; for any codecs, calls, sizes *)
(* and set of failing steps.                                               *)
THEOREM AudioKept ==
  ASSUME AudioCovered
  PROVE  ProgramsSpec => []AudioInOrder
<1>1. (part = "audio" => AudioInv) => AudioInOrder
  BY AudioImplies DEF AudioInOrder
<1>2. QED
  BY AudioOfPrograms, <1>1, PTL DEF ProgramsSpec

==============================================================================
