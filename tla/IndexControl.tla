------------------------------ MODULE IndexControl -------------------------------
(***************************************************************************)
(* The index control (video_index_control.c) by itself, called by several  *)
(* threads.  VideoDecoder has the calls of one decoding thread; here are   *)
(* all of them, in any order, with the semaphore they take.                *)
(*                                                                         *)
(* A call obtains the semaphore, works on the lists, each access a step,   *)
(* and releases the semaphore.  The lists and the semaphore belong to a    *)
(* library outside the tree.  The vsync drivers are not compiled.          *)
(***************************************************************************)
EXTENDS Integers, SequencesExt

CONSTANTS
  Threads,
  Operations,  \* the operations they call
  Windows,     \* values of SetConfig's iMaxIndexCnt
  Misuses,     \* "no_window": Update before SetConfig; "no_callback"
  MaxPermits,  \* what the semaphore counts to
  MaxPushes,   \* pictures pushed (bound)
  MaxCalls     \* calls of a thread (bound)

IndexConstants ==
  /\ Operations \subseteq {"push", "update", "clear", "drop", "flush", "window", "reset"}
  /\ Windows \subseteq Nat \ {0} /\ Misuses \subseteq {"no_window", "no_callback"}
  /\ MaxPermits \in Nat \ {0} /\ MaxPushes \in Nat /\ MaxCalls \in Nat

VARIABLES
  hSemaphore,    \* the permits that are left
  at,            \* where each thread is: "idle", "wait", "in", ..., "leave"
  doing,         \* the operation it is in
  arg,           \* the parameter of its call
  calls,         \* the calls each thread has made
  iMaxIndexCnt,
  callback,      \* fnReleaseFrame is set
  iFrameId,
  ptListDisplay, \* pictures with their names, oldest first
  ptListClear,
  pushed,        \* history: pictures pushed
  released,      \* history: pictures given back, in order
  forgotten      \* history: pictures a Reset deleted

lists == <<ptListDisplay, ptListClear, pushed, released, forgotten, iFrameId>>

Elems(s) == {s[i] : i \in 1..Len(s)}

vars == <<hSemaphore, at, doing, arg, calls, iMaxIndexCnt, callback, lists>>

Init ==
  /\ hSemaphore = 1
  /\ at = [t \in Threads |-> "idle"] /\ doing = [t \in Threads |-> "none"]
  /\ arg = [t \in Threads |-> 0]
  /\ calls = [t \in Threads |-> 0]
  /\ iMaxIndexCnt = 0 /\ callback \in {TRUE, "no_callback" \notin Misuses} /\ iFrameId = 2
  /\ ptListDisplay = <<>> /\ ptListClear = <<>>
  /\ pushed = 0 /\ released = <<>> /\ forgotten = {}
-----------------------------------------------------------------------------
(* The semaphore.                                                          *)

Arguments(op) ==
  CASE op = "window" -> Windows
    [] op = "drop" -> 1..iFrameId
    [] OTHER -> {0}

(* A call; Clear returns at once without a window.                         *)
Call(t, op, a) ==
  /\ at[t] = "idle" /\ calls[t] < MaxCalls
  /\ op = "push" => pushed < MaxPushes
  /\ op = "clear" => iMaxIndexCnt >= 1
  /\ op = "update" /\ iMaxIndexCnt = 0 => "no_window" \in Misuses
  /\ at' = [at EXCEPT ![t] = "wait"] /\ doing' = [doing EXCEPT ![t] = op]
  /\ arg' = [arg EXCEPT ![t] = a]
  /\ calls' = [calls EXCEPT ![t] = @ + 1]
  /\ UNCHANGED <<hSemaphore, iMaxIndexCnt, callback, lists>>

(* Mutant: nobody is waited for.                                           *)
Obtain_Anyway(t) ==
  /\ at[t] = "wait" /\ at' = [at EXCEPT ![t] = "in"]
  /\ UNCHANGED <<hSemaphore, doing, arg, calls, iMaxIndexCnt, callback, lists>>

Obtain(t) ==
  /\ at[t] = "wait" /\ hSemaphore > 0
  /\ at' = [at EXCEPT ![t] = "in"] /\ hSemaphore' = hSemaphore - 1
  /\ UNCHANGED <<doing, arg, calls, iMaxIndexCnt, callback, lists>>

Permits(n) == IF n < MaxPermits THEN n + 1 ELSE n

Leave(t) ==
  /\ at[t] = "leave" /\ at' = [at EXCEPT ![t] = "idle"]
  /\ hSemaphore' = Permits(hSemaphore)
  /\ UNCHANGED <<doing, arg, calls, iMaxIndexCnt, callback, lists>>

Inside(t, op) == at[t] = "in" /\ doing[t] = op
Leaves(t) == at' = [at EXCEPT ![t] = "leave"]
own == <<hSemaphore, doing, arg, calls, callback>>
-----------------------------------------------------------------------------
(* Under the semaphore.                                                    *)

Push(t) ==
  /\ Inside(t, "push") /\ Leaves(t)
  /\ pushed' = pushed + 1 /\ iFrameId' = iFrameId + 1
  /\ ptListDisplay' = Append(ptListDisplay, [name |-> iFrameId - 1, picture |-> pushed'])
  /\ UNCHANGED <<own, iMaxIndexCnt, ptListClear, released, forgotten>>

(* SF_VideoIndexCtrl_Pop: an entry goes over to the other list.            *)
Pop(i) ==
  /\ ptListClear' = Append(ptListClear, ptListDisplay[i])
  /\ ptListDisplay' = RemoveAt(ptListDisplay, i)
  /\ UNCHANGED <<pushed, released, forgotten, iFrameId>>

Named(n) == {i \in 1..Len(ptListDisplay) : ptListDisplay[i].name = n}

Drop(t) ==
  /\ Inside(t, "drop") /\ Leaves(t)
  /\ IF Named(arg[t] - 1) = {} THEN UNCHANGED lists
     ELSE \E i \in Named(arg[t] - 1) : Pop(i)
  /\ UNCHANGED <<own, iMaxIndexCnt>>

Flush(t) ==
  /\ Inside(t, "flush")
  /\ IF ptListDisplay = <<>> THEN Leaves(t) /\ UNCHANGED lists
     ELSE Pop(1) /\ UNCHANGED at
  /\ UNCHANGED <<own, iMaxIndexCnt>>

(* Update with too few pictures releases the semaphore here and once more  *)
(* when it leaves.                                                         *)
Update_Nothing(t) ==
  /\ Inside(t, "update") /\ Len(ptListDisplay) < iMaxIndexCnt
  /\ Leaves(t) /\ hSemaphore' = Permits(hSemaphore)
  /\ UNCHANGED <<doing, arg, calls, iMaxIndexCnt, callback, lists>>

Updating(t) == Inside(t, "update") \/ at[t] = "updating"

(* While the window is full; of an empty list nothing can be popped, and   *)
(* the loop goes round without an end.                                     *)
Update_Pop(t) ==
  /\ Updating(t) /\ Len(ptListDisplay) >= iMaxIndexCnt /\ ptListDisplay # <<>>
  /\ Pop(1)
  /\ at' = [at EXCEPT ![t] = IF Len(ptListDisplay') < iMaxIndexCnt
                             THEN "leave" ELSE "updating"]
  /\ UNCHANGED <<own, iMaxIndexCnt>>

(* Clear gives the first picture back and then deletes it; without a       *)
(* callback it looks at the first picture for ever.                        *)
Clear_Calls(t) ==
  /\ Inside(t, "clear") /\ ptListClear # <<>> /\ callback
  /\ released' = Append(released, Head(ptListClear).picture)
  /\ at' = [at EXCEPT ![t] = "called"]
  /\ arg' = [arg EXCEPT ![t] = Head(ptListClear).picture]
  /\ UNCHANGED <<hSemaphore, doing, calls, iMaxIndexCnt, callback,
                 ptListDisplay, ptListClear, pushed, forgotten, iFrameId>>

Clear_Deletes(t) ==
  /\ at[t] = "called" /\ at' = [at EXCEPT ![t] = "in"]
  /\ LET entries == {i \in 1..Len(ptListClear) : ptListClear[i].picture = arg[t]}
     IN IF entries = {} THEN UNCHANGED ptListClear
        ELSE \E i \in entries : ptListClear' = RemoveAt(ptListClear, i)
  /\ UNCHANGED <<own, iMaxIndexCnt, ptListDisplay, pushed, released, forgotten, iFrameId>>

Clear_Ends(t) ==
  /\ Inside(t, "clear") /\ ptListClear = <<>> /\ Leaves(t)
  /\ UNCHANGED <<own, iMaxIndexCnt, lists>>

SetConfig_Window(t) ==
  /\ Inside(t, "window") /\ Leaves(t)
  /\ iMaxIndexCnt' = arg[t]
  /\ UNCHANGED <<own, lists>>

(* The pictures are deleted and never given back.                          *)
Reset(t) ==
  /\ Inside(t, "reset") /\ Leaves(t)
  /\ forgotten' = forgotten \union {e.picture : e \in Elems(ptListDisplay) \union Elems(ptListClear)}
  /\ ptListDisplay' = <<>> /\ ptListClear' = <<>> /\ iFrameId' = 2
  /\ UNCHANGED <<own, iMaxIndexCnt, pushed, released>>
-----------------------------------------------------------------------------
Work(t) ==
  \/ Obtain(t) \/ Leave(t) \/ Push(t) \/ Drop(t) \/ Flush(t)
  \/ Update_Nothing(t) \/ Update_Pop(t)
  \/ Clear_Calls(t) \/ Clear_Deletes(t) \/ Clear_Ends(t)
  \/ SetConfig_Window(t) \/ Reset(t)

Next ==
  \E t \in Threads :
    \/ \E op \in Operations : \E a \in Arguments(op) : Call(t, op, a)
    \/ Work(t)

(* A thread that is in a call is scheduled; a thread need never call.      *)
Spec == Init /\ [][Next]_vars /\ \A t \in Threads : WF_vars(Work(t))
-----------------------------------------------------------------------------
(* Properties.                                                             *)

Working == {t \in Threads : at[t] \notin {"idle", "wait"}}
Listed == ptListDisplay \o ptListClear

(* Every variable has its type.                                            *)
IndexTypeOK ==
  /\ hSemaphore \in 0..MaxPermits /\ iMaxIndexCnt \in Windows \union {0}
  /\ callback \in BOOLEAN /\ iFrameId \in 2..(2 + pushed)
  /\ \A t \in Threads :
       /\ at[t] \in {"idle", "wait", "in", "updating", "called", "leave"}
       /\ doing[t] \in Operations \union {"none"}
       /\ calls[t] \in 0..MaxCalls
  /\ \A i \in DOMAIN Listed : Listed[i].picture \in 1..pushed
  /\ \A i \in DOMAIN released : released[i] \in 1..pushed

(* Without Update, one thread at a time works on the lists.                *)
OneInside == \A s, t \in Working : s = t

(* No picture is lost: each is in one of the lists, given back or deleted. *)
NoneLost ==
  1..pushed = {e.picture : e \in Elems(Listed)} \union Elems(released) \union forgotten

(* No picture is in the lists twice.                                       *)
ListedOnce == \A i, j \in DOMAIN Listed : Listed[i].picture = Listed[j].picture => i = j

(* The window is a bound: when Update leaves the lists there is room for   *)
(* one picture more.                                                       *)
RoomAfterUpdate ==
  \A t \in Threads : doing[t] = "update" /\ at[t] = "leave" => Len(ptListDisplay) < iMaxIndexCnt

(* Only one thread has called so far.                                      *)
Alone == \A s, t \in Threads : calls[s] > 0 /\ calls[t] > 0 => s = t

(* Without Update one thread at a time works on the lists; no picture of   *)
(* theirs is lost or listed twice, whatever threads do, and for a thread   *)
(* that is alone the window bounds them.                                   *)
IndexListGuarded ==
  /\ "update" \notin Operations => OneInside
  /\ NoneLost /\ ListedOnce
  /\ Alone => RoomAfterUpdate

(* Every call returns.                                                     *)
CallsReturn == \A t \in Threads : at[t] # "idle" ~> at[t] = "idle"

================================================================================
