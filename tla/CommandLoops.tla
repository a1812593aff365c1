----------------------------- MODULE CommandLoops ------------------------------
(***************************************************************************)
(* The loops that send a command to a driver, wait for its answer with     *)
(* poll and fetch it with an ioctl of its own: video_plugin_poll_cmd of    *)
(* the decoder and encoder plugins ("poll_cmd"), venc_cmd_process of the   *)
(* V3 encoder library ("venc"), vdec_cmd_process, hevc_cmd_process and     *)
(* jpu_cmd_process of the old decoder library ("vdec"), and its            *)
(* vpu_4k_d2_cmd_process ("4kd2").  (VdecV3 has that of the V3 decoder     *)
(* library.)                                                               *)
(*                                                                         *)
(* The driver is external: it takes commands or refuses them, answers      *)
(* those it took one after the other and when it likes, and announces an   *)
(* answer that nobody fetched yet.                                         *)
(***************************************************************************)
EXTENDS Integers, Sequences

CONSTANTS
  Loops,           \* the loops of this instance of the model
  MaxRounds,       \* iMaxPollTryCnt; all_retry_cnt
  MaxTries,        \* iRetryCnt; retry_cnt
  MaxOutstanding,  \* commands the driver has, the caller's own counted
  Faults           \* \subseteq {"refuse", "pollerr", "hangup"}

LoopConstants ==
  /\ Loops \subseteq {"poll_cmd", "venc", "vdec", "4kd2"}
  /\ MaxRounds \in Nat \ {0} /\ MaxTries \in Nat \ {0} /\ MaxOutstanding \in Nat \ {0}
  /\ Faults \subseteq {"refuse", "pollerr", "hangup"}

VARIABLES
  loop,         \* which of the loops this caller uses
  pc,           \* "idle", "polling", "fetching"
  rounds, tries,    \* what is left of the two counters
  success,      \* success of venc_cmd_process, which no later round resets
  event,        \* what the last poll said: "timeout", "fail", "in", "err"
  brief,        \* CLOSE, BUF_FLAG_CLEAR or SEQ_HEADER of the 4K decoder
  given_up,     \* poll_timeout_exit
  general,      \* whether the result goes to a variable of its own (iVal = 0)
  param,        \* the result in the parameter block, or in that variable
  ret,          \* what the last call returned
  \* the driver (external)
  outstanding,  \* the commands it has: answered or not, by what, and whose
  gone,         \* the device is gone: neither POLLIN nor POLLERR any more
  \* history of this call
  announced,    \* a poll said POLLIN
  fetched,      \* what its last ioctl fetched
  unprocessed,  \* an answer it fetched was INVALID
  \* and of those before it
  missed        \* one came back while the driver still had its command

vars == <<loop, pc, rounds, tries, success, event, brief, given_up, general, param, ret,
          outstanding, gone, announced, fetched, unprocessed, missed>>
driver == <<outstanding, gone>>
call == <<loop, general, brief>>
history == <<announced, fetched, unprocessed, missed>>

Results == {"SUCCESS", "FAILURE", "INVALID"}   \* INVALID: ret & 0xf000
Commands == [answer : Results \cup {"none"}, mine : BOOLEAN]
Busy == [answer |-> "none", mine |-> TRUE]
Nothing == [answer |-> "none", mine |-> FALSE]

Init ==
  /\ loop \in Loops /\ pc = "idle"
  /\ rounds = 0 /\ tries = 0 /\ success = FALSE
  /\ event = "none" /\ brief = FALSE /\ given_up = FALSE
  /\ general = FALSE /\ param = "SUCCESS" /\ ret = "none"
  /\ outstanding = <<>> /\ gone = FALSE
  /\ announced = FALSE /\ fetched = Nothing /\ unprocessed = FALSE /\ missed = FALSE

Answered == outstanding # <<>> /\ Head(outstanding).answer # "none"

------------------------------------------------------------------------------
(* The driver.                                                             *)

(* The VPU finishes the first command that has no answer yet.              *)
Driver_Answer ==
  /\ ~gone
  /\ \E i \in DOMAIN outstanding, a \in Results :
       /\ outstanding[i].answer = "none"
       /\ \A j \in 1..(i - 1) : outstanding[j].answer # "none"
       /\ a = "INVALID" => loop # "poll_cmd"
       /\ outstanding' = [outstanding EXCEPT ![i].answer = a]
  /\ UNCHANGED <<call, pc, rounds, tries, success, event, given_up, param, ret, gone>>
  /\ UNCHANGED history

Driver_HangUp ==
  /\ "hangup" \in Faults /\ ~gone
  /\ gone' = TRUE /\ outstanding' = <<>>
  /\ UNCHANGED <<call, pc, rounds, tries, success, event, given_up, param, ret>>
  /\ UNCHANGED history

------------------------------------------------------------------------------
(* What the driver still has of earlier calls.                             *)
Disowned == [i \in DOMAIN outstanding |-> [outstanding[i] EXCEPT !.mine = FALSE]]

(* The command is sent.  Only poll_cmd comes back at once when it is       *)
(* refused; the others wait for an answer all the same (ioctl returns -1,  *)
(* never the -0x999 they look for).                                        *)
Begin(taken) ==
  /\ rounds' = MaxRounds /\ tries' = MaxTries /\ success' = FALSE
  /\ event' = "none" /\ given_up' = FALSE
  /\ announced' = FALSE /\ fetched' = Nothing /\ unprocessed' = FALSE
  /\ outstanding' = IF taken THEN Append(Disowned, Busy) ELSE Disowned
  /\ UNCHANGED missed

Send_poll_cmd ==
  /\ loop = "poll_cmd" /\ pc = "idle" /\ Len(outstanding) < MaxOutstanding
  /\ general' \in BOOLEAN
  /\ \/ ~gone /\ Begin(TRUE) /\ pc' = "polling" /\ UNCHANGED ret
     \/ (gone \/ "refuse" \in Faults) /\ Begin(FALSE) /\ pc' = "idle" /\ ret' = "ERROR"
  /\ UNCHANGED <<loop, brief, param, gone>>

Send_vdec ==
  /\ loop \in {"vdec", "4kd2"} /\ pc = "idle" /\ Len(outstanding) < MaxOutstanding
  /\ general' \in BOOLEAN
  /\ brief' \in IF loop = "4kd2" THEN BOOLEAN ELSE {FALSE}
  /\ \/ ~gone /\ Begin(TRUE)
     \/ (gone \/ "refuse" \in Faults) /\ Begin(FALSE)
  /\ pc' = "polling"
  /\ UNCHANGED <<loop, param, ret, gone>>

Send_venc ==
  /\ loop = "venc" /\ pc = "idle" /\ Len(outstanding) < MaxOutstanding
  /\ \/ ~gone /\ Begin(TRUE)
     \/ (gone \/ "refuse" \in Faults) /\ Begin(FALSE)
  /\ pc' = "polling"
  /\ UNCHANGED <<loop, general, brief, param, ret, gone>>

(* Mutant: a poll that timed out is not counted. *)
Poll_Timeout_NotCounted ==
  /\ pc = "polling" /\ ~gone /\ ~Answered
  /\ UNCHANGED vars

(* Mutant: one try too many. *)
Poll_Timeout_EndsLate ==
  /\ pc = "polling" /\ ~gone /\ ~Answered
  /\ tries' = tries - 1 /\ event' = "timeout"
  /\ pc' = IF tries' < 0 THEN "fetching" ELSE pc
  /\ UNCHANGED <<call, rounds, success, given_up, param, ret, driver, history>>

(* The last try ends the inner loop; a poll that fails counts like one     *)
(* that times out.                                                         *)
Poll_Timeout ==
  /\ pc = "polling" /\ ~gone /\ ~Answered /\ loop # "4kd2"
  /\ tries' = tries - 1 /\ event' \in {"timeout", "fail"}
  /\ pc' = IF tries' = 0 THEN "fetching" ELSE pc
  /\ UNCHANGED <<call, rounds, success, given_up, param, ret, driver, history>>

(* vpu_4k_d2_cmd_process stops at the first timeout: for a brief command   *)
(* on purpose, for the others because the length it looks at is another    *)
(* decoder's, always 0.                                                    *)
Poll_Timeout_4kd2 ==
  /\ pc = "polling" /\ ~gone /\ ~Answered /\ loop = "4kd2"
  /\ pc' = "fetching" /\ event' = "timeout" /\ given_up' = (given_up \/ brief)
  /\ UNCHANGED <<call, rounds, tries, success, param, ret, driver, history>>

Poll_Fail_4kd2 ==
  /\ pc = "polling" /\ ~gone /\ loop = "4kd2" /\ "pollerr" \in Faults
  /\ tries' = tries - 1 /\ event' = "fail"
  /\ pc' = IF tries' = 0 THEN "fetching" ELSE pc
  /\ UNCHANGED <<call, rounds, success, given_up, param, ret, driver, history>>

Poll_Err ==
  /\ pc = "polling" /\ ~gone /\ "pollerr" \in Faults
  /\ pc' = "fetching" /\ event' = "err"
  /\ UNCHANGED <<call, rounds, tries, success, given_up, param, ret, driver, history>>

(* Neither POLLIN nor POLLERR: polled again at once, and never counted.    *)
Poll_Unknown == pc = "polling" /\ gone /\ UNCHANGED vars

(* Mutant: poll_cmd tries for the next rounds as well. *)
Poll_In_MoreRounds ==
  /\ pc = "polling" /\ ~gone /\ Answered
  /\ pc' = "fetching" /\ announced' = TRUE /\ event' = "in"
  /\ success' = (loop # "poll_cmd")
  /\ UNCHANGED <<call, rounds, tries, given_up, param, ret, driver, fetched, unprocessed, missed>>

(* poll_cmd needs no further round, the others note it.                    *)
Poll_In ==
  /\ pc = "polling" /\ ~gone /\ Answered
  /\ pc' = "fetching" /\ announced' = TRUE /\ event' = "in"
  /\ rounds' = IF loop = "poll_cmd" THEN 1 ELSE rounds
  /\ success' = (loop # "poll_cmd")
  /\ UNCHANGED <<call, tries, given_up, param, ret, driver, fetched, unprocessed, missed>>

(* A result that the ioctl does not write: the parameter block keeps what  *)
(* is in it; a general one is 0 (iVal), or what poll returned: 0, 1 or -1, *)
(* of which -1 & 0xf000 is not 0.                                          *)
Unwritten ==
  IF ~general THEN param
  ELSE IF loop = "poll_cmd" \/ event = "timeout" THEN "SUCCESS"
  ELSE IF event = "fail" THEN "INVALID" ELSE "FAILURE"

(* The ioctl that fetches: whatever has been answered, announced or not.   *)
Fetch ==
  /\ fetched' = IF Answered THEN Head(outstanding) ELSE Nothing
  /\ param' = IF Answered THEN fetched'.answer ELSE Unwritten
  /\ unprocessed' = (unprocessed \/ fetched'.answer = "INVALID")
  /\ outstanding' = IF Answered THEN Tail(outstanding) ELSE outstanding

(* A call that comes back may leave its command with the driver.           *)
Return(r) ==
  /\ pc' = "idle" /\ ret' = r
  /\ missed' = (missed \/ \E i \in DOMAIN outstanding' : outstanding'[i].mine)

(* Each round ends with a fetch, and the last one is what counts.          *)
Result_poll_cmd ==
  /\ loop = "poll_cmd" /\ pc = "fetching"
  /\ Fetch
  /\ rounds' = rounds - 1
  /\ IF rounds' > 0 THEN pc' = "polling" /\ tries' = MaxTries /\ UNCHANGED <<ret, missed>>
     ELSE UNCHANGED tries /\ Return(IF param' = "INVALID" THEN "CODEC_EXIT" ELSE param')
  /\ UNCHANGED <<call, success, event, given_up, gone, announced>>

(* An answer that says "not processed yet" is waited for again.            *)
Again ==
  /\ Fetch
  /\ IF ~given_up /\ param' = "INVALID" /\ rounds > 1
     THEN pc' = "polling" /\ tries' = MaxTries /\ rounds' = rounds - 1
          /\ UNCHANGED <<ret, missed>>
     ELSE /\ Return(IF success /\ ~given_up /\ param' # "INVALID" THEN param' ELSE "CODEC_EXIT")
          /\ UNCHANGED <<tries, rounds>>
  /\ UNCHANGED <<call, success, event, given_up, gone, announced>>

Result_venc == loop = "venc" /\ pc = "fetching" /\ Again

Result_vdec == loop = "vdec" /\ pc = "fetching" /\ Again

Result_4kd2 == loop = "4kd2" /\ pc = "fetching" /\ Again

Loop == \/ Poll_Timeout \/ Poll_Timeout_4kd2 \/ Poll_In
        \/ Result_poll_cmd \/ Result_venc \/ Result_vdec \/ Result_4kd2

Next == \/ Send_poll_cmd \/ Send_venc \/ Send_vdec
        \/ Loop \/ Poll_Fail_4kd2 \/ Poll_Err \/ Poll_Unknown
        \/ Driver_Answer \/ Driver_HangUp

Spec == Init /\ [][Next]_vars

(* The thread that is in the loop goes on; nothing is asked of the driver, *)
(* neither an answer nor an error.                                         *)
FairSpec == Spec /\ WF_vars(Loop)

------------------------------------------------------------------------------
LoopFlags ==
  /\ success \in BOOLEAN /\ general \in BOOLEAN /\ brief \in BOOLEAN
  /\ given_up \in BOOLEAN /\ gone \in BOOLEAN /\ announced \in BOOLEAN
  /\ unprocessed \in BOOLEAN /\ missed \in BOOLEAN

(* Every variable holds a value of its type, and the counters of the loops *)
(* keep within their bounds.                                               *)
LoopTypeOK ==
  /\ loop \in Loops /\ pc \in {"idle", "polling", "fetching"}
  /\ rounds \in 0..MaxRounds /\ tries \in 0..MaxTries
  /\ LoopFlags
  /\ event \in {"none", "timeout", "fail", "in", "err"}
  /\ param \in Results /\ fetched \in Commands
  /\ ret \in Results \cup {"none", "ERROR", "CODEC_EXIT"}
  /\ outstanding \in Seq(Commands)

(* A call in which a poll announced an answer returns what its last ioctl  *)
(* fetched, and not a result made up or left over from before, unless it   *)
(* was given up; and that ioctl came back without an answer only if the    *)
(* device hung up in between, or if an answer before it had been that the  *)
(* command was not processed.                                              *)
AnnouncedAnswerReturned ==
  pc = "idle" /\ announced =>
    IF fetched = Nothing THEN gone \/ unprocessed
    ELSE ret = IF given_up \/ fetched.answer = "INVALID" THEN "CODEC_EXIT"
               ELSE fetched.answer

(* What a call fetches is the answer to its own command as long as no call *)
(* came back before the driver had answered it: nothing in the loops puts  *)
(* the two in step again, and after such a call an older command's answer  *)
(* is taken for that of the present one.                                   *)
OlderOnlyAfterMissed == fetched = Nothing \/ fetched.mine \/ missed

(* The codes that say "not processed" are never handed on.                 *)
InvalidNeverReturned == ret # "INVALID"

(* Every call comes back, however slow the driver is, whatever it refuses  *)
(* and reports - as long as the device does not hang up: POLLHUP alone     *)
(* counts as no try, and the loop polls on for ever.                       *)
CallReturnsOrGone == pc # "idle" ~> (pc = "idle" \/ gone)

==============================================================================
