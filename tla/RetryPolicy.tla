------------------------------ MODULE RetryPolicy ------------------------------
(***************************************************************************)
(* seventh_stage/day07/retry_policy.cpp: one outstanding request that is   *)
(* retransmitted when no final ACK arrives in time.                        *)
(*                                                                         *)
(* The clock is the caller's and the code subtracts unsigned times, so     *)
(* now_ms runs modulo TimeModulus.  The caller calls on_timeout at least   *)
(* every PollEvery ms, which is all that is assumed of it: it may start a  *)
(* new request, or be handed any ACK, at any time.  The history variables  *)
(* age and total measure real time and do not wrap; total stops counting   *)
(* once it has passed Patience, the longest time a request may take.       *)
(***************************************************************************)
EXTENDS Integers

CONSTANTS Seqs,                 \* sequence numbers the caller uses
          TimeoutMs,            \* timeout_ms_, 100 in the code
          MaxRetries,           \* max_retries_, 3 in the code
          TimeModulus,          \* 2^64 in the code
          PollEvery             \* the longest time between two polls

ASSUME TimeAssumption == /\ TimeoutMs \in Nat /\ PollEvery \in Nat \ {0}
                         /\ TimeModulus \in Nat
                         /\ TimeoutMs + PollEvery < TimeModulus
ASSUME RetriesAssumption == MaxRetries \in Nat

Patience == (MaxRetries + 1) * (TimeoutMs + PollEvery)

Final == {"SUCCEEDED", "FAILED"}
RetryState == {"IDLE", "WAITING"} \cup Final
AckStatus == {"IN_PROGRESS", "OK", "PREEMPTED", "BUSY", "ERROR"}
(* false or true of on_ack, or the TimeoutAction of on_timeout *)
Answer == {"ignored", "accepted", "NONE", "RETRY", "FAILED"}

VARIABLES state_, expected_seq_, last_send_ms_, retries_used_,
          answer,       \* what the last call returned
          now_ms,       \* the caller's clock
          quiet,        \* ms since the last on_timeout
          age,          \* history: ms the request has waited since it was last sent
          total         \* history: ms the request has waited since it was started

policy == <<state_, expected_seq_, last_send_ms_, retries_used_>>
vars == <<policy, answer, now_ms, quiet, age, total>>

Init == /\ state_ = "IDLE" /\ expected_seq_ \in Seqs
        /\ last_send_ms_ = 0 /\ retries_used_ = 0
        /\ answer = "NONE"
        /\ now_ms \in 0 .. TimeModulus - 1
        /\ quiet = 0 /\ age = 0 /\ total = 0

start(seq) == /\ expected_seq_' = seq
              /\ last_send_ms_' = now_ms
              /\ retries_used_' = 0
              /\ state_' = "WAITING"
              /\ age' = 0 /\ total' = 0
              /\ answer' = "NONE"
              /\ UNCHANGED <<now_ms, quiet>>

(* Mutant: the sequence number of the ACK is not looked at. *)
Expected_AnySeq(seq) == state_ = "WAITING"

Expected(seq) == state_ = "WAITING" /\ seq = expected_seq_

AckIgnored(seq) == /\ ~Expected(seq)
                   /\ answer' = "ignored"
                   /\ UNCHANGED <<policy, now_ms, quiet, age, total>>

AckInProgress(seq) == /\ Expected(seq)
                      /\ answer' = "accepted"
                      /\ UNCHANGED <<policy, now_ms, quiet, age, total>>

AckFinal(seq, status) ==
    /\ Expected(seq)
    /\ status # "IN_PROGRESS"
    /\ state_' = IF status = "OK" THEN "SUCCEEDED" ELSE "FAILED"
    /\ answer' = "accepted"
    /\ UNCHANGED <<expected_seq_, last_send_ms_, retries_used_,
                   now_ms, quiet, age, total>>

on_ack(seq, status) == \/ AckIgnored(seq)
                       \/ status = "IN_PROGRESS" /\ AckInProgress(seq)
                       \/ AckFinal(seq, status)

Expired == (now_ms - last_send_ms_) % TimeModulus >= TimeoutMs

Exhausted == retries_used_ >= MaxRetries

NotExpired == /\ state_ = "WAITING" => ~Expired
              /\ answer' = "NONE"
              /\ quiet' = 0
              /\ UNCHANGED <<policy, now_ms, age, total>>

GiveUp == /\ state_ = "WAITING" /\ Expired
          /\ Exhausted
          /\ state_' = "FAILED"
          /\ answer' = "FAILED"
          /\ quiet' = 0
          /\ UNCHANGED <<expected_seq_, last_send_ms_, retries_used_,
                         now_ms, age, total>>

(* Mutant: the retries are not counted. *)
Retry_NotCounted == /\ state_ = "WAITING" /\ Expired
                    /\ ~Exhausted
                    /\ last_send_ms_' = now_ms
                    /\ age' = 0
                    /\ answer' = "RETRY"
                    /\ quiet' = 0
                    /\ UNCHANGED <<state_, expected_seq_, retries_used_, now_ms, total>>

Retry == /\ state_ = "WAITING" /\ Expired
         /\ ~Exhausted
         /\ retries_used_' = retries_used_ + 1
         /\ last_send_ms_' = now_ms
         /\ age' = 0
         /\ answer' = "RETRY"
         /\ quiet' = 0
         /\ UNCHANGED <<state_, expected_seq_, now_ms, total>>

on_timeout == NotExpired \/ GiveUp \/ Retry

(* A millisecond passes; the caller never lets PollEvery pass unpolled. *)
Tick == /\ quiet < PollEvery
        /\ now_ms' = (now_ms + 1) % TimeModulus
        /\ quiet' = quiet + 1
        /\ age' = IF state_ = "WAITING" THEN age + 1 ELSE age
        /\ total' = IF state_ = "WAITING" /\ total <= Patience
                    THEN total + 1 ELSE total
        /\ UNCHANGED <<policy, answer>>

Next == \/ \E seq \in Seqs : start(seq)
        \/ \E seq \in Seqs, status \in AckStatus : on_ack(seq, status)
        \/ on_timeout
        \/ Tick

Spec == Init /\ [][Next]_vars

-----------------------------------------------------------------------------
TypeOK == /\ state_ \in RetryState
          /\ expected_seq_ \in Seqs
          /\ last_send_ms_ \in 0 .. TimeModulus - 1
          /\ retries_used_ \in 0 .. MaxRetries
          /\ now_ms \in 0 .. TimeModulus - 1
          /\ quiet \in 0 .. PollEvery
          /\ age \in Nat /\ total \in Nat
          /\ answer \in Answer

GivesUp == state_ = "WAITING" /\ answer' = "FAILED"
Repeats == retries_used_' > retries_used_

(* A command is repeated, or given up, only after it has really waited     *)
(* TimeoutMs since its last transmission, wherever the clock wraps.        *)
NeverTooSoon == [][Repeats \/ GivesUp => age >= TimeoutMs]_vars

(* A polled request is decided within one timeout and one polling period   *)
(* for each transmission, whatever ACKs arrive in between.                 *)
DecidedInTime == state_ = "WAITING" => total <= Patience

Outcome == CASE state_ = "IDLE" -> "none"
             [] state_ = "WAITING" -> "pending"
             [] state_ = "SUCCEEDED" -> "succeeded"
             [] state_ = "FAILED" -> "failed"

Abstract == INSTANCE RetrySpec WITH outcome <- Outcome,
                                    left <- MaxRetries - retries_used_

(* The policy sends a request at most MaxRetries times more and decides    *)
(* its outcome once: late and foreign ACKs change nothing.                 *)
ImplementsRetrySpec == Abstract!Spec
=============================================================================
