---------------------------- MODULE RequestMachine ----------------------------
(***************************************************************************)
(* seventh_stage/day11/retry_state_machine.c: a request with two timeouts. *)
(* An IN_PROGRESS ACK moves it to REQ_EXECUTING, sets the long timeout and *)
(* restarts the wait; timeouts retransmit or, when no retry is left, fail  *)
(* the request.  The clock is 32 bits wide and wraps.                      *)
(*                                                                         *)
(* The two ACK functions have no sequence number: the caller hands them    *)
(* only the ACKs of this request, but may do so at any time.  A request    *)
(* exists from its first request_init on; REQ_IDLE, which no function      *)
(* assigns, is not modelled.                                               *)
(***************************************************************************)
EXTENDS Integers

CONSTANTS AckTimeoutMs,         \* 1500 in the code
          ExecTimeoutMs,        \* 5000 in the code
          MaxRetries,           \* max_retries, 2 in the code
          TimeModulus,          \* 2^32 in the code
          PollEvery,            \* the longest time between two polls
          MaxProgress           \* bound: IN_PROGRESS ACKs per request; the
                                \* code takes any number of them, and each
                                \* one starts the long wait again

ConstantsOK ==
    /\ AckTimeoutMs \in Nat /\ ExecTimeoutMs \in Nat
    /\ PollEvery \in Nat \ {0} /\ TimeModulus \in Nat
    /\ AckTimeoutMs + PollEvery < TimeModulus
    /\ ExecTimeoutMs + PollEvery < TimeModulus
    /\ MaxRetries \in Nat /\ MaxProgress \in Nat

(* The longest a request may take: one wait for each transmission and each *)
(* progress report.                                                        *)
LongestTimeout == IF AckTimeoutMs > ExecTimeoutMs THEN AckTimeoutMs ELSE ExecTimeoutMs
Patience == (MaxRetries + 1 + MaxProgress) * (LongestTimeout + PollEvery)

Final == {"REQ_SUCCEEDED", "REQ_FAILED"}
Pending == {"REQ_WAIT_ACK", "REQ_EXECUTING"}

VARIABLES state, last_send_ms, timeout_ms, retry_count,
          answer,       \* the last call and what it returned
          now_ms,       \* the caller's clock
          quiet,        \* ms since the last request_should_retry
          age,          \* history: ms waited since last_send_ms was written
          total,        \* history: ms waited since request_init, up to Patience + 1
          progress      \* IN_PROGRESS ACKs of this request

request == <<state, last_send_ms, timeout_ms, retry_count>>
vars == <<request, answer, now_ms, quiet, age, total, progress>>

Init == /\ now_ms \in 0 .. TimeModulus - 1
        /\ state = "REQ_WAIT_ACK" /\ last_send_ms = now_ms
        /\ timeout_ms = AckTimeoutMs /\ retry_count = 0
        /\ answer = "init" /\ quiet = 0 /\ age = 0 /\ total = 0 /\ progress = 0

(* Mutant: the long timeout of an earlier request stays. *)
request_init_OldTimeout ==
    /\ state' = "REQ_WAIT_ACK"
    /\ last_send_ms' = now_ms
    /\ retry_count' = 0
    /\ answer' = "init" /\ age' = 0 /\ total' = 0 /\ progress' = 0
    /\ UNCHANGED <<timeout_ms, now_ms, quiet>>

request_init == /\ state' = "REQ_WAIT_ACK"
                /\ last_send_ms' = now_ms
                /\ timeout_ms' = AckTimeoutMs
                /\ retry_count' = 0
                /\ answer' = "init" /\ age' = 0 /\ total' = 0 /\ progress' = 0
                /\ UNCHANGED <<now_ms, quiet>>

(* Mutant: the clock is compared with a deadline that may have wrapped. *)
Expired_Deadline == now_ms >= (last_send_ms + timeout_ms) % TimeModulus

Expired == (now_ms - last_send_ms) % TimeModulus >= timeout_ms

NotYet == /\ state \in Pending => ~Expired
          /\ answer' = "wait" /\ quiet' = 0
          /\ UNCHANGED <<request, now_ms, age, total, progress>>

Exhausted == retry_count >= MaxRetries

GiveUp == /\ state \in Pending /\ Expired /\ Exhausted
          /\ state' = "REQ_FAILED"
          /\ answer' = "failed" /\ quiet' = 0
          /\ UNCHANGED <<last_send_ms, timeout_ms, retry_count, now_ms, age, total,
                         progress>>

Retry == /\ state \in Pending /\ Expired /\ ~Exhausted
         /\ retry_count' = retry_count + 1
         /\ last_send_ms' = now_ms
         /\ answer' = "retry" /\ quiet' = 0 /\ age' = 0
         /\ UNCHANGED <<state, timeout_ms, now_ms, total, progress>>

request_should_retry == NotYet \/ GiveUp \/ Retry

AckTooLate == /\ state \in Final
              /\ answer' = "late"
              /\ UNCHANGED <<request, now_ms, quiet, age, total, progress>>

AckInProgress == /\ state \notin Final
                 /\ progress < MaxProgress /\ progress' = progress + 1
                 /\ state' = "REQ_EXECUTING"
                 /\ timeout_ms' = ExecTimeoutMs
                 /\ last_send_ms' = now_ms /\ age' = 0
                 /\ answer' = "in_progress"
                 /\ UNCHANGED <<retry_count, now_ms, quiet, total>>

(* Mutant: a late ACK makes a failed request succeed. *)
AckOk_AnyState == /\ state' = "REQ_SUCCEEDED"
                  /\ answer' = "ok"
                  /\ UNCHANGED <<last_send_ms, timeout_ms, retry_count,
                                 now_ms, quiet, age, total, progress>>

AckOk == /\ state \notin Final
         /\ state' = "REQ_SUCCEEDED"
         /\ answer' = "ok"
         /\ UNCHANGED <<last_send_ms, timeout_ms, retry_count,
                        now_ms, quiet, age, total, progress>>

(* A millisecond passes; the caller never lets PollEvery pass unpolled. *)
Tick == /\ quiet < PollEvery
        /\ now_ms' = (now_ms + 1) % TimeModulus
        /\ quiet' = quiet + 1
        /\ age' = IF state \in Pending THEN age + 1 ELSE age
        /\ total' = IF state \in Pending /\ total <= Patience THEN total + 1 ELSE total
        /\ UNCHANGED <<request, answer, progress>>

Next == \/ request_init \/ request_should_retry
        \/ AckTooLate \/ AckInProgress \/ AckOk \/ Tick

Spec == Init /\ [][Next]_vars

-----------------------------------------------------------------------------
TypeOK == /\ state \in Pending \cup Final
          /\ last_send_ms \in 0 .. TimeModulus - 1
          /\ timeout_ms \in {AckTimeoutMs, ExecTimeoutMs}
          /\ retry_count \in 0 .. MaxRetries
          /\ now_ms \in 0 .. TimeModulus - 1
          /\ quiet \in 0 .. PollEvery
          /\ age \in Nat /\ total \in Nat /\ progress \in 0 .. MaxProgress

(* The timeout in force is always the one of the state, so that a request  *)
(* that reuses the structure does not inherit the patience of the last.    *)
TimeoutFitsState == /\ state = "REQ_WAIT_ACK" => timeout_ms = AckTimeoutMs
                    /\ state = "REQ_EXECUTING" => timeout_ms = ExecTimeoutMs

(* A request is repeated or failed by a timeout only after it has really   *)
(* waited that long since it was last sent or last reported progress.      *)
NeverTooSoon ==
    [][retry_count' > retry_count \/ (state \in Pending /\ state' = "REQ_FAILED")
       => age >= (IF state = "REQ_WAIT_ACK" THEN AckTimeoutMs ELSE ExecTimeoutMs)]_vars

(* A polled request is decided in bounded time however many retries and    *)
(* progress reports it takes.                                              *)
DecidedInTime == state \in Pending => total <= Patience

Outcome == CASE state \in Pending -> "pending"
             [] state = "REQ_SUCCEEDED" -> "succeeded"
             [] state = "REQ_FAILED" -> "failed"

Abstract == INSTANCE RetrySpec WITH outcome <- Outcome,
                                    left <- MaxRetries - retry_count

(* Two timeouts make no difference to the promise: the same bounded number *)
(* of transmissions, the same single decision.                             *)
ImplementsRetrySpec == Abstract!Spec
=============================================================================
