------------------------------- MODULE MCRetry -------------------------------
(***************************************************************************)
(* What waits on a clock that wraps, one a behaviour: `chosen` says        *)
(* whether the caller uses a RetryPolicy, a request_context_t or the       *)
(* monitor of the tasks' health.  The two senders have the same retries,   *)
(* the same polling and a clock of the same width.                         *)
(***************************************************************************)
EXTENDS RetryPolicy

CONSTANTS AckTimeoutMs, ExecTimeoutMs, MaxProgress,
          Task, Deadlines, MAX_MONITORED_TASKS, TickModulus, MaxSilence

VARIABLES chosen,
          r_state, r_last_send_ms, r_timeout_ms, r_retry_count,
          r_answer, r_now_ms, r_quiet, r_age, r_total, r_progress,
          h_last_alive_tick, h_deadline_ticks, h_seen, h_now_tick,
          h_expired_mask, h_valid, h_silence

request == <<r_state, r_last_send_ms, r_timeout_ms, r_retry_count,
             r_answer, r_now_ms, r_quiet, r_age, r_total, r_progress>>

Request == INSTANCE RequestMachine
              WITH state <- r_state, last_send_ms <- r_last_send_ms,
                   timeout_ms <- r_timeout_ms, retry_count <- r_retry_count,
                   answer <- r_answer, now_ms <- r_now_ms, quiet <- r_quiet,
                   age <- r_age, total <- r_total, progress <- r_progress

health == <<h_last_alive_tick, h_deadline_ticks, h_seen, h_now_tick,
            h_expired_mask, h_valid, h_silence>>

Health == INSTANCE TaskHealth
             WITH last_alive_tick <- h_last_alive_tick,
                  deadline_ticks <- h_deadline_ticks, seen <- h_seen,
                  now_tick <- h_now_tick, expired_mask <- h_expired_mask,
                  valid <- h_valid, silence <- h_silence

ASSUME ClockAssumption == Request!ConstantsOK /\ Health!ConstantsOK

SuiteInit ==
    /\ chosen \in {"policy", "request", "health"}
    /\ Init /\ Request!Init
    /\ chosen # "policy" => now_ms = 0 /\ \A s \in Seqs : expected_seq_ <= s
    /\ chosen # "request" => r_now_ms = 0
    /\ Health!Init
    /\ chosen # "health" =>
          /\ h_now_tick = 0
          /\ \A i \in Task, d \in Deadlines : h_deadline_ticks[i] <= d

SuiteNext ==
    /\ UNCHANGED chosen
    /\ \/ chosen = "policy" /\ Next /\ UNCHANGED <<request, health>>
       \/ chosen = "request" /\ Request!Next /\ UNCHANGED <<vars, health>>
       \/ chosen = "health" /\ Health!Next /\ UNCHANGED <<vars, request>>

SuiteSpec == SuiteInit /\ [][SuiteNext]_<<chosen, vars, request, health>>

-----------------------------------------------------------------------------
(* The retry counters stay within the limit, and the timeout in force is   *)
(* the one of the state, so that a request does not inherit the patience   *)
(* of an earlier one in the same structure.                                *)
StatesFit == TypeOK /\ Request!TypeOK /\ Request!TimeoutFitsState

(* No retransmission and no failure before the time is really up, wherever *)
(* the clock wraps: a timeout since the last transmission or report.  No   *)
(* task is reported that has not been silent for its whole deadline.       *)
NeverEarly ==
    /\ NeverTooSoon /\ Request!NeverTooSoon
    /\ []Health!ReportedIsSilent

(* A polled request is decided within one timeout and one polling period   *)
(* for each transmission and each progress report; a silent task is in the *)
(* next mask unless it was silent for a whole revolution of the counter.   *)
NeverLate ==
    DecidedInTime /\ Request!DecidedInTime /\ Health!SilentIsReported

(* Two timeouts make no difference to the promise: a bounded number of     *)
(* transmissions and a single decision, which no late ACK changes.         *)
DecidedOnce == ImplementsRetrySpec /\ Request!ImplementsRetrySpec
=============================================================================
