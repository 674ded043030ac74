------------------------------ MODULE RetryProofs ------------------------------
(***************************************************************************)
(* Proofs about what waits on a clock that wraps (MCRetry): RetryPolicy,   *)
(* RequestMachine and TaskHealth, for every timeout, number of retries,    *)
(* polling period, deadline and width of the clock.  All three rest on the *)
(* same fact: the clock shows the real age of what it measures, as long as *)
(* that is shorter than a revolution.                                      *)
(***************************************************************************)
EXTENDS MCRetry, TLAPS

(* One revolution at most: the remainder is the number, or n less. *)
LEMMA WrapOnce ==
    \A n, a \in Nat : n > 0 /\ a < n + n
                      => a % n = IF a < n THEN a ELSE a - n
<1> SUFFICES ASSUME NEW n \in Nat, NEW a \in Nat, n > 0, a < n + n
             PROVE  a % n = IF a < n THEN a ELSE a - n
  OBVIOUS
<1>1. CASE a < n
  BY <1>1
<1>2. CASE a >= n
  BY <1>2
<1>3. QED
  BY <1>1, <1>2

(* A reading of the clock fits its width. *)
LEMMA WrapInRange ==
    ASSUME NEW n \in Nat \ {0}, NEW a \in Nat
    PROVE  a % n \in 0 .. n - 1
  OBVIOUS

(* The remainder is what is left over after whole revolutions. *)
LEMMA RemainderUnique ==
    ASSUME NEW n \in Nat, n > 0, NEW q \in Int, NEW r \in Nat, r < n,
           NEW a \in Nat, a = n * q + r
    PROVE  a % n = r
  OBVIOUS

(* A clock that is stepped shows the next reading. *)
LEMMA NextOfRemainder ==
    \A n, a \in Nat : n > 0 => ((a % n) + 1) % n = (a + 1) % n
<1> SUFFICES ASSUME NEW n \in Nat, NEW a \in Nat, n > 0
             PROVE  ((a % n) + 1) % n = (a + 1) % n
  OBVIOUS
<1> DEFINE q == a \div n
           r == a % n
<1>1. q \in Int /\ r \in Nat /\ r < n /\ a = n * q + r
  OBVIOUS
<1> HIDE DEF q, r
<1>2. CASE r + 1 < n
  <2>1. a + 1 = n * q + (r + 1)
    BY <1>1
  <2>2. (a + 1) % n = r + 1
    BY <1>1, <1>2, <2>1, RemainderUnique
  <2>3. (r + 1) % n = r + 1
    BY <1>1, <1>2, WrapOnce
  <2>4. QED
    BY <2>2, <2>3 DEF r
<1>3. CASE r + 1 = n
  <2>1. a + 1 = n * (q + 1) + 0
    BY <1>1, <1>3
  <2>2. (a + 1) % n = 0
    BY <1>1, <2>1, RemainderUnique
  <2>3. (r + 1) % n = 0
    BY <1>1, <1>3, WrapOnce
  <2>4. QED
    BY <2>2, <2>3 DEF r
<1>4. QED
  BY <1>1, <1>2, <1>3

(* Below zero the remainder counts from the other end. *)
LEMMA RemainderOfInteger ==
    ASSUME NEW n \in Nat, n > 0, NEW r \in Nat, r < n
    PROVE  (r - n) % n = r
  OBVIOUS

(* The subtraction of two clock readings that are less than a revolution   *)
(* apart gives the time between them, also when the clock has wrapped.     *)
LEMMA Elapsed ==
    ASSUME NEW n \in Nat, n > 0, NEW start0 \in 0 .. n - 1, NEW t \in Nat, t < n
    PROVE  (((start0 + t) % n) - start0) % n = t
<1>1. (start0 + t) % n = IF start0 + t < n THEN start0 + t ELSE start0 + t - n
  <2>1. start0 + t \in Nat /\ start0 + t < n + n
    OBVIOUS
  <2>2. QED
    BY <2>1, WrapOnce
<1>2. CASE start0 + t < n
  <2>1. ((start0 + t) % n) - start0 = t
    BY <1>1, <1>2
  <2>2. t % n = t
    BY WrapOnce
  <2>3. QED
    BY <2>1, <2>2
<1>3. CASE start0 + t >= n
  <2>1. ((start0 + t) % n) - start0 = t - n
    BY <1>1, <1>3
  <2>2. (t - n) % n = t
    BY RemainderOfInteger
  <2>3. QED
    BY <2>1, <2>2
<1>4. QED
  BY <1>2, <1>3

(* A further retry allows one more round. *)
LEMMA Distribute ==
    ASSUME NEW r \in Nat, NEW w \in Nat
    PROVE  (r + 1) * w = r * w + w /\ r * w \in Nat
  OBVIOUS

LEMMA Monotone ==
    ASSUME NEW r \in Nat, NEW s \in Nat, NEW w \in Nat, r <= s
    PROVE  r * w <= s * w
  OBVIOUS

-----------------------------------------------------------------------------
(* RetryPolicy *)

Round == TimeoutMs + PollEvery

(* The wait of a request that is not decided. *)
Waits == state_ = "WAITING" =>
            /\ now_ms = (last_send_ms_ + age) % TimeModulus
            /\ age <= TimeoutMs + quiet
            /\ total <= retries_used_ * Round + age
            /\ answer # "FAILED"

PolicyInv == TypeOK /\ Waits

LEMMA Constants == /\ TimeoutMs \in Nat /\ PollEvery \in Nat /\ PollEvery > 0
                   /\ TimeModulus \in Nat /\ TimeModulus > 0
                   /\ TimeoutMs + PollEvery < TimeModulus
                   /\ MaxRetries \in Nat
                   /\ Round \in Nat
  BY TimeAssumption, RetriesAssumption
     DEF TimeAssumption, RetriesAssumption, Round

(* While it waits, a request's expiry is decided by its real age. *)
LEMMA ExpiredIsAge ==
    ASSUME PolicyInv, state_ = "WAITING"
    PROVE  /\ Expired <=> age >= TimeoutMs
           /\ age <= Round
<1>1. age \in Nat /\ age <= Round /\ age < TimeModulus
  BY Constants DEF PolicyInv, TypeOK, Waits, Round
<1>2. (now_ms - last_send_ms_) % TimeModulus = age
  <2>1. last_send_ms_ \in 0 .. TimeModulus - 1
    BY DEF PolicyInv, TypeOK
  <2>2. now_ms = (last_send_ms_ + age) % TimeModulus
    BY DEF PolicyInv, Waits
  <2>3. (((last_send_ms_ + age) % TimeModulus) - last_send_ms_) % TimeModulus = age
    BY <1>1, <2>1, Constants, Elapsed
  <2>4. QED
    BY <2>2, <2>3
<1>3. QED
  BY <1>1, <1>2 DEF Expired

LEMMA PolicyInit == Init => PolicyInv
  BY Constants DEF Init, PolicyInv, TypeOK, Waits, RetryState, Answer, Final

LEMMA PolicyStep == PolicyInv /\ [Next]_vars => PolicyInv'
<1> SUFFICES ASSUME PolicyInv, [Next]_vars PROVE PolicyInv'
  OBVIOUS
<1>0. /\ now_ms \in 0 .. TimeModulus - 1 /\ last_send_ms_ \in 0 .. TimeModulus - 1
      /\ age \in Nat /\ total \in Nat /\ quiet \in 0 .. PollEvery
      /\ retries_used_ \in 0 .. MaxRetries
  BY DEF PolicyInv, TypeOK
<1>1. ASSUME NEW seq \in Seqs, start(seq) PROVE PolicyInv'
  <2>1. TypeOK'
    BY <1>0, <1>1, Constants DEF start, PolicyInv, TypeOK, RetryState, Answer
  <2>2. now_ms % TimeModulus = now_ms
    BY <1>0, Constants, WrapOnce
  <2>3. 0 * Round = 0
    BY Constants
  <2>4. Waits'
    BY <1>0, <1>1, <2>2, <2>3, Constants DEF start, Waits
  <2>5. QED
    BY <2>1, <2>4 DEF PolicyInv
<1>2. ASSUME NEW seq \in Seqs, NEW status \in AckStatus, on_ack(seq, status)
      PROVE  PolicyInv'
  <2>1. CASE AckIgnored(seq) \/ AckInProgress(seq)
    BY <2>1 DEF AckIgnored, AckInProgress, policy, PolicyInv, TypeOK, Waits, Answer, Round
  <2>2. CASE AckFinal(seq, status)
    <3>1. state_' \in Final
      BY <2>2 DEF AckFinal, Final
    <3>2. QED
      BY <2>2, <3>1 DEF AckFinal, PolicyInv, TypeOK, Waits, Answer, RetryState, Final
  <2>3. QED
    BY <1>2, <2>1, <2>2 DEF on_ack
<1>3. CASE NotExpired
  <2>1. TypeOK'
    BY <1>0, <1>3, Constants DEF NotExpired, policy, PolicyInv, TypeOK, Answer
  <2>2. state_ = "WAITING" => age <= TimeoutMs
    <3>1. state_ = "WAITING" => ~(age >= TimeoutMs)
      BY <1>3, ExpiredIsAge DEF NotExpired
    <3>2. QED
      BY <1>0, <3>1, Constants
  <2>3. Waits'
    BY <1>0, <1>3, <2>2, Constants DEF NotExpired, policy, PolicyInv, Waits, Round
  <2>4. QED
    BY <2>1, <2>3 DEF PolicyInv
<1>4. CASE GiveUp
  BY <1>0, <1>4, Constants
     DEF GiveUp, PolicyInv, TypeOK, Waits, RetryState, Final, Answer
<1>5. CASE Retry
  <2>1. retries_used_ + 1 \in 0 .. MaxRetries
    BY <1>0, <1>5, Constants DEF Retry, Exhausted
  <2>2. TypeOK'
    BY <1>0, <1>5, <2>1, Constants DEF Retry, PolicyInv, TypeOK, Answer
  <2>3. total <= (retries_used_ + 1) * Round
    <3>1. age <= Round
      BY <1>5, ExpiredIsAge DEF Retry
    <3>2. total <= retries_used_ * Round + age
      BY <1>5 DEF Retry, PolicyInv, Waits
    <3>3. /\ (retries_used_ + 1) * Round = retries_used_ * Round + Round
          /\ retries_used_ * Round \in Nat
      BY <1>0, Constants, Distribute
    <3>4. QED
      BY <1>0, <3>1, <3>2, <3>3, Constants
  <2>4. now_ms % TimeModulus = now_ms
    BY <1>0, Constants, WrapOnce
  <2>5. Waits'
    <3>1. /\ now_ms' = (last_send_ms_' + age') % TimeModulus
          /\ age' <= TimeoutMs + quiet' /\ answer' # "FAILED"
      BY <1>0, <1>5, <2>4, Constants DEF Retry
    <3>2. total' <= retries_used_' * Round + age'
      BY <1>0, <1>5, <2>1, <2>3, Constants, Distribute DEF Retry
    <3>3. QED
      BY <3>1, <3>2 DEF Waits, Round
  <2>6. QED
    BY <2>2, <2>5 DEF PolicyInv
<1>6. CASE Tick
  <2>1. (now_ms + 1) % TimeModulus \in 0 .. TimeModulus - 1
    BY <1>0, Constants, WrapInRange
  <2>2. TypeOK'
    BY <1>0, <1>6, <2>1, Constants DEF Tick, policy, PolicyInv, TypeOK
  <2>3. ASSUME state_ = "WAITING" PROVE Waits'
    <3>1. (((last_send_ms_ + age) % TimeModulus) + 1) % TimeModulus
             = (last_send_ms_ + age + 1) % TimeModulus
      <4> DEFINE a == last_send_ms_ + age
      <4>1. a \in Nat /\ TimeModulus \in Nat /\ TimeModulus > 0
        BY <1>0, Constants
      <4> HIDE DEF a
      <4>2. ((a % TimeModulus) + 1) % TimeModulus = (a + 1) % TimeModulus
        BY <4>1, NextOfRemainder
      <4>3. QED
        BY <4>2 DEF a
    <3>2. now_ms' = (last_send_ms_' + age') % TimeModulus
      <4>1. last_send_ms_' + age' = last_send_ms_ + age + 1
        BY <1>0, <1>6, <2>3 DEF Tick, policy
      <4>2. now_ms' = (now_ms + 1) % TimeModulus
        BY <1>6 DEF Tick
      <4>3. now_ms = (last_send_ms_ + age) % TimeModulus
        BY <2>3 DEF PolicyInv, Waits
      <4>4. QED
        BY <3>1, <4>1, <4>2, <4>3
    <3>3. /\ age' <= TimeoutMs + quiet'
          /\ answer' # "FAILED"
      BY <1>0, <1>6, <2>3, Constants DEF Tick, policy, PolicyInv, Waits
    <3>4. total' <= retries_used_' * Round + age'
      <4>1. total <= retries_used_ * Round + age
        BY <2>3 DEF PolicyInv, Waits
      <4>2. retries_used_ * Round \in Nat
        BY <1>0, Constants, Distribute
      <4>3. total' <= total + 1 /\ age' = age + 1 /\ retries_used_' = retries_used_
        BY <1>0, <1>6, <2>3 DEF Tick, policy
      <4>4. total' \in Nat
        BY <2>2 DEF TypeOK
      <4>5. QED
        BY <1>0, <4>1, <4>2, <4>3, <4>4
    <3>5. QED
      BY <3>2, <3>3, <3>4 DEF Waits, Round
  <2>4. state_ # "WAITING" => Waits'
    BY <1>6 DEF Tick, policy, Waits
  <2>5. QED
    BY <2>2, <2>3, <2>4 DEF PolicyInv
<1>7. CASE UNCHANGED vars
  BY <1>7 DEF vars, policy, PolicyInv, TypeOK, Waits, Round
<1>8. QED
  BY <1>1, <1>2, <1>3, <1>4, <1>5, <1>6, <1>7 DEF Next, on_timeout

-----------------------------------------------------------------------------
(* The retry counter stays within the limit and the clock within its width. *)
THEOREM TypeCorrect == Spec => []TypeOK
<1>1. PolicyInv => TypeOK
  BY DEF PolicyInv
<1>2. QED
  BY PolicyInit, PolicyStep, <1>1, PTL DEF Spec

(* A polled request is decided within (MaxRetries + 1) rounds of one       *)
(* timeout and one polling period, whatever ACKs arrive and wherever the   *)
(* clock wraps.                                                            *)
THEOREM DecidedInTimeHolds == Spec => []DecidedInTime
<1>1. PolicyInv => DecidedInTime
  <2> SUFFICES ASSUME PolicyInv, state_ = "WAITING" PROVE total <= Patience
    BY DEF DecidedInTime
  <2>1. retries_used_ \in Nat /\ retries_used_ <= MaxRetries
        /\ age \in Nat /\ total \in Nat
    BY Constants DEF PolicyInv, TypeOK
  <2>2. retries_used_ * Round <= MaxRetries * Round
    BY <2>1, Constants, Monotone
  <2>3. /\ Patience = MaxRetries * Round + Round
        /\ MaxRetries * Round \in Nat /\ retries_used_ * Round \in Nat
    BY <2>1, Constants, Distribute DEF Patience, Round
  <2>4. age <= Round
    BY ExpiredIsAge
  <2>5. total <= retries_used_ * Round + age
    BY DEF PolicyInv, Waits
  <2>6. QED
    BY <2>1, <2>2, <2>3, <2>4, <2>5, Constants
<1>2. QED
  BY PolicyInit, PolicyStep, <1>1, PTL DEF Spec

LEMMA PolicyNotTooSoon ==
    PolicyInv /\ [Next]_vars => [Repeats \/ GivesUp => age >= TimeoutMs]_vars
<1> SUFFICES ASSUME PolicyInv, Next, Repeats \/ GivesUp PROVE age >= TimeoutMs
  OBVIOUS
<1>0. retries_used_ \in Nat
  BY Constants DEF PolicyInv, TypeOK
<1>1. ASSUME NEW seq \in Seqs PROVE ~start(seq)
  BY <1>0 DEF start, Repeats, GivesUp
<1>2. ASSUME NEW seq \in Seqs, NEW status \in AckStatus PROVE ~on_ack(seq, status)
  BY <1>0 DEF on_ack, AckIgnored, AckInProgress, AckFinal, policy, Repeats, GivesUp
<1>3. ~NotExpired
  BY <1>0 DEF NotExpired, policy, Repeats, GivesUp
<1>4. ~Tick
  BY <1>0 DEF Tick, policy, PolicyInv, Waits, Repeats, GivesUp
<1>5. GiveUp \/ Retry
  BY <1>1, <1>2, <1>3, <1>4 DEF Next, on_timeout
<1>6. QED
  BY <1>5, ExpiredIsAge DEF GiveUp, Retry

(* No retransmission and no failure before the real age of the last        *)
(* transmission has reached the timeout, wherever the clock wraps.         *)
THEOREM NeverTooSoonHolds == Spec => NeverTooSoon
  BY PolicyInit, PolicyStep, PolicyNotTooSoon, PTL DEF Spec, NeverTooSoon

LEMMA PolicyRefines == PolicyInv /\ [Next]_vars => [Abstract!Next]_(Abstract!vars)
<1> SUFFICES ASSUME PolicyInv, [Next]_vars PROVE [Abstract!Next]_(Abstract!vars)
  OBVIOUS
<1>0. retries_used_ \in 0 .. MaxRetries /\ state_ \in RetryState
  BY DEF PolicyInv, TypeOK
<1>1. ASSUME NEW seq \in Seqs, start(seq) PROVE Abstract!Begin
  BY <1>1, Constants DEF start, Abstract!Begin, Outcome
<1>2. ASSUME NEW seq \in Seqs, NEW status \in AckStatus, on_ack(seq, status)
      PROVE  Abstract!Decide \/ UNCHANGED Abstract!vars
  BY <1>2 DEF on_ack, AckIgnored, AckInProgress, AckFinal, Expected, policy,
              Abstract!Decide, Abstract!vars, Outcome
<1>3. CASE NotExpired \/ Tick \/ UNCHANGED vars
  BY <1>3 DEF NotExpired, Tick, vars, policy, Abstract!vars, Outcome
<1>4. CASE GiveUp
  <2>1. Abstract!Decide
    BY <1>4 DEF GiveUp, Abstract!Decide, Outcome
  <2>2. QED
    BY <2>1 DEF Abstract!Next
<1>5. CASE Retry
  <2>1. Abstract!Resend
    BY <1>0, <1>5, Constants DEF Retry, Exhausted, Abstract!Resend, Outcome
  <2>2. QED
    BY <2>1 DEF Abstract!Next
<1>6. QED
  BY <1>1, <1>2, <1>3, <1>4, <1>5 DEF Next, on_timeout, Abstract!Next

(* The policy, its timers hidden, sends a request at most MaxRetries times *)
(* more and decides it once.                                               *)
THEOREM RefinesRetrySpec == Spec => ImplementsRetrySpec
<1>1. Init => Abstract!Init
  BY Constants DEF Init, Abstract!Init, Outcome
<1>2. QED
  BY <1>1, PolicyInit, PolicyStep, PolicyRefines, PTL
     DEF Spec, ImplementsRetrySpec, Abstract!Spec

-----------------------------------------------------------------------------
(* RequestMachine *)

RequestRound == Request!LongestTimeout + PollEvery

(* The wait of a request that is not decided.  Each retry and each progress *)
(* report has begun a new one.                                              *)
RequestWaits ==
    r_state \in Request!Pending =>
        /\ r_now_ms = (r_last_send_ms + r_age) % TimeModulus
        /\ r_age <= r_timeout_ms + r_quiet
        /\ r_total <= (r_retry_count + r_progress) * RequestRound + r_age

RequestInv == Request!TypeOK /\ Request!TimeoutFitsState /\ RequestWaits

LEMMA RequestConstants ==
    /\ AckTimeoutMs \in Nat /\ ExecTimeoutMs \in Nat
    /\ PollEvery \in Nat /\ PollEvery > 0
    /\ TimeModulus \in Nat /\ TimeModulus > 0
    /\ AckTimeoutMs + PollEvery < TimeModulus
    /\ ExecTimeoutMs + PollEvery < TimeModulus
    /\ MaxRetries \in Nat /\ MaxProgress \in Nat
    /\ Request!LongestTimeout \in Nat
    /\ AckTimeoutMs <= Request!LongestTimeout
    /\ ExecTimeoutMs <= Request!LongestTimeout
    /\ RequestRound \in Nat
  BY ClockAssumption
     DEF ClockAssumption, Request!ConstantsOK, Request!LongestTimeout, RequestRound

LEMMA RequestRanges ==
    ASSUME RequestInv
    PROVE  /\ r_now_ms \in 0 .. TimeModulus - 1
           /\ r_last_send_ms \in 0 .. TimeModulus - 1
           /\ r_age \in Nat /\ r_total \in Nat /\ r_quiet \in 0 .. PollEvery
           /\ r_retry_count \in 0 .. MaxRetries /\ r_progress \in 0 .. MaxProgress
           /\ r_timeout_ms \in {AckTimeoutMs, ExecTimeoutMs}
           /\ r_timeout_ms \in Nat /\ r_timeout_ms <= Request!LongestTimeout
           /\ r_retry_count + r_progress \in Nat
  BY RequestConstants DEF RequestInv, Request!TypeOK

LEMMA SameRound == RequestRound' = RequestRound
  BY DEF RequestRound, Request!LongestTimeout

(* While it waits, a request's expiry is decided by its real age. *)
LEMMA RequestExpiredIsAge ==
    ASSUME RequestInv, r_state \in Request!Pending
    PROVE  /\ Request!Expired <=> r_age >= r_timeout_ms
           /\ r_age <= RequestRound
<1>1. r_age \in Nat /\ r_age <= RequestRound /\ r_age < TimeModulus
  BY RequestConstants, RequestRanges DEF RequestInv, RequestWaits, RequestRound
<1>2. (r_now_ms - r_last_send_ms) % TimeModulus = r_age
  <2>1. (((r_last_send_ms + r_age) % TimeModulus) - r_last_send_ms) % TimeModulus
           = r_age
    BY <1>1, RequestRanges, RequestConstants, Elapsed
  <2>2. r_now_ms = (r_last_send_ms + r_age) % TimeModulus
    BY DEF RequestInv, RequestWaits
  <2>3. QED
    BY <2>1, <2>2
<1>3. QED
  BY <1>1, <1>2 DEF Request!Expired

(* A new wait of the same request: one more round is allowed. *)
LEMMA NewWait ==
    ASSUME RequestInv, r_state \in Request!Pending
    PROVE  /\ r_total <= (r_retry_count + r_progress + 1) * RequestRound
           /\ r_now_ms = (r_now_ms + 0) % TimeModulus
<1> DEFINE waits == r_retry_count + r_progress
<1>1. waits \in Nat
  BY RequestRanges
<1>2. r_total <= waits * RequestRound + r_age
  BY DEF RequestInv, RequestWaits
<1>3. r_now_ms = (r_now_ms + 0) % TimeModulus
  <2>1. /\ r_now_ms \in Nat /\ r_now_ms < TimeModulus
        /\ TimeModulus \in Nat /\ TimeModulus > 0
    BY RequestRanges, RequestConstants
  <2>2. r_now_ms + 0 = r_now_ms
    BY <2>1
  <2>3. r_now_ms % TimeModulus = r_now_ms
    BY <2>1, WrapOnce
  <2>4. QED
    BY <2>2, <2>3
<1> HIDE DEF waits
<1>4. (waits + 1) * RequestRound = waits * RequestRound + RequestRound
      /\ waits * RequestRound \in Nat
  BY <1>1, RequestConstants, Distribute
<1>5. r_total <= (waits + 1) * RequestRound
  BY <1>2, <1>4, RequestExpiredIsAge, RequestRanges, RequestConstants
<1>6. QED
  BY <1>3, <1>5 DEF waits

LEMMA RequestInit == Request!Init => RequestInv
<1> SUFFICES ASSUME Request!Init PROVE RequestInv
  OBVIOUS
<1>1. r_now_ms = (r_last_send_ms + r_age) % TimeModulus
  BY RequestConstants DEF Request!Init
<1>2. r_total <= (r_retry_count + r_progress) * RequestRound + r_age
  BY RequestConstants DEF Request!Init
<1>3. Request!TypeOK /\ Request!TimeoutFitsState
  BY RequestConstants
     DEF Request!Init, Request!TypeOK, Request!TimeoutFitsState,
         Request!Pending, Request!Final
<1>4. r_age <= r_timeout_ms + r_quiet
  BY RequestConstants DEF Request!Init
<1>5. QED
  BY <1>1, <1>2, <1>3, <1>4 DEF RequestInv, RequestWaits

LEMMA RequestStep == RequestInv /\ [Request!Next]_(Request!vars) => RequestInv'
<1> SUFFICES ASSUME RequestInv, [Request!Next]_(Request!vars) PROVE RequestInv'
  OBVIOUS
<1> USE DEF Request!Pending, Request!Final
<1>0. r_state \in Request!Pending \cup Request!Final
  BY DEF RequestInv, Request!TypeOK
<1>1. CASE Request!request_init
  <2>1. Request!TypeOK' /\ Request!TimeoutFitsState'
    BY <1>1, RequestRanges, RequestConstants
       DEF Request!request_init, Request!TypeOK, Request!TimeoutFitsState
  <2>2. 0 * RequestRound = 0 /\ r_now_ms % TimeModulus = r_now_ms
    BY RequestRanges, RequestConstants
  <2>3. RequestWaits'
    BY <1>1, <2>2, RequestRanges, RequestConstants
       DEF Request!request_init, RequestWaits, RequestRound
  <2>4. QED
    BY <2>1, <2>3 DEF RequestInv
<1>2. CASE Request!NotYet
  <2>1. Request!TypeOK' /\ Request!TimeoutFitsState'
    BY <1>2, RequestRanges, RequestConstants
       DEF Request!NotYet, Request!request, RequestInv, Request!TypeOK,
           Request!TimeoutFitsState
  <2>2. r_state \in Request!Pending => r_age <= r_timeout_ms
    <3>1. r_state \in Request!Pending => ~(r_age >= r_timeout_ms)
      BY <1>2, RequestExpiredIsAge DEF Request!NotYet
    <3>2. QED
      BY <3>1, RequestRanges
  <2>3. RequestWaits'
    BY <1>2, <2>2, RequestRanges, RequestConstants
       DEF Request!NotYet, Request!request, RequestInv, RequestWaits, RequestRound
  <2>4. QED
    BY <2>1, <2>3 DEF RequestInv
<1>3. CASE Request!GiveUp
  BY <1>3, RequestRanges, RequestConstants
     DEF Request!GiveUp, RequestInv, Request!TypeOK, Request!TimeoutFitsState,
         RequestWaits
<1>4. CASE Request!Retry
  <2>1. r_state \in Request!Pending /\ r_retry_count + 1 \in 0 .. MaxRetries
    BY <1>4, RequestRanges, RequestConstants DEF Request!Retry, Request!Exhausted
  <2>2. Request!TypeOK' /\ Request!TimeoutFitsState'
    BY <1>4, <2>1, RequestRanges, RequestConstants
       DEF Request!Retry, RequestInv, Request!TypeOK, Request!TimeoutFitsState
  <2>3. RequestWaits'
    <3>1. r_retry_count' + r_progress' = r_retry_count + r_progress + 1
      BY <1>4, RequestRanges DEF Request!Retry
    <3>2. r_total' <= (r_retry_count' + r_progress') * RequestRound
      BY <1>4, <2>1, <3>1, NewWait DEF Request!Retry
    <3>3. r_now_ms' = (r_last_send_ms' + r_age') % TimeModulus
      BY <1>4, <2>1, NewWait DEF Request!Retry
    <3>4. r_age' = 0 /\ r_timeout_ms' \in Nat /\ r_quiet' = 0
      BY <1>4, RequestRanges DEF Request!Retry
    <3>5. (r_retry_count' + r_progress') * RequestRound + r_age'
             = (r_retry_count' + r_progress') * RequestRound
      BY <3>1, <3>4, RequestRanges, RequestConstants
    <3>6. r_total' <= (r_retry_count' + r_progress') * RequestRound + r_age'
      BY <3>2, <3>5
    <3>7. r_age' <= r_timeout_ms' + r_quiet'
      <4> DEFINE a == r_timeout_ms'
                 b == r_quiet'
      <4>1. a \in Nat /\ b \in Nat /\ r_age' = 0
        BY <3>4
      <4> HIDE DEF a, b
      <4>2. 0 <= a + b
        BY <4>1
      <4>3. QED
        BY <4>1, <4>2 DEF a, b
    <3>8. QED
      BY <3>3, <3>6, <3>7, SameRound DEF RequestWaits
  <2>4. QED
    BY <2>2, <2>3 DEF RequestInv
<1>5. CASE Request!AckInProgress
  <2>1. r_state \in Request!Pending /\ r_progress + 1 \in 0 .. MaxProgress
    BY <1>0, <1>5, RequestRanges, RequestConstants DEF Request!AckInProgress
  <2>2. Request!TypeOK' /\ Request!TimeoutFitsState'
    BY <1>5, <2>1, RequestRanges, RequestConstants
       DEF Request!AckInProgress, RequestInv, Request!TypeOK, Request!TimeoutFitsState
  <2>3. RequestWaits'
    <3>1. r_retry_count' + r_progress' = r_retry_count + r_progress + 1
      BY <1>5, RequestRanges DEF Request!AckInProgress
    <3>2. r_total' <= (r_retry_count' + r_progress') * RequestRound
      BY <1>5, <2>1, <3>1, NewWait DEF Request!AckInProgress
    <3>3. r_now_ms' = (r_last_send_ms' + r_age') % TimeModulus
      BY <1>5, <2>1, NewWait DEF Request!AckInProgress
    <3>4. r_age' = 0 /\ r_timeout_ms' \in Nat /\ r_quiet' \in Nat
      BY <1>5, RequestRanges, RequestConstants DEF Request!AckInProgress
    <3>5. (r_retry_count' + r_progress') * RequestRound + r_age'
             = (r_retry_count' + r_progress') * RequestRound
      BY <3>1, <3>4, RequestRanges, RequestConstants
    <3>6. r_total' <= (r_retry_count' + r_progress') * RequestRound + r_age'
      BY <3>2, <3>5
    <3>7. r_age' <= r_timeout_ms' + r_quiet'
      <4> DEFINE a == r_timeout_ms'
                 b == r_quiet'
      <4>1. a \in Nat /\ b \in Nat /\ r_age' = 0
        BY <3>4
      <4> HIDE DEF a, b
      <4>2. 0 <= a + b
        BY <4>1
      <4>3. QED
        BY <4>1, <4>2 DEF a, b
    <3>8. QED
      BY <3>3, <3>6, <3>7, SameRound DEF RequestWaits
  <2>4. QED
    BY <2>2, <2>3 DEF RequestInv
<1>6. CASE Request!AckOk
  BY <1>6, RequestRanges, RequestConstants
     DEF Request!AckOk, RequestInv, Request!TypeOK, Request!TimeoutFitsState,
         RequestWaits
<1>7. CASE Request!AckTooLate \/ UNCHANGED Request!vars
  BY <1>7
     DEF Request!AckTooLate, Request!vars, Request!request, RequestInv,
         Request!TypeOK, Request!TimeoutFitsState, RequestWaits, RequestRound,
         Request!LongestTimeout
<1>8. CASE Request!Tick
  <2>1. (r_now_ms + 1) % TimeModulus \in 0 .. TimeModulus - 1
    <3>1. r_now_ms + 1 \in Nat /\ TimeModulus \in Nat \ {0}
      BY RequestRanges, RequestConstants
    <3>2. QED
      BY <3>1, WrapInRange
  <2>2. Request!TypeOK' /\ Request!TimeoutFitsState'
    BY <1>8, <2>1, RequestRanges, RequestConstants
       DEF Request!Tick, Request!request, RequestInv, Request!TypeOK,
           Request!TimeoutFitsState
  <2>3. ASSUME r_state \in Request!Pending PROVE RequestWaits'
    <3> DEFINE shown == r_last_send_ms + r_age
               waits == r_retry_count + r_progress
    <3>1. /\ shown \in Nat /\ waits \in Nat
          /\ r_last_send_ms' + r_age' = shown + 1
          /\ r_retry_count' + r_progress' = waits
          /\ r_now_ms' = (r_now_ms + 1) % TimeModulus
          /\ r_now_ms = shown % TimeModulus
      BY <1>8, <2>3, RequestRanges
         DEF Request!Tick, Request!request, RequestInv, RequestWaits
    <3>2. r_total <= waits * RequestRound + r_age
      BY <2>3 DEF RequestInv, RequestWaits
    <3> HIDE DEF shown, waits
    <3>3. r_now_ms' = (shown + 1) % TimeModulus
      BY <3>1, RequestConstants, NextOfRemainder
    <3>4. waits * RequestRound \in Nat
      BY <3>1, RequestConstants, Distribute
    <3>5. /\ r_age' = r_age + 1 /\ r_total' <= r_total + 1 /\ r_total' \in Nat
          /\ r_age' <= r_timeout_ms' + r_quiet'
      BY <1>8, <2>3, RequestRanges, RequestConstants
         DEF Request!Tick, Request!request, RequestInv, RequestWaits
    <3>6. r_total' <= waits * RequestRound + r_age'
      BY <3>2, <3>4, <3>5, RequestRanges
    <3>7. QED
      BY <3>1, <3>3, <3>5, <3>6, SameRound DEF RequestWaits
  <2>4. r_state \notin Request!Pending => RequestWaits'
    BY <1>8 DEF Request!Tick, Request!request, RequestWaits
  <2>5. QED
    BY <2>2, <2>3, <2>4 DEF RequestInv
<1>9. QED
  BY <1>1, <1>2, <1>3, <1>4, <1>5, <1>6, <1>7, <1>8
     DEF Request!Next, Request!request_should_retry

LEMMA RequestInTime == RequestInv => Request!DecidedInTime
<1> SUFFICES ASSUME RequestInv, r_state \in Request!Pending
             PROVE  r_total <= Request!Patience
  BY DEF Request!DecidedInTime
<1> DEFINE waits == r_retry_count + r_progress
           most == MaxRetries + MaxProgress
<1>1. waits \in Nat /\ most \in Nat /\ waits <= most
  BY RequestRanges, RequestConstants
<1>2. r_total <= waits * RequestRound + r_age
  BY DEF RequestInv, RequestWaits
<1>3. Request!Patience = (most + 1) * RequestRound
  <2>1. MaxRetries + 1 + MaxProgress = most + 1
    BY RequestConstants
  <2>2. QED
    BY <2>1 DEF Request!Patience, RequestRound
<1> HIDE DEF waits, most
<1>4. waits * RequestRound <= most * RequestRound
  BY <1>1, RequestConstants, Monotone
<1>5. /\ (most + 1) * RequestRound = most * RequestRound + RequestRound
      /\ most * RequestRound \in Nat /\ waits * RequestRound \in Nat
  BY <1>1, RequestConstants, Distribute
<1>6. QED
  BY <1>2, <1>3, <1>4, <1>5, RequestExpiredIsAge, RequestRanges, RequestConstants

LEMMA RequestNotTooSoon ==
    RequestInv /\ [Request!Next]_(Request!vars)
      => [r_retry_count' > r_retry_count
             \/ (r_state \in Request!Pending /\ r_state' = "REQ_FAILED")
          => r_age >= (IF r_state = "REQ_WAIT_ACK" THEN AckTimeoutMs
                       ELSE ExecTimeoutMs)]_(Request!vars)
<1> SUFFICES ASSUME RequestInv, Request!Next,
                    \/ r_retry_count' > r_retry_count
                    \/ r_state \in Request!Pending /\ r_state' = "REQ_FAILED"
             PROVE  r_age >= (IF r_state = "REQ_WAIT_ACK" THEN AckTimeoutMs
                              ELSE ExecTimeoutMs)
  OBVIOUS
<1>1. /\ ~Request!request_init /\ ~Request!NotYet /\ ~Request!AckTooLate
      /\ ~Request!AckInProgress /\ ~Request!AckOk /\ ~Request!Tick
  BY RequestRanges
     DEF Request!request_init, Request!NotYet, Request!AckTooLate,
         Request!AckInProgress, Request!AckOk, Request!Tick, Request!request,
         Request!Pending
<1>2. Request!GiveUp \/ Request!Retry
  BY <1>1 DEF Request!Next, Request!request_should_retry
<1>3. r_state \in Request!Pending /\ Request!Expired
  BY <1>2 DEF Request!GiveUp, Request!Retry
<1>4. r_age >= r_timeout_ms
  BY <1>3, RequestExpiredIsAge
<1>5. QED
  BY <1>3, <1>4 DEF RequestInv, Request!TimeoutFitsState, Request!Pending

LEMMA RequestRefines ==
    RequestInv /\ [Request!Next]_(Request!vars)
      => [Request!Abstract!Next]_(Request!Abstract!vars)
<1> SUFFICES ASSUME RequestInv, [Request!Next]_(Request!vars)
             PROVE  [Request!Abstract!Next]_(Request!Abstract!vars)
  OBVIOUS
<1> USE DEF Request!Pending, Request!Final
<1>0. r_state \in Request!Pending \cup Request!Final
  BY DEF RequestInv, Request!TypeOK
<1>1. CASE Request!request_init
  <2>1. Request!Abstract!Begin
    BY <1>1, RequestConstants
       DEF Request!request_init, Request!Abstract!Begin, Request!Outcome
  <2>2. QED
    BY <2>1 DEF Request!Abstract!Next
<1>2. CASE Request!GiveUp
  <2>1. Request!Abstract!Decide
    BY <1>2 DEF Request!GiveUp, Request!Abstract!Decide, Request!Outcome
  <2>2. QED
    BY <2>1 DEF Request!Abstract!Next
<1>3. CASE Request!AckOk
  <2>1. Request!Abstract!Decide
    BY <1>0, <1>3 DEF Request!AckOk, Request!Abstract!Decide, Request!Outcome
  <2>2. QED
    BY <2>1 DEF Request!Abstract!Next
<1>4. CASE Request!Retry
  <2>1. Request!Abstract!Resend
    BY <1>4, RequestRanges, RequestConstants
       DEF Request!Retry, Request!Exhausted, Request!Abstract!Resend, Request!Outcome
  <2>2. QED
    BY <2>1 DEF Request!Abstract!Next
<1>5. CASE Request!AckInProgress
  BY <1>0, <1>5
     DEF Request!AckInProgress, Request!Abstract!vars, Request!Outcome
<1>6. CASE \/ Request!NotYet \/ Request!AckTooLate \/ Request!Tick
           \/ UNCHANGED Request!vars
  BY <1>6
     DEF Request!NotYet, Request!AckTooLate, Request!Tick, Request!vars,
         Request!request, Request!Abstract!vars, Request!Outcome
<1>7. QED
  BY <1>1, <1>2, <1>3, <1>4, <1>5, <1>6
     DEF Request!Next, Request!request_should_retry

(* The request machine, in one piece: retries, timeouts and clock fit, the *)
(* request is decided in time and not too soon, and it implements          *)
(* RetrySpec.                                                              *)
THEOREM RequestIsRight ==
    Request!Spec => /\ []Request!TypeOK /\ []Request!TimeoutFitsState
                    /\ []Request!DecidedInTime
                    /\ Request!NeverTooSoon
                    /\ Request!ImplementsRetrySpec
<1>1. RequestInv => Request!TypeOK /\ Request!TimeoutFitsState
  BY DEF RequestInv
<1>2. Request!Init => Request!Abstract!Init
  BY RequestConstants
     DEF Request!Init, Request!Abstract!Init, Request!Outcome, Request!Pending
<1>3. QED
  BY <1>1, <1>2, RequestInit, RequestStep, RequestInTime, RequestNotTooSoon,
     RequestRefines, PTL
     DEF Request!Spec, Request!NeverTooSoon, Request!ImplementsRetrySpec,
         Request!Abstract!Spec

-----------------------------------------------------------------------------
(* TaskHealth *)

(* The tick counter shows for how long each task has been silent, and a    *)
(* valid mask is the set of the tasks that have expired.                   *)
HealthInv ==
    /\ h_silence \in [Task -> Nat]
    /\ h_last_alive_tick \in [Task -> 0 .. TickModulus - 1]
    /\ h_deadline_ticks \in [Task -> Nat]
    /\ DOMAIN h_seen = Task
    /\ h_now_tick \in 0 .. TickModulus - 1
    /\ \A i \in Task : h_now_tick = (h_last_alive_tick[i] + h_silence[i]) % TickModulus
    /\ h_valid => h_expired_mask = {i \in Task : Health!Expired(i)}

LEMMA HealthConstants == /\ TickModulus \in Nat /\ TickModulus > 0
                         /\ Deadlines \subseteq Nat
  BY ClockAssumption DEF ClockAssumption, Health!ConstantsOK

(* The subtraction of two readings gives the time between them less the    *)
(* whole revolutions.                                                      *)
LEMMA ElapsedLessRevolutions ==
    ASSUME NEW n \in Nat, n > 0, NEW start0 \in 0 .. n - 1, NEW t \in Nat
    PROVE  (((start0 + t) % n) - start0) % n = t % n
<1> DEFINE q == t \div n
           r == t % n
<1>1. q \in Int /\ r \in Nat /\ r < n /\ t = n * q + r
  OBVIOUS
<1> HIDE DEF q, r
<1>2. CASE start0 + r < n
  <2>1. start0 + t = n * q + (start0 + r)
    BY <1>1
  <2>2. (start0 + t) % n = start0 + r
    BY <1>1, <1>2, <2>1, RemainderUnique
  <2>3. ((start0 + t) % n) - start0 = r
    BY <1>1, <2>2
  <2>4. r % n = r
    BY <1>1, WrapOnce
  <2>5. QED
    BY <2>3, <2>4 DEF r
<1>3. CASE start0 + r >= n
  <2>1. start0 + t = n * (q + 1) + (start0 + r - n)
    BY <1>1
  <2>2. (start0 + t) % n = start0 + r - n
    <3> DEFINE rest == start0 + r - n
               laps == q + 1
               reading == start0 + t
    <3>1. /\ rest \in Nat /\ rest < n /\ laps \in Int /\ reading \in Nat
          /\ reading = n * laps + rest
      BY <1>1, <1>3, <2>1
    <3> HIDE DEF rest, laps, reading
    <3>2. reading % n = rest
      BY <3>1, RemainderUnique
    <3>3. QED
      BY <3>2 DEF rest, reading
  <2>3. ((start0 + t) % n) - start0 = r - n
    BY <1>1, <2>2
  <2>4. (r - n) % n = r
    BY <1>1, RemainderOfInteger
  <2>5. QED
    BY <2>3, <2>4 DEF r
<1>4. QED
  BY <1>1, <1>2, <1>3

LEMMA ElapsedIsSilence ==
    ASSUME HealthInv, NEW i \in Task
    PROVE  /\ Health!elapsed(i) = h_silence[i] % TickModulus
           /\ Health!elapsed(i) \in Nat
           /\ Health!elapsed(i) <= h_silence[i]
           /\ h_silence[i] < TickModulus => Health!elapsed(i) = h_silence[i]
<1>1. /\ h_last_alive_tick[i] \in 0 .. TickModulus - 1 /\ h_silence[i] \in Nat
      /\ h_now_tick = (h_last_alive_tick[i] + h_silence[i]) % TickModulus
  BY DEF HealthInv
<1>2. Health!elapsed(i) = h_silence[i] % TickModulus
  BY <1>1, HealthConstants, ElapsedLessRevolutions DEF Health!elapsed
<1>3. ASSUME NEW s \in Nat, NEW n \in Nat, n > 0
      PROVE  s % n \in Nat /\ s % n <= s /\ (s < n => s % n = s)
  <2>1. s % n \in Nat /\ (s < n => s % n = s)
    BY <1>3
  <2>2. s % n <= s
    BY <1>3, <2>1
  <2>3. QED
    BY <2>1, <2>2
<1>4. QED
  BY <1>1, <1>2, <1>3, HealthConstants

LEMMA HealthInit == Health!Init => HealthInv
<1> SUFFICES ASSUME Health!Init PROVE HealthInv
  OBVIOUS
<1>1. h_now_tick = (h_now_tick + 0) % TickModulus
  <2>1. h_now_tick \in Nat /\ h_now_tick < TickModulus
    BY HealthConstants DEF Health!Init
  <2>2. QED
    BY <2>1, HealthConstants
<1>2. QED
  BY <1>1, HealthConstants DEF Health!Init, HealthInv

LEMMA HealthStep == HealthInv /\ [Health!Next]_(Health!vars) => HealthInv'
<1> SUFFICES ASSUME HealthInv, [Health!Next]_(Health!vars) PROVE HealthInv'
  OBVIOUS
<1>1. ASSUME NEW i \in Task, Health!Alive(i) PROVE HealthInv'
  <2>1. h_now_tick = (h_now_tick + 0) % TickModulus
    <3>1. h_now_tick \in Nat /\ h_now_tick < TickModulus
      BY HealthConstants DEF HealthInv
    <3>2. QED
      BY <3>1, HealthConstants
  <2>2. QED
    BY <1>1, <2>1, HealthConstants DEF Health!Alive, HealthInv
<1>2. CASE Health!Collect
  BY <1>2 DEF Health!Collect, Health!tasks, Health!Expired, Health!elapsed, HealthInv
<1>3. CASE Health!CollectInvalid
  BY <1>3 DEF Health!CollectInvalid, Health!tasks, HealthInv
<1>4. CASE Health!Tick
  <2>1. ASSUME NEW i \in Task
        PROVE  h_now_tick' = (h_last_alive_tick'[i] + h_silence'[i]) % TickModulus
    <3> DEFINE shown == h_last_alive_tick[i] + h_silence[i]
    <3>1. /\ h_last_alive_tick[i] \in Nat /\ h_silence[i] \in Nat
          /\ h_now_tick = shown % TickModulus
      BY HealthConstants DEF HealthInv
    <3>2. /\ h_last_alive_tick'[i] = h_last_alive_tick[i]
          /\ h_silence'[i] = h_silence[i] + 1
          /\ h_now_tick' = (h_now_tick + 1) % TickModulus
      BY <1>4 DEF Health!Tick, Health!tasks
    <3>3. /\ shown \in Nat
          /\ h_last_alive_tick'[i] + h_silence'[i] = shown + 1
      BY <3>1, <3>2
    <3> HIDE DEF shown
    <3>4. QED
      BY <3>1, <3>2, <3>3, HealthConstants, NextOfRemainder
  <2>2. h_now_tick' \in 0 .. TickModulus - 1
    <3>1. h_now_tick + 1 \in Nat /\ TickModulus \in Nat \ {0}
          /\ h_now_tick' = (h_now_tick + 1) % TickModulus
      BY <1>4, HealthConstants DEF HealthInv, Health!Tick
    <3>2. QED
      BY <3>1, WrapInRange
  <2>3. QED
    BY <1>4, <2>1, <2>2 DEF Health!Tick, Health!tasks, HealthInv
<1>5. CASE UNCHANGED Health!vars
  BY <1>5 DEF Health!vars, Health!tasks, Health!Expired, Health!elapsed, HealthInv
<1>6. QED
  BY <1>1, <1>2, <1>3, <1>4, <1>5 DEF Health!Next

(* The mask of the expired tasks names none that is not silent for longer  *)
(* than its deadline, and all those that are and have not been so for a    *)
(* whole revolution of the tick counter.                                   *)
THEOREM HealthIsRight ==
    Health!Spec => []Health!ReportedIsSilent /\ []Health!SilentIsReported
<1>1. HealthInv => Health!ReportedIsSilent
  <2> SUFFICES ASSUME HealthInv, h_valid, NEW i \in h_expired_mask, h_seen[i]
               PROVE  h_silence[i] > h_deadline_ticks[i]
    BY DEF Health!ReportedIsSilent
  <2>1. i \in Task /\ Health!elapsed(i) > h_deadline_ticks[i]
    BY DEF HealthInv, Health!Expired
  <2>2. h_deadline_ticks[i] \in Nat /\ h_silence[i] \in Nat
    BY <2>1 DEF HealthInv
  <2>3. Health!elapsed(i) \in Nat /\ Health!elapsed(i) <= h_silence[i]
    BY <2>1, ElapsedIsSilence
  <2>4. QED
    BY <2>1, <2>2, <2>3
<1>2. HealthInv => Health!SilentIsReported
  <2> SUFFICES ASSUME HealthInv, h_valid, NEW i \in Task,
                      h_deadline_ticks[i] < h_silence[i],
                      h_silence[i] < TickModulus
               PROVE  i \in h_expired_mask
    BY DEF Health!SilentIsReported
  <2>1. Health!elapsed(i) = h_silence[i]
    BY ElapsedIsSilence
  <2>2. Health!Expired(i)
    BY <2>1 DEF HealthInv, Health!Expired
  <2>3. QED
    BY <2>2 DEF HealthInv
<1>3. QED
  BY <1>1, <1>2, HealthInit, HealthStep, PTL DEF Health!Spec

-----------------------------------------------------------------------------
(* The three of them *)

(* In a behaviour of the suite each of the three behaves by itself. *)
LEMMA SuiteIsEach == SuiteSpec => Spec /\ Request!Spec /\ Health!Spec
<1>1. SuiteInit => Init /\ Request!Init /\ Health!Init
  BY DEF SuiteInit
<1>2. [SuiteNext]_<<chosen, vars, request, health>>
        => /\ [Next]_vars
           /\ [Request!Next]_(Request!vars)
           /\ [Health!Next]_(Health!vars)
  BY DEF SuiteNext, vars, request, health, Request!vars, Request!request,
         Health!vars, Health!tasks
<1>3. QED
  BY <1>1, <1>2, PTL DEF SuiteSpec, Spec, Request!Spec, Health!Spec

(* The retry counters stay within the limit and the timeout in force is    *)
(* that of the state, for every configuration.                             *)
THEOREM StatesFitHolds == SuiteSpec => []StatesFit
  BY SuiteIsEach, TypeCorrect, RequestIsRight, PTL DEF StatesFit

(* No retransmission, no failure and no reported task before the time is   *)
(* really up, wherever the clocks wrap.                                    *)
THEOREM NeverEarlyHolds == SuiteSpec => NeverEarly
  BY SuiteIsEach, NeverTooSoonHolds, RequestIsRight, HealthIsRight, PTL
     DEF NeverEarly

(* A polled request is decided in bounded time, and a silent task is       *)
(* reported within a revolution.                                           *)
THEOREM NeverLateHolds == SuiteSpec => []NeverLate
  BY SuiteIsEach, DecidedInTimeHolds, RequestIsRight, HealthIsRight, PTL
     DEF NeverLate

(* Both senders implement RetrySpec: a bounded number of transmissions and *)
(* one decision, which no late ACK changes.                                *)
THEOREM DecidedOnceHolds == SuiteSpec => DecidedOnce
  BY SuiteIsEach, RefinesRetrySpec, RequestIsRight, PTL DEF DecidedOnce
=============================================================================
