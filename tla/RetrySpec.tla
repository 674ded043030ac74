------------------------------ MODULE RetrySpec ------------------------------
(***************************************************************************)
(* What a sender of commands promises, whatever its timers: a request is   *)
(* transmitted once and at most MaxRetries times more, its outcome is      *)
(* decided once, and after that nothing is transmitted and no late answer  *)
(* changes it until the next request begins.                               *)
(***************************************************************************)
EXTENDS Naturals

CONSTANT MaxRetries

VARIABLES outcome,      \* none, pending, succeeded or failed
          left          \* transmissions still allowed

vars == <<outcome, left>>

Init == outcome \in {"none", "pending"} /\ left = MaxRetries

Begin == outcome' = "pending" /\ left' = MaxRetries

Resend == /\ outcome = "pending" /\ left > 0
          /\ left' = left - 1
          /\ UNCHANGED outcome

Decide == /\ outcome = "pending"
          /\ outcome' \in {"succeeded", "failed"}
          /\ UNCHANGED left

Next == Begin \/ Resend \/ Decide

Spec == Init /\ [][Next]_vars
=============================================================================
