------------------------------ MODULE TaskHealth ------------------------------
(***************************************************************************)
(* collect_expired_mask of leetcode/day08_task_health_monitor.c, called by *)
(* a monitor while tasks report that they are alive.  The tick counter is  *)
(* 32 bits wide and wraps.  The mask is the set of its one bits; the tasks *)
(* that write last_alive_tick and seen are the callers' and external.      *)
(***************************************************************************)
EXTENDS Integers

CONSTANTS Task,                 \* 0 .. length - 1
          Deadlines,            \* deadline_ticks, as callers choose them
          MAX_MONITORED_TASKS,  \* 32 in the code
          TickModulus,          \* 2^32 in the code
          MaxSilence            \* bound: ticks a task may be silent

ConstantsOK == /\ TickModulus \in Nat \ {0} /\ MaxSilence \in Nat
               /\ \A i \in Task : i + 1 \in 1 .. MAX_MONITORED_TASKS
               /\ Deadlines \subseteq 0 .. TickModulus - 1

VARIABLES last_alive_tick, deadline_ticks, seen,        \* the tasks' structures
          now_tick,
          expired_mask, valid,  \* what the last call wrote and returned
          silence               \* history: ticks since each task was alive

tasks == <<last_alive_tick, deadline_ticks, seen>>
vars == <<tasks, now_tick, expired_mask, valid, silence>>

Init == /\ now_tick \in 0 .. TickModulus - 1
        /\ last_alive_tick = [i \in Task |-> now_tick]
        /\ deadline_ticks \in [Task -> Deadlines]
        /\ seen = [i \in Task |-> FALSE]
        /\ expired_mask = {} /\ valid = FALSE
        /\ silence = [i \in Task |-> 0]

Alive(i) == /\ last_alive_tick' = [last_alive_tick EXCEPT ![i] = now_tick]
            /\ seen' = [seen EXCEPT ![i] = TRUE]
            /\ silence' = [silence EXCEPT ![i] = 0]
            /\ valid' = FALSE
            /\ UNCHANGED <<deadline_ticks, now_tick, expired_mask>>

elapsed(i) == (now_tick - last_alive_tick[i]) % TickModulus

Expired(i) == ~seen[i] \/ elapsed(i) > deadline_ticks[i]

Collect == /\ expired_mask' = {i \in Task : Expired(i)}
           /\ valid' = TRUE
           /\ UNCHANGED <<tasks, now_tick, silence>>

(* A NULL pointer, no task or too many: false, and the mask is left alone. *)
CollectInvalid == /\ valid' = FALSE
                  /\ UNCHANGED <<tasks, now_tick, expired_mask, silence>>

Tick == /\ \A i \in Task : silence[i] < MaxSilence
        /\ now_tick' = (now_tick + 1) % TickModulus
        /\ silence' = [i \in Task |-> silence[i] + 1]
        /\ valid' = FALSE
        /\ UNCHANGED <<tasks, expired_mask>>

Next == (\E i \in Task : Alive(i)) \/ Collect \/ CollectInvalid \/ Tick

Spec == Init /\ [][Next]_vars

-----------------------------------------------------------------------------
(* A task is reported only when it has never been seen or has really been  *)
(* silent for longer than its deadline, wherever the tick counter wraps.   *)
ReportedIsSilent ==
    valid => \A i \in expired_mask : ~seen[i] \/ silence[i] > deadline_ticks[i]

(* Every task that is silent for too long is reported, as long as its      *)
(* silence is shorter than a revolution of the tick counter; after that    *)
(* the mask takes it for alive again.                                      *)
SilentIsReported ==
    valid => \A i \in Task : deadline_ticks[i] < silence[i] /\ silence[i] < TickModulus
                             => i \in expired_mask
=============================================================================
