------------------------------ MODULE CommandLink ------------------------------
(***************************************************************************)
(* A controller with a RetryPolicy sends commands over a link that loses   *)
(* messages to an executor with a duplicate filter and preemption: the     *)
(* protocol that seventh_stage/notes/day06_phase7.md and day07_phase7.md   *)
(* describe and whose parts are in the repository.  The link, the actuator *)
(* and the executor's cache of statuses are external.                      *)
(*                                                                         *)
(* Messages keep their order when Ordered, as on a serial line.  The       *)
(* controller numbers its commands 1, 2, ... and may begin one before the  *)
(* last is decided, which is how a STOP is sent.  The executor may         *)
(* restart, which runs seq_dedup_init again and forgets everything else.   *)
(***************************************************************************)
EXTENDS Integers, Sequences, SequencesExt

CONSTANTS MaxSeq,               \* bound: commands of a behaviour
          Actions,              \* the actions they ask for
          TimeoutMs, MaxRetries, TimeModulus, PollEvery,
          Ordered,              \* does the link keep the order?
          MaxInFlight,          \* bound: messages in each direction
          MaxRestarts           \* bound: restarts of the executor

ASSUME BoundsAssumption == MaxSeq \in Nat

Seqs == 1 .. MaxSeq

VARIABLES state_, expected_seq_, last_send_ms_, retries_used_,
          answer, now_ms, quiet, age, total,    \* the controller, as in RetryPolicy
          valid, last_seq,                      \* the executor's seq_dedup_t
          current_state,                        \* the executor's state_t
          toExecutor, toController,             \* the link
          action,       \* the action of each command
          status,       \* the executor's cached statuses
          running,      \* the command the actuator works on, or 0
          sent,         \* commands begun by the controller
          executed,     \* history: how often the actuator began each command
          done,         \* history: the commands it finished
          refused,      \* history: the commands answered BUSY and
          interrupted,  \* the commands cut short, since the last restart
          restarts

policy == <<state_, expected_seq_, last_send_ms_, retries_used_,
            answer, now_ms, quiet, age, total>>
executor == <<valid, last_seq, current_state, status, running,
              executed, done, refused, interrupted, restarts>>
link == <<toExecutor, toController>>
vars == <<policy, executor, link, sent, action>>

Client == INSTANCE RetryPolicy
Hand == INSTANCE Executor

ASSUME ActionsAssumption == Actions \subseteq Hand!action_t

Init == /\ Client!Init /\ now_ms = 0 /\ expected_seq_ = 1
        /\ Hand!Init /\ last_seq = 1
        /\ toExecutor = <<>> /\ toController = <<>>
        /\ action = [s \in Seqs |-> "ACTION_NONE"]
        /\ status = [s \in Seqs |-> "IN_PROGRESS"]
        /\ running = 0 /\ sent = 0
        /\ executed = [s \in Seqs |-> 0] /\ done = {}
        /\ refused = {} /\ interrupted = {} /\ restarts = 0

(* The positions a message may be taken from. *)
Deliverable(ch) == IF Ordered THEN {1} \cap DOMAIN ch ELSE DOMAIN ch

Transmit(seq) == /\ Len(toExecutor) < MaxInFlight
                 /\ toExecutor' = Append(toExecutor, seq)

Reply(seq, s) == /\ Len(toController) < MaxInFlight
                 /\ toController' = Append(toController, <<seq, s>>)

Begin(a) == /\ sent < MaxSeq
            /\ sent' = sent + 1
            /\ action' = [action EXCEPT ![sent + 1] = a]
            /\ Client!start(sent + 1)
            /\ Transmit(sent + 1)
            /\ UNCHANGED <<executor, toController>>

(* TimeoutAction::RETRY means send it again, with the same number. *)
Resend == /\ Client!Retry
          /\ Transmit(expected_seq_)
          /\ UNCHANGED <<executor, toController, sent, action>>

Poll == /\ Client!NotExpired \/ Client!GiveUp
        /\ UNCHANGED <<executor, link, sent, action>>

Tick == Client!Tick /\ UNCHANGED <<executor, link, sent, action>>

ReceiveAck == \E i \in Deliverable(toController) :
                 /\ Client!on_ack(toController[i][1], toController[i][2])
                 /\ toController' = RemoveAt(toController, i)
                 /\ UNCHANGED <<executor, toExecutor, sent, action>>

(* A repeated number is answered from the cache and not executed. *)
AnswerAgain(seq) == /\ Hand!Duplicate(seq)
                    /\ Reply(seq, status[seq])
                    /\ UNCHANGED <<current_state, status, running, executed,
                                   refused, interrupted>>

(* The action starts; the one it interrupts, if any, is marked. *)
Execute(seq) == /\ Hand!Fresh(seq)
                /\ Hand!Started(action[seq])
                /\ running' = seq
                /\ executed' = [executed EXCEPT ![seq] = @ + 1]
                /\ status' = [s \in Seqs |->
                                 IF s = seq THEN "IN_PROGRESS"
                                 ELSE IF s = running THEN "PREEMPTED"
                                 ELSE status[s]]
                /\ interrupted' = interrupted \cup ({running} \ {0})
                /\ Reply(seq, "IN_PROGRESS")
                /\ UNCHANGED refused

RefuseBusy(seq) == /\ Hand!Fresh(seq)
                   /\ Hand!Refused(action[seq])
                   /\ status' = [status EXCEPT ![seq] = "BUSY"]
                   /\ refused' = refused \cup {seq}
                   /\ Reply(seq, "BUSY")
                   /\ UNCHANGED <<running, executed, interrupted>>

ReceiveCommand == \E i \in Deliverable(toExecutor) :
                     /\ LET seq == toExecutor[i]
                        IN  AnswerAgain(seq) \/ Execute(seq) \/ RefuseBusy(seq)
                     /\ toExecutor' = RemoveAt(toExecutor, i)
                     /\ UNCHANGED <<policy, sent, action, done, restarts>>

Finish == /\ running # 0
          /\ Hand!Completed
          /\ done' = done \cup {running}
          /\ status' = [status EXCEPT ![running] = "OK"]
          /\ Reply(running, "OK")
          /\ running' = 0
          /\ UNCHANGED <<policy, valid, last_seq, executed, refused, interrupted,
                         restarts, toExecutor, sent, action>>

Restart == /\ restarts < MaxRestarts
           /\ restarts' = restarts + 1
           /\ Hand!Reset
           /\ Hand!Completed
           /\ running' = 0
           /\ status' = [s \in Seqs |-> "IN_PROGRESS"]
           /\ refused' = {} /\ interrupted' = {}
           /\ UNCHANGED <<policy, executed, done, link, sent, action>>

Lose == /\ \/ \E i \in DOMAIN toExecutor :
                 /\ toExecutor' = RemoveAt(toExecutor, i)
                 /\ UNCHANGED toController
           \/ \E i \in DOMAIN toController :
                 /\ toController' = RemoveAt(toController, i)
                 /\ UNCHANGED toExecutor
        /\ UNCHANGED <<policy, executor, sent, action>>

Next == \/ \E a \in Actions : Begin(a)
        \/ Resend \/ Poll \/ Tick \/ ReceiveAck
        \/ ReceiveCommand \/ Finish \/ Restart \/ Lose

Spec == Init /\ [][Next]_vars

-----------------------------------------------------------------------------
(* A command the controller takes for carried out has been: no ACK of      *)
(* another command, late or repeated, is taken for its own.                *)
SuccessMeansDone == state_ = "SUCCEEDED" => expected_seq_ \in done

(* Retransmissions do not repeat the action, on a link that keeps the      *)
(* order; each restart of the executor can cost one repetition.            *)
AtMostOnce == \A s \in Seqs : executed[s] <= 1 + restarts

(* A command that was once answered BUSY is not carried out later, by a    *)
(* retransmission that finds the actuator free, and one that was once      *)
(* interrupted does not come back, as long as the executor does not        *)
(* restart (which clears both histories).  The cached status cannot tell:  *)
(* beginning a command resets it.                                          *)
RefusalIsFinal == running \notin refused \cup interrupted

(* Only STOP interrupts: a command that stopped short of its end, in an    *)
(* executor that never restarted, was followed by a STOP.                  *)
OnlyStopInterrupts ==
    \A s \in Seqs : status[s] = "PREEMPTED"
                    => \E t \in Seqs : t > s /\ action[t] = "ACTION_STOP"
=============================================================================
