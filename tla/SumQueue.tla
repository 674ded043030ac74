------------------------------- MODULE SumQueue -------------------------------
(***************************************************************************)
(* seventh_stage/day05/blocking_queue.cpp: an unbounded BlockingQueue with *)
(* one condition variable and the program around it.  One producer pushes  *)
(* 1..Last and calls stop(); the consumers pop until false and add each    *)
(* value to sum under sum_mutex; main() joins all and asserts the total.   *)
(*                                                                         *)
(* push and stop notify after they release the mutex.  push does not test  *)
(* stopped_: only the order of the calls in the producer keeps a value     *)
(* from being queued after the consumers have left.  `sum += value` is a   *)
(* load and a store, kept apart because sum_mutex is what joins them.      *)
(***************************************************************************)
EXTENDS Naturals, Sequences, FiniteSets, CondVar

CONSTANTS Producer, Consumers, Nobody,
          Last          \* the last value pushed, 100 in main()

Threads == Consumers \cup {Producer}

ASSUME ThreadsAssumption == /\ Producer \notin Consumers
                            /\ IsFiniteSet(Consumers) /\ Consumers # {}
                            /\ Nobody \notin Threads
ASSUME LastAssumption == Last \in Nat

VARIABLES queue_, stopped_, mutex_, cv_,
          pc,
          i,            \* the producer's loop counter
          value,        \* value[c]: the value consumer c popped last
          sum, sum_mutex,
          loaded        \* loaded[c]: the sum consumer c has read and not yet written

vars == <<queue_, stopped_, mutex_, cv_, pc, i, value, sum, sum_mutex, loaded>>
totals == <<value, sum, sum_mutex, loaded>>

Init == /\ queue_ = <<>> /\ stopped_ = FALSE /\ mutex_ = Nobody /\ cv_ = {}
        /\ pc = [t \in Threads |-> "out"]
        /\ i = 1
        /\ value = [c \in Consumers |-> 0]
        /\ sum = 0 /\ sum_mutex = Nobody
        /\ loaded = [c \in Consumers |-> 0]

Goto(t, l) == pc' = [pc EXCEPT ![t] = l]

Acquire(t, l) == /\ mutex_ = Nobody
                 /\ mutex_' = t
                 /\ Goto(t, l)
                 /\ UNCHANGED <<queue_, stopped_, cv_, i, totals>>

-----------------------------------------------------------------------------
(* The producer *)

PushLock == /\ pc[Producer] = "out"
            /\ i <= Last
            /\ Acquire(Producer, "push")

Push == /\ pc[Producer] = "push"
        /\ queue_' = Append(queue_, i)
        /\ mutex_' = Nobody
        /\ Goto(Producer, "push_notify")
        /\ UNCHANGED <<stopped_, cv_, i, totals>>

PushNotify == /\ pc[Producer] = "push_notify"
              /\ cv_' \in NotifyOne(cv_)
              /\ i' = i + 1
              /\ Goto(Producer, "out")
              /\ UNCHANGED <<queue_, stopped_, mutex_, totals>>

(* Mutant: stop() comes before the last push. *)
StopLock_Early == /\ pc[Producer] = "out"
                  /\ ~stopped_
                  /\ i >= Last
                  /\ Acquire(Producer, "stop")

StopLock == /\ pc[Producer] = "out"
            /\ ~stopped_
            /\ i > Last
            /\ Acquire(Producer, "stop")

Stop == /\ pc[Producer] = "stop"
        /\ stopped_' = TRUE
        /\ mutex_' = Nobody
        /\ Goto(Producer, "stop_notify")
        /\ UNCHANGED <<queue_, cv_, i, totals>>

(* Mutant: stop() wakes one consumer only. *)
StopNotify_One == /\ pc[Producer] = "stop_notify"
                  /\ cv_' \in NotifyOne(cv_)
                  /\ Goto(Producer, "done")
                  /\ UNCHANGED <<queue_, stopped_, mutex_, i, totals>>

StopNotify == /\ pc[Producer] = "stop_notify"
              /\ cv_' \in NotifyAll(cv_)
              /\ Goto(Producer, "done")
              /\ UNCHANGED <<queue_, stopped_, mutex_, i, totals>>

Produce == PushLock \/ Push \/ PushNotify \/ StopLock \/ Stop \/ StopNotify

-----------------------------------------------------------------------------
(* A consumer *)

CanPop == stopped_ \/ queue_ # <<>>

PopLock(c) == pc[c] = "out" /\ Acquire(c, "pop_test")

PopTest(c) == /\ pc[c] = "pop_test"
              /\ ~CanPop
              /\ Goto(c, "pop_block")
              /\ UNCHANGED <<queue_, stopped_, mutex_, cv_, i, totals>>

PopBlock(c) == /\ pc[c] = "pop_block"
               /\ cv_' = cv_ \cup {c}
               /\ mutex_' = Nobody
               /\ Goto(c, "pop_wait")
               /\ UNCHANGED <<queue_, stopped_, i, totals>>

PopResume(c) == /\ pc[c] = "pop_wait"
                /\ c \notin cv_
                /\ Acquire(c, "pop_test")

PopEnd(c) == /\ pc[c] = "pop_test"
             /\ stopped_ /\ queue_ = <<>>
             /\ mutex_' = Nobody
             /\ Goto(c, "done")
             /\ UNCHANGED <<queue_, stopped_, cv_, i, totals>>

PopTake(c) == /\ pc[c] = "pop_test"
              /\ queue_ # <<>>
              /\ value' = [value EXCEPT ![c] = Head(queue_)]
              /\ queue_' = Tail(queue_)
              /\ mutex_' = Nobody
              /\ Goto(c, "sum_lock")
              /\ UNCHANGED <<stopped_, cv_, i, sum, sum_mutex, loaded>>

(* Mutant: sum is read before sum_mutex is taken. *)
SumLoad_NoMutex(c) == /\ pc[c] = "sum_lock"
                      /\ loaded' = [loaded EXCEPT ![c] = sum]
                      /\ Goto(c, "sum_store")
                      /\ UNCHANGED <<queue_, stopped_, mutex_, cv_, i, value, sum, sum_mutex>>

SumLoad(c) == /\ pc[c] = "sum_lock"
              /\ sum_mutex = Nobody
              /\ sum_mutex' = c
              /\ loaded' = [loaded EXCEPT ![c] = sum]
              /\ Goto(c, "sum_store")
              /\ UNCHANGED <<queue_, stopped_, mutex_, cv_, i, value, sum>>

SumStore(c) == /\ pc[c] = "sum_store"
               /\ sum' = loaded[c] + value[c]
               /\ sum_mutex' = Nobody
               /\ Goto(c, "out")
               /\ UNCHANGED <<queue_, stopped_, mutex_, cv_, i, value, loaded>>

Consume(c) == \/ PopLock(c) \/ PopTest(c) \/ PopBlock(c) \/ PopResume(c)
              \/ PopEnd(c) \/ PopTake(c) \/ SumLoad(c) \/ SumStore(c)

SpuriousWakeup == /\ cv_' \in Spurious(cv_)
                  /\ UNCHANGED <<queue_, stopped_, mutex_, pc, i, totals>>

(* The joins of main() have all returned. *)
AllJoined == \A t \in Threads : pc[t] = "done"

Joined == AllJoined /\ UNCHANGED vars

Next == \/ Produce
        \/ \E c \in Consumers : Consume(c)
        \/ SpuriousWakeup
        \/ Joined

Spec == Init /\ [][Next]_vars

(* Every thread runs; a mutex released again and again is obtained. *)
FairSpec == /\ Spec
            /\ WF_vars(Produce) /\ SF_vars(PushLock) /\ SF_vars(StopLock)
            /\ \A c \in Consumers : /\ WF_vars(Consume(c))
                                    /\ SF_vars(PopLock(c)) /\ SF_vars(PopResume(c))
                                    /\ SF_vars(SumLoad(c))

-----------------------------------------------------------------------------
(* assert(sum == 5050): every pushed value is added exactly once, however  *)
(* the consumers share the queue and interleave their additions.           *)
SumIsExact == AllJoined => sum = (Last * (Last + 1)) \div 2

(* No consumer returns while a value is queued or still to be pushed:      *)
(* push takes no notice of stopped_, so nobody would ever take the value.  *)
NoValueAbandoned ==
    (\E c \in Consumers : pc[c] = "done") => queue_ = <<>> /\ i > Last

(* main() returns: all the threads it joins end. *)
Terminates == <>AllJoined
=============================================================================
