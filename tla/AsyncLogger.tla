----------------------------- MODULE AsyncLogger -----------------------------
(***************************************************************************)
(* cpp/day22_async_logger.cpp: the class BoundedLogQueue (try_push, pop,   *)
(* close; cpp/day22_bounded_log_queue.cpp is the same class with another   *)
(* main) and the program around it.  Producer threads submit messages,    *)
(* one consumer thread writes them to a file, and main() joins the         *)
(* producers, closes the queue, joins the consumer, flushes and closes the *)
(* file and asserts the counts.                                            *)
(*                                                                         *)
(* Both notifications come after the mutex is released, so each is a step  *)
(* of its own.  The counters accepted and rejected are atomics bumped      *)
(* outside the lock: another step.  The file is an external: a write, the  *)
(* flush or the close may fail, and a failed stream stays failed.          *)
(***************************************************************************)
EXTENDS Naturals, Sequences, FiniteSets, CondVar

CONSTANTS Producers, Consumer, Main, Nobody,
          Capacity,     \* capacity_, 8 in main()
          Messages      \* messages_per_producer, 500 in main()

Threads == Producers \cup {Consumer, Main}

ASSUME ThreadsAssumption ==
    /\ IsFiniteSet(Producers)
    /\ Consumer \notin Producers /\ Main \notin Producers /\ Consumer # Main
    /\ Nobody \notin Threads

(* The constructor throws on capacity 0. *)
ASSUME BoundsAssumption == Capacity \in Nat \ {0} /\ Messages \in Nat

VARIABLES logs_, closed_, mutex_,
          cv_,          \* the threads asleep in pop: the consumer or nobody
          pc, seq,      \* seq[p]: the loop counter of producer p, from 1
          accepted, rejected, written,
          output,       \* [ok: the stream state, lines: what the file holds]
          message,      \* the message the consumer holds, as a sequence
          submitted     \* history: the messages try_push accepted, in order

queue == <<logs_, closed_, mutex_, cv_>>
results == <<accepted, rejected, written, output>>
vars == <<queue, pc, seq, results, message, submitted>>

Message == Producers \X (1 .. Messages)

Init == /\ logs_ = <<>> /\ closed_ = FALSE /\ mutex_ = Nobody /\ cv_ = {}
        /\ pc = [t \in Threads |-> IF t = Main THEN "join_producers" ELSE "out"]
        /\ seq = [p \in Producers |-> 1]
        /\ accepted = 0 /\ rejected = 0 /\ written = 0
        /\ output = [ok |-> TRUE, lines |-> <<>>]
        /\ message = <<>>
        /\ submitted = <<>>

Goto(t, l) == pc' = [pc EXCEPT ![t] = l]

Acquire(t, l) == /\ mutex_ = Nobody
                 /\ mutex_' = t
                 /\ Goto(t, l)

-----------------------------------------------------------------------------
(* The producers: the lambda produce and try_push. *)

TryLock(p) == /\ pc[p] = "out"
              /\ seq[p] <= Messages
              /\ Acquire(p, "try_push")
              /\ UNCHANGED <<logs_, closed_, cv_, seq, results, message, submitted>>

Refused == closed_ \/ Len(logs_) >= Capacity

TryRefuse(p) == /\ pc[p] = "try_push"
                /\ Refused
                /\ mutex_' = Nobody
                /\ Goto(p, "rejected")
                /\ UNCHANGED <<logs_, closed_, cv_, seq, results, message, submitted>>

(* Mutant: the newest message overtakes the queued ones. *)
TryAccept_Front(p) ==
    /\ pc[p] = "try_push"
    /\ ~Refused
    /\ logs_' = <<<<p, seq[p]>>>> \o logs_
    /\ submitted' = Append(submitted, <<p, seq[p]>>)
    /\ mutex_' = Nobody
    /\ Goto(p, "notify")
    /\ UNCHANGED <<closed_, cv_, seq, results, message>>

TryAccept(p) == /\ pc[p] = "try_push"
                /\ ~Refused
                /\ logs_' = Append(logs_, <<p, seq[p]>>)
                /\ submitted' = Append(submitted, <<p, seq[p]>>)
                /\ mutex_' = Nobody
                /\ Goto(p, "notify")
                /\ UNCHANGED <<closed_, cv_, seq, results, message>>

TryNotify(p) == /\ pc[p] = "notify"
                /\ cv_' \in NotifyOne(cv_)
                /\ Goto(p, "accepted")
                /\ UNCHANGED <<logs_, closed_, mutex_, seq, results, message, submitted>>

Count(p) == /\ \/ /\ pc[p] = "accepted"
                  /\ accepted' = accepted + 1 /\ UNCHANGED rejected
               \/ /\ pc[p] = "rejected"
                  /\ rejected' = rejected + 1 /\ UNCHANGED accepted
            /\ seq' = [seq EXCEPT ![p] = @ + 1]
            /\ Goto(p, "out")
            /\ UNCHANGED <<queue, written, output, message, submitted>>

TryPush(p) == TryLock(p) \/ TryRefuse(p) \/ TryAccept(p) \/ TryNotify(p)

Produce(p) == TryPush(p) \/ Count(p)

-----------------------------------------------------------------------------
(* The consumer: pop and the write loop. *)

CanPop == closed_ \/ logs_ # <<>>

PopLock == /\ pc[Consumer] = "out"
           /\ Acquire(Consumer, "pop_test")
           /\ UNCHANGED <<logs_, closed_, cv_, seq, results, message, submitted>>

(* Mutant: the queue is found empty, unlocked, and then waited for. *)
PopTest_Unlocked ==
    /\ pc[Consumer] = "pop_test"
    /\ ~CanPop
    /\ mutex_' = Nobody
    /\ Goto(Consumer, "pop_block")
    /\ UNCHANGED <<logs_, closed_, cv_, seq, results, message, submitted>>

PopTest == /\ pc[Consumer] = "pop_test"
           /\ ~CanPop
           /\ Goto(Consumer, "pop_block")
           /\ UNCHANGED <<queue, seq, results, message, submitted>>

PopBlock == /\ pc[Consumer] = "pop_block"
            /\ cv_' = cv_ \cup {Consumer}
            /\ mutex_' = Nobody
            /\ Goto(Consumer, "pop_wait")
            /\ UNCHANGED <<logs_, closed_, seq, results, message, submitted>>

PopResume == /\ pc[Consumer] = "pop_wait"
             /\ Consumer \notin cv_
             /\ Acquire(Consumer, "pop_test")
             /\ UNCHANGED <<logs_, closed_, cv_, seq, results, message, submitted>>

(* Mutant: a closed queue is not drained. *)
PopEnd_NoDrain ==
    /\ pc[Consumer] = "pop_test"
    /\ closed_
    /\ mutex_' = Nobody
    /\ Goto(Consumer, "done")
    /\ UNCHANGED <<logs_, closed_, cv_, seq, results, message, submitted>>

PopEnd == /\ pc[Consumer] = "pop_test"
          /\ closed_ /\ logs_ = <<>>
          /\ mutex_' = Nobody
          /\ Goto(Consumer, "done")
          /\ UNCHANGED <<logs_, closed_, cv_, seq, results, message, submitted>>

PopTake == /\ pc[Consumer] = "pop_test"
           /\ logs_ # <<>>
           /\ message' = <<Head(logs_)>>
           /\ logs_' = Tail(logs_)
           /\ mutex_' = Nobody
           /\ Goto(Consumer, "write")
           /\ UNCHANGED <<closed_, cv_, seq, results, submitted>>

Write == /\ pc[Consumer] = "write"
         /\ \/ /\ output.ok
               /\ output' = [output EXCEPT !.lines = @ \o message]
               /\ written' = written + 1
            \/ /\ output' = [output EXCEPT !.ok = FALSE]
               /\ UNCHANGED written
         /\ message' = <<>>
         /\ Goto(Consumer, "out")
         /\ UNCHANGED <<queue, seq, accepted, rejected, submitted>>

Pop == PopLock \/ PopTest \/ PopBlock \/ PopResume \/ PopEnd \/ PopTake

Consume == Pop \/ Write

-----------------------------------------------------------------------------
(* main() *)

JoinProducers == /\ pc[Main] = "join_producers"
                 /\ \A p \in Producers : pc[p] = "out" /\ seq[p] > Messages
                 /\ Goto(Main, "close")
                 /\ UNCHANGED <<queue, seq, results, message, submitted>>

CloseLock == /\ pc[Main] = "close"
             /\ Acquire(Main, "close_set")
             /\ UNCHANGED <<logs_, closed_, cv_, seq, results, message, submitted>>

CloseSet == /\ pc[Main] = "close_set"
            /\ closed_' = TRUE
            /\ mutex_' = Nobody
            /\ Goto(Main, "close_notify")
            /\ UNCHANGED <<logs_, cv_, seq, results, message, submitted>>

(* Mutant: close() notifies nobody. *)
CloseNotify_Skipped ==
    /\ pc[Main] = "close_notify"
    /\ Goto(Main, "join_consumer")
    /\ UNCHANGED <<queue, seq, results, message, submitted>>

CloseNotify == /\ pc[Main] = "close_notify"
               /\ cv_' \in NotifyAll(cv_)
               /\ Goto(Main, "join_consumer")
               /\ UNCHANGED <<logs_, closed_, mutex_, seq, results, message, submitted>>

(* Mutant: main() goes on without joining the consumer. *)
JoinConsumer_Skipped ==
    /\ pc[Main] = "join_consumer"
    /\ Goto(Main, "finish")
    /\ UNCHANGED <<queue, seq, results, message, submitted>>

JoinConsumer == /\ pc[Main] = "join_consumer"
                /\ pc[Consumer] = "done"
                /\ Goto(Main, "finish")
                /\ UNCHANGED <<queue, seq, results, message, submitted>>

(* flush(), close() and the test of the stream that follows them *)
Finish == /\ pc[Main] = "finish"
          /\ \/ output.ok /\ Goto(Main, "passed") /\ UNCHANGED output
             \/ output' = [output EXCEPT !.ok = FALSE] /\ Goto(Main, "failed")
          /\ UNCHANGED <<queue, seq, accepted, rejected, written, message, submitted>>

Close == CloseLock \/ CloseSet \/ CloseNotify

MainStep == JoinProducers \/ Close \/ JoinConsumer \/ Finish

SpuriousWakeup == /\ cv_' \in Spurious(cv_)
                  /\ UNCHANGED <<logs_, closed_, mutex_, pc, seq, results, message, submitted>>

Returned == pc[Main] \in {"passed", "failed"} /\ UNCHANGED vars

Next == \/ \E p \in Producers : Produce(p)
        \/ Consume
        \/ MainStep
        \/ SpuriousWakeup
        \/ Returned

Spec == Init /\ [][Next]_vars

(* Every thread runs; a mutex released again and again is obtained. *)
FairSpec == /\ Spec
            /\ \A p \in Producers : WF_vars(Produce(p)) /\ SF_vars(TryLock(p))
            /\ WF_vars(Consume) /\ SF_vars(PopLock) /\ SF_vars(PopResume)
            /\ WF_vars(MainStep) /\ SF_vars(CloseLock)

-----------------------------------------------------------------------------
TypeOK == /\ logs_ \in Seq(Message) /\ Len(logs_) <= Capacity
          /\ closed_ \in BOOLEAN
          /\ mutex_ \in Threads \cup {Nobody}
          /\ cv_ \subseteq {Consumer}
          /\ pc \in [Threads -> {"out", "try_push", "rejected", "notify", "accepted",
                                 "pop_test", "pop_block", "pop_wait", "write", "done",
                                 "join_producers", "close", "close_set", "close_notify",
                                 "join_consumer", "finish", "passed", "failed"}]
          /\ seq \in [Producers -> 1 .. Messages + 1]
          /\ accepted \in Nat /\ rejected \in Nat /\ written \in Nat
          /\ output \in [ok : BOOLEAN, lines : Seq(Message)]
          /\ message \in Seq(Message) /\ Len(message) <= 1
          /\ submitted \in Seq(Message)

(* As long as the stream is good, what was accepted is in the file, in the *)
(* consumer's hand or in the queue, in the order of acceptance.            *)
NothingLost == output.ok => submitted = output.lines \o message \o logs_

(* The assertions at the end of main(): a program that reports success has *)
(* answered every call exactly once and has written every accepted line,   *)
(* even though the counters run behind the queue while threads are alive.  *)
ReportIsExact ==
    pc[Main] = "passed" =>
        /\ accepted + rejected = Cardinality(Producers) * Messages
        /\ written = accepted
        /\ written = Len(output.lines)

(* No lost wakeup, although try_push and close notify after they unlocked: *)
(* while the consumer sleeps on a queue that has become non-empty or was   *)
(* closed, the thread that changed it has not yet called its notify.       *)
NoLostWakeup ==
    Consumer \in cv_ /\ CanPop
    => \/ \E p \in Producers : pc[p] = "notify"
       \/ pc[Main] = "close_notify"

(* The shutdown order join producers, close, join consumer ends: main()    *)
(* returns whether or not the file fails.                                  *)
Terminates == <>(pc[Main] \in {"passed", "failed"})

Busy == {p \in Producers : pc[p] = "try_push"}
        \cup {c \in {Consumer} : pc[c] \in {"pop_test", "pop_block", "pop_wait"}}

Taken == SubSeq(submitted, 1, Len(submitted) - Len(logs_))

Abstract == INSTANCE QueueSpec WITH Putters <- Producers, Takers <- {Consumer},
                                    Element <- Message, RefuseFull <- TRUE,
                                    buf <- logs_, closed <- closed_,
                                    delivered <- Taken, busy <- Busy

(* BoundedLogQueue is a closable FIFO whose put is refused when it is full *)
(* or closed and whose take is refused only when it is closed and drained. *)
ImplementsQueueSpec == Abstract!Spec
=============================================================================
