-------------------------- MODULE AsyncLoggerProofs --------------------------
(***************************************************************************)
(* Proofs about AsyncLogger, for any finite set of producers, any capacity *)
(* and any number of messages.                                             *)
(*                                                                         *)
(* The strengthening Shutdown says who holds the mutex and how far each of *)
(* the three kinds of threads can be while main() shuts the program down;  *)
(* Counted ties the counters to the calls that are over.                   *)
(***************************************************************************)
EXTENDS AsyncLogger, FiniteSetTheorems, SequenceTheorems, TLAPS

ProducerLabels == {"out", "try_push", "rejected", "notify", "accepted"}
ConsumerLabels == {"out", "pop_test", "pop_block", "pop_wait", "write", "done"}
MainLabels == {"join_producers", "close", "close_set", "close_notify",
               "join_consumer", "finish", "passed", "failed"}
Holding == {"try_push", "pop_test", "pop_block", "close_set"}

Shutdown ==
    /\ \A t \in Threads : pc[t] \in Holding => mutex_ = t
    /\ \A p \in Producers : pc[p] \in ProducerLabels
    /\ pc[Consumer] \in ConsumerLabels
    /\ pc[Main] \in MainLabels
    /\ \A p \in Producers : pc[p] # "out" => seq[p] <= Messages
    /\ pc[Main] # "join_producers"
         => \A p \in Producers : pc[p] = "out" /\ seq[p] = Messages + 1
    /\ closed_ <=> pc[Main] \notin {"join_producers", "close", "close_set"}
    /\ Len(message) = IF pc[Consumer] = "write" THEN 1 ELSE 0
    /\ pc[Consumer] = "done" => closed_ /\ logs_ = <<>>
    /\ pc[Main] \in {"finish", "passed", "failed"} => pc[Consumer] = "done"
    /\ pc[Main] = "passed" => output.ok

IInv == TypeOK /\ Shutdown

-----------------------------------------------------------------------------
LEMMA InitIInv == Init => IInv
<1> SUFFICES ASSUME Init PROVE IInv
  OBVIOUS
<1> USE ThreadsAssumption, BoundsAssumption DEF ThreadsAssumption, BoundsAssumption
<1>1. TypeOK
  <2>1. <<>> \in Seq(Message) /\ Len(<<>>) = 0
    BY EmptySeq
  <2>2. seq \in [Producers -> 1 .. Messages + 1]
    BY DEF Init
  <2>3. output \in [ok : BOOLEAN, lines : Seq(Message)]
    BY <2>1 DEF Init
  <2>4. pc \in [Threads -> {"out", "try_push", "rejected", "notify", "accepted",
                           "pop_test", "pop_block", "pop_wait", "write", "done",
                           "join_producers", "close", "close_set", "close_notify",
                           "join_consumer", "finish", "passed", "failed"}]
    BY DEF Init
  <2>5. /\ logs_ \in Seq(Message) /\ message \in Seq(Message) /\ submitted \in Seq(Message)
        /\ Len(logs_) <= Capacity /\ Len(message) <= 1
    BY <2>1 DEF Init
  <2>6. /\ closed_ \in BOOLEAN /\ mutex_ \in Threads \cup {Nobody} /\ cv_ \subseteq {Consumer}
        /\ accepted \in Nat /\ rejected \in Nat /\ written \in Nat
    BY DEF Init
  <2>7. QED
    BY <2>2, <2>3, <2>4, <2>5, <2>6 DEF TypeOK
<1>2. Shutdown
  <2>1. Len(<<>>) = 0
    OBVIOUS
  <2>2. QED
    BY <2>1 DEF Init, Shutdown, Holding, ProducerLabels, ConsumerLabels, MainLabels, Threads
<1>3. QED
  BY <1>1, <1>2 DEF IInv

LEMMA NextIInv == IInv /\ [Next]_vars => IInv'
<1> SUFFICES ASSUME IInv, [Next]_vars PROVE IInv'
  OBVIOUS
<1> USE ThreadsAssumption, BoundsAssumption DEF ThreadsAssumption, BoundsAssumption, IInv
<1> USE DEF Shutdown, Holding, ProducerLabels, ConsumerLabels, MainLabels,
            Message, Threads, queue, results, Goto, Acquire
<1>1. ASSUME NEW p \in Producers, Produce(p) PROVE IInv'
  <2>1. CASE TryLock(p)
    <3>1. TypeOK'
      BY <2>1 DEF TryLock, TypeOK
    <3>2. Shutdown'
      BY <2>1 DEF TryLock, TypeOK
    <3>3. QED
      BY <3>1, <3>2
  <2>2. CASE TryRefuse(p)
    <3>1. TypeOK'
      BY <2>2 DEF TryRefuse, TypeOK
    <3>2. Shutdown'
      BY <2>2 DEF TryRefuse, TypeOK
    <3>3. QED
      BY <3>1, <3>2
  <2>3. CASE TryAccept(p)
    <3>1. <<p, seq[p]>> \in Message
      BY <2>3 DEF TryAccept, TypeOK
    <3>2. /\ logs_' \in Seq(Message) /\ submitted' \in Seq(Message)
          /\ Len(logs_') = Len(logs_) + 1 /\ Len(logs_) \in Nat
      BY <2>3, <3>1, AppendProperties, LenProperties DEF TryAccept, TypeOK
    <3>3. TypeOK'
      <4>1. Len(logs_') <= Capacity
        BY <2>3, <3>2 DEF TryAccept, Refused
      <4>2. QED
        BY <2>3, <3>2, <4>1 DEF TryAccept, TypeOK
    <3>4. pc[Main] = "join_producers" /\ ~closed_
      BY <2>3 DEF TryAccept, Refused, TypeOK
    <3>5. Shutdown'
      BY <2>3, <3>4 DEF TryAccept, TypeOK
    <3>6. QED
      BY <3>3, <3>5
  <2>4. CASE TryNotify(p)
    <3>1. cv_' \in SUBSET cv_
      BY <2>4 DEF TryNotify, NotifyOne
    <3>2. TypeOK'
      BY <2>4, <3>1 DEF TryNotify, TypeOK
    <3>3. Shutdown'
      BY <2>4 DEF TryNotify, TypeOK
    <3>4. QED
      BY <3>2, <3>3
  <2>5. CASE Count(p)
    <3>1. seq[p] + 1 \in 1 .. Messages + 1
      <4>1. seq[p] \in 1 .. Messages + 1 /\ seq[p] <= Messages
        BY <2>5 DEF Count, TypeOK
      <4>2. QED
        BY <4>1
    <3>2. seq' \in [Producers -> 1 .. Messages + 1]
      BY <2>5, <3>1 DEF Count, TypeOK
    <3>3. TypeOK'
      <4>1. accepted' \in Nat /\ rejected' \in Nat
        <5>1. accepted \in Nat /\ rejected \in Nat
          BY DEF TypeOK
        <5>2. accepted' = accepted \/ accepted' = accepted + 1
          BY <2>5 DEF Count
        <5>3. rejected' = rejected \/ rejected' = rejected + 1
          BY <2>5 DEF Count
        <5>4. QED
          BY <5>1, <5>2, <5>3
      <4>2. QED
        BY <2>5, <3>2, <4>1 DEF Count, TypeOK
    <3>4. pc[Main] = "join_producers" /\ UNCHANGED <<mutex_, closed_, logs_, message, output>>
      BY <2>5 DEF Count, TypeOK
    <3>5. Shutdown'
      BY <2>5, <3>2, <3>4 DEF Count, TypeOK
    <3>6. QED
      BY <3>3, <3>5
  <2>6. QED
    BY <1>1, <2>1, <2>2, <2>3, <2>4, <2>5 DEF Produce, TryPush
<1>2. CASE Consume
  <2>1. CASE PopLock
    <3>1. TypeOK'
      BY <2>1 DEF PopLock, TypeOK
    <3>2. Shutdown'
      BY <2>1 DEF PopLock, TypeOK
    <3>3. QED
      BY <3>1, <3>2
  <2>5. CASE PopTest
    <3>1. TypeOK'
      BY <2>5 DEF PopTest, TypeOK
    <3>2. Shutdown'
      BY <2>5 DEF PopTest, TypeOK
    <3>3. QED
      BY <3>1, <3>2
  <2>6. CASE PopBlock
    <3>1. TypeOK'
      BY <2>6 DEF PopBlock, TypeOK
    <3>2. Shutdown'
      BY <2>6 DEF PopBlock, TypeOK
    <3>3. QED
      BY <3>1, <3>2
  <2>7. CASE PopResume
    <3>1. TypeOK'
      BY <2>7 DEF PopResume, TypeOK
    <3>2. Shutdown'
      BY <2>7 DEF PopResume, TypeOK
    <3>3. QED
      BY <3>1, <3>2
  <2>2. CASE PopEnd
    <3>1. TypeOK'
      BY <2>2 DEF PopEnd, TypeOK
    <3>2. Shutdown'
      BY <2>2 DEF PopEnd, TypeOK
    <3>3. QED
      BY <3>1, <3>2
  <2>3. CASE PopTake
    <3>1. /\ Head(logs_) \in Message /\ logs_' \in Seq(Message)
          /\ Len(logs_') = Len(logs_) - 1
      BY <2>3, HeadTailProperties DEF PopTake, TypeOK
    <3>2. message' \in Seq(Message) /\ Len(message') = 1
      BY <2>3, <3>1 DEF PopTake
    <3>3. Len(logs_) \in Nat
      BY LenProperties DEF TypeOK
    <3>4. TypeOK'
      BY <2>3, <3>1, <3>2, <3>3 DEF PopTake, TypeOK
    <3>5. Shutdown'
      BY <2>3, <3>2 DEF PopTake, TypeOK
    <3>6. QED
      BY <3>4, <3>5
  <2>4. CASE Write
    <3>1. message' = <<>> /\ message' \in Seq(Message) /\ Len(message') = 0
      BY <2>4, EmptySeq DEF Write
    <3>2. /\ output' \in [ok : BOOLEAN, lines : Seq(Message)]
          /\ written' \in Nat
      <4>1. output.lines \o message \in Seq(Message)
        BY ConcatProperties DEF TypeOK
      <4>2. CASE output' = [output EXCEPT !.lines = @ \o message] /\ written' = written + 1
        <5> DEFINE written_lines == output.lines \o message
        <5>1. output' = [output EXCEPT !.lines = written_lines]
          BY <4>2
        <5>2. written_lines \in Seq(Message)
          BY <4>1
        <5> HIDE DEF written_lines
        <5>3. output \in [ok : BOOLEAN, lines : Seq(Message)] /\ written \in Nat
          BY DEF TypeOK
        <5>4. output' \in [ok : BOOLEAN, lines : Seq(Message)]
          BY <5>1, <5>2, <5>3
        <5>5. QED
          BY <4>2, <5>3, <5>4
      <4>3. CASE output' = [output EXCEPT !.ok = FALSE] /\ written' = written
        BY <4>3 DEF TypeOK
      <4>4. QED
        BY <2>4, <4>2, <4>3 DEF Write
    <3>3. TypeOK'
      BY <2>4, <3>1, <3>2 DEF Write, TypeOK
    <3>4. pc[Main] \notin {"finish", "passed", "failed"}
      BY <2>4 DEF Write
    <3>5. Shutdown'
      BY <2>4, <3>1, <3>4 DEF Write, TypeOK
    <3>6. QED
      BY <3>3, <3>5
  <2>8. QED
    BY <1>2, <2>1, <2>2, <2>3, <2>4, <2>5, <2>6, <2>7 DEF Consume, Pop
<1>3. CASE MainStep
  <2>1. CASE JoinProducers
    <3>1. TypeOK'
      BY <2>1 DEF JoinProducers, TypeOK
    <3>2. \A p \in Producers : seq[p] = Messages + 1
      BY <2>1 DEF JoinProducers, TypeOK
    <3>3. Shutdown'
      BY <2>1, <3>2 DEF JoinProducers, TypeOK
    <3>4. QED
      BY <3>1, <3>3
  <2>2. CASE CloseLock
    <3>1. TypeOK'
      BY <2>2 DEF CloseLock, TypeOK
    <3>2. Shutdown'
      BY <2>2 DEF CloseLock, TypeOK
    <3>3. QED
      BY <3>1, <3>2
  <2>3. CASE CloseSet
    <3>1. TypeOK'
      BY <2>3 DEF CloseSet, TypeOK
    <3>2. Shutdown'
      BY <2>3 DEF CloseSet, TypeOK
    <3>3. QED
      BY <3>1, <3>2
  <2>4. CASE CloseNotify
    <3>1. TypeOK'
      BY <2>4 DEF CloseNotify, NotifyAll, TypeOK
    <3>2. Shutdown'
      BY <2>4 DEF CloseNotify, TypeOK
    <3>3. QED
      BY <3>1, <3>2
  <2>5. CASE JoinConsumer
    <3>1. TypeOK'
      BY <2>5 DEF JoinConsumer, TypeOK
    <3>2. Shutdown'
      BY <2>5 DEF JoinConsumer, TypeOK
    <3>3. QED
      BY <3>1, <3>2
  <2>6. CASE Finish
    <3>1. TypeOK'
      BY <2>6 DEF Finish, TypeOK
    <3>2. Shutdown'
      BY <2>6 DEF Finish, TypeOK
    <3>3. QED
      BY <3>1, <3>2
  <2>7. QED
    BY <1>3, <2>1, <2>2, <2>3, <2>4, <2>5, <2>6 DEF MainStep, Close
<1>4. CASE SpuriousWakeup
  <2>1. TypeOK'
    BY <1>4 DEF SpuriousWakeup, Spurious, TypeOK
  <2>2. Shutdown'
    BY <1>4 DEF SpuriousWakeup, TypeOK
  <2>3. QED
    BY <2>1, <2>2
<1>5. CASE UNCHANGED vars
  BY <1>5 DEF vars, TypeOK
<1>6. QED
  BY <1>1, <1>2, <1>3, <1>4, <1>5 DEF Next, Returned

(* Every variable keeps its type, whatever the number of producers, the    *)
(* capacity and the number of messages.                                    *)
THEOREM TypeCorrect == Spec => []TypeOK
<1>1. IInv => TypeOK
  BY DEF IInv
<1>2. QED
  BY InitIInv, NextIInv, <1>1, PTL DEF Spec

-----------------------------------------------------------------------------
(* No lost wakeup.  What the consumer found under the mutex still holds    *)
(* when it goes to sleep, and who changes it afterwards has a notify ahead. *)

Found == pc[Consumer] = "pop_block" => ~CanPop

LEMMA NextWakeup ==
    IInv /\ Found /\ NoLostWakeup /\ [Next]_vars => Found' /\ NoLostWakeup'
<1> SUFFICES ASSUME IInv, Found, NoLostWakeup, [Next]_vars PROVE Found' /\ NoLostWakeup'
  OBVIOUS
<1>0. /\ pc \in [Threads -> ProducerLabels \cup ConsumerLabels \cup MainLabels]
      /\ cv_ \subseteq {Consumer}
      /\ \A t \in Threads : pc[t] \in Holding => mutex_ = t
      /\ Consumer \in Threads /\ Main \in Threads /\ Producers \subseteq Threads
      /\ Consumer \notin Producers /\ Main \notin Producers /\ Consumer # Main
      /\ Nobody \notin Threads
  BY ThreadsAssumption
     DEF IInv, TypeOK, Shutdown, ThreadsAssumption, Threads, ProducerLabels,
         ConsumerLabels, MainLabels
<1> USE DEF Found, NoLostWakeup, CanPop, Holding, Goto, Acquire
<1>1. ASSUME NEW p \in Producers, Produce(p) PROVE Found' /\ NoLostWakeup'
  <2>1. CASE TryLock(p)
    BY <1>0, <2>1 DEF TryLock
  <2>2. CASE TryRefuse(p)
    BY <1>0, <2>2 DEF TryRefuse
  <2>3. CASE TryAccept(p)
    <3>1. pc[Consumer] # "pop_block" /\ pc'[p] = "notify" /\ pc'[Consumer] = pc[Consumer]
      BY <1>0, <2>3 DEF TryAccept
    <3>2. QED
      BY <3>1
  <2>4. CASE TryNotify(p)
    <3>1. cv_' = {}
      BY <1>0, <2>4 DEF TryNotify, NotifyOne
    <3>2. QED
      BY <1>0, <2>4, <3>1 DEF TryNotify
  <2>5. CASE Count(p)
    BY <1>0, <2>5 DEF Count, queue
  <2>6. QED
    BY <1>1, <2>1, <2>2, <2>3, <2>4, <2>5 DEF Produce, TryPush
<1>2. CASE Consume
  <2>1. CASE PopLock
    BY <1>0, <2>1 DEF PopLock
  <2>2. CASE PopTest
    BY <1>0, <2>2 DEF PopTest, queue
  <2>3. CASE PopBlock
    BY <1>0, <2>3 DEF PopBlock
  <2>4. CASE PopResume
    BY <1>0, <2>4 DEF PopResume
  <2>5. CASE PopEnd
    BY <1>0, <2>5 DEF PopEnd
  <2>6. CASE PopTake
    BY <1>0, <2>6 DEF PopTake
  <2>7. CASE Write
    BY <1>0, <2>7 DEF Write, queue
  <2>8. QED
    BY <1>2, <2>1, <2>2, <2>3, <2>4, <2>5, <2>6, <2>7 DEF Consume, Pop
<1>3. CASE MainStep
  <2>1. CASE JoinProducers
    BY <1>0, <2>1 DEF JoinProducers, queue
  <2>2. CASE CloseLock
    BY <1>0, <2>2 DEF CloseLock
  <2>3. CASE CloseSet
    <3>1. /\ pc[Consumer] # "pop_block" /\ pc'[Main] = "close_notify"
          /\ pc'[Consumer] = pc[Consumer]
      BY <1>0, <2>3 DEF CloseSet
    <3>2. QED
      BY <3>1
  <2>4. CASE CloseNotify
    <3>1. cv_' = {}
      BY <2>4 DEF CloseNotify, NotifyAll
    <3>2. QED
      BY <1>0, <2>4, <3>1 DEF CloseNotify
  <2>5. CASE JoinConsumer
    BY <1>0, <2>5 DEF JoinConsumer, queue
  <2>6. CASE Finish
    BY <1>0, <2>6 DEF Finish, queue
  <2>7. QED
    BY <1>3, <2>1, <2>2, <2>3, <2>4, <2>5, <2>6 DEF MainStep, Close
<1>4. CASE SpuriousWakeup
  BY <1>0, <1>4 DEF SpuriousWakeup, Spurious
<1>5. CASE UNCHANGED vars
  BY <1>5 DEF vars, queue
<1>6. QED
  BY <1>1, <1>2, <1>3, <1>4, <1>5 DEF Next, Returned

(* While the consumer sleeps although the queue is non-empty or closed, a  *)
(* notification is still to come, for any number of producers.             *)
THEOREM NoLostWakeupHolds == Spec => []NoLostWakeup
<1>1. Init => Found /\ NoLostWakeup
  BY ThreadsAssumption DEF Init, Found, NoLostWakeup, Threads, ThreadsAssumption
<1>2. QED
  BY InitIInv, NextIInv, NextWakeup, <1>1, PTL DEF Spec
-----------------------------------------------------------------------------
(* Nothing is lost. *)

(* The steps that touch the messages. *)
LEMMA MessageSteps ==
    ASSUME [Next]_vars
    PROVE  \/ UNCHANGED <<logs_, submitted, message, output, written>>
           \/ \E p \in Producers : TryAccept(p)
           \/ PopTake \/ Write \/ Finish
<1>1. ASSUME NEW p \in Producers, Produce(p), ~TryAccept(p)
      PROVE  UNCHANGED <<logs_, submitted, message, output, written>>
  BY <1>1 DEF Produce, TryPush, TryLock, TryRefuse, TryNotify, Count, queue, results
<1>2. ASSUME Consume, ~PopTake, ~Write
      PROVE  UNCHANGED <<logs_, submitted, message, output, written>>
  BY <1>2 DEF Consume, Pop, PopLock, PopTest, PopBlock, PopResume, PopEnd, queue, results
<1>3. ASSUME MainStep, ~Finish
      PROVE  UNCHANGED <<logs_, submitted, message, output, written>>
  BY <1>3 DEF MainStep, Close, JoinProducers, CloseLock, CloseSet, CloseNotify,
              JoinConsumer, queue, results
<1>4. CASE SpuriousWakeup
  BY <1>4 DEF SpuriousWakeup, results
<1>5. CASE UNCHANGED vars
  BY <1>5 DEF vars, queue, results
<1>6. QED
  BY <1>1, <1>2, <1>3, <1>4, <1>5 DEF Next, Returned

(* What a producer submits is a message. *)
LEMMA Submitted ==
    ASSUME IInv, NEW p \in Producers, TryAccept(p)
    PROVE  <<p, seq[p]>> \in Message
<1>1. seq[p] \in 1 .. Messages + 1 /\ seq[p] <= Messages
  BY DEF TryAccept, IInv, TypeOK, Shutdown
<1>2. QED
  BY <1>1, BoundsAssumption DEF Message, BoundsAssumption

(* Moving the head of the second sequence to the end of the first changes  *)
(* nothing of the whole.                                                   *)
LEMMA MoveHead ==
    ASSUME NEW S, NEW s \in Seq(S), NEW t \in Seq(S), t # <<>>
    PROVE  (s \o <<Head(t)>>) \o Tail(t) = s \o t
<1>1. /\ Head(t) \in S
      /\ Tail(t) \in Seq(S)
      /\ Len(Tail(t)) = Len(t) - 1
      /\ \A i \in 1 .. Len(Tail(t)) : Tail(t)[i] = t[i + 1]
  BY HeadTailProperties
<1>2. <<Head(t)>> \in Seq(S)
  BY <1>1
<1>3. <<Head(t)>> \o Tail(t) = t
  BY <1>1, <1>2, SeqEqual, ConcatProperties
<1>4. QED
  BY <1>1, <1>2, <1>3, ConcatAssociative

LEMMA NextNothingLost == IInv /\ NothingLost /\ [Next]_vars => NothingLost'
<1> SUFFICES ASSUME IInv, NothingLost, [Next]_vars, output.ok'
             PROVE  submitted' = (output.lines \o message \o logs_)'
  BY DEF NothingLost
<1> DEFINE lines == output.lines
<1>0. /\ lines \in Seq(Message) /\ message \in Seq(Message) /\ logs_ \in Seq(Message)
      /\ submitted \in Seq(Message) /\ output \in [ok : BOOLEAN, lines : Seq(Message)]
  BY DEF IInv, TypeOK
<1>1. CASE UNCHANGED <<logs_, submitted, message, output, written>>
  BY <1>1 DEF NothingLost
<1>2. ASSUME NEW p \in Producers, TryAccept(p)
      PROVE  submitted' = (output.lines \o message \o logs_)'
  <2>1. <<p, seq[p]>> \in Message
    BY <1>2, Submitted
  <2>2. /\ submitted' = Append(submitted, <<p, seq[p]>>)
        /\ logs_' = Append(logs_, <<p, seq[p]>>)
        /\ UNCHANGED <<output, message>>
    BY <1>2 DEF TryAccept, results
  <2>3. lines \o message \in Seq(Message)
    BY <1>0, ConcatProperties
  <2>4. submitted = (lines \o message) \o logs_
    BY <2>2 DEF NothingLost
  <2> DEFINE out == lines \o message
             last == <<p, seq[p]>>
  <2>5. (out \o logs_) \o <<last>> = out \o (logs_ \o <<last>>)
    <3>1. out \in Seq(Message) /\ logs_ \in Seq(Message) /\ last \in Message
      BY <1>0, <2>1, <2>3
    <3> HIDE DEF out, last
    <3>2. QED
      BY <3>1, ConcatAssociative
  <2>6. submitted' = submitted \o <<last>> /\ logs_' = logs_ \o <<last>>
    BY <1>0, <2>1, <2>2, AppendIsConcat
  <2>7. QED
    BY <2>2, <2>4, <2>5, <2>6
<1>3. CASE PopTake
  <2>1. /\ logs_ # <<>> /\ logs_' = Tail(logs_) /\ message' = <<Head(logs_)>>
        /\ UNCHANGED <<output, submitted>> /\ Len(message) = 0
    BY <1>3 DEF PopTake, results, IInv, Shutdown
  <2>2. message = <<>>
    BY <1>0, <2>1, EmptySeq
  <2>3. lines \o message = lines
    BY <1>0, <2>2, ConcatEmptySeq
  <2>4. (lines \o <<Head(logs_)>>) \o Tail(logs_) = lines \o logs_
    BY <1>0, <2>1, MoveHead
  <2>5. submitted = lines \o logs_
    BY <2>1, <2>3 DEF NothingLost
  <2>6. QED
    BY <2>1, <2>4, <2>5
<1>4. CASE Write
  <2>1. /\ message' = <<>> /\ UNCHANGED <<submitted, logs_>>
        /\ output.ok /\ output' = [output EXCEPT !.lines = @ \o message]
    BY <1>0, <1>4 DEF Write, queue
  <2>2. output'.lines = lines \o message
    BY <1>0, <2>1
  <2>3. lines \o message \in Seq(Message)
    BY <1>0, ConcatProperties
  <2>4. (lines \o message) \o <<>> = lines \o message
    BY <2>3, ConcatEmptySeq
  <2>5. QED
    BY <2>1, <2>2, <2>4 DEF NothingLost
<1>5. CASE Finish
  BY <1>0, <1>5 DEF Finish, NothingLost, queue
<1>6. QED
  BY <1>1, <1>2, <1>3, <1>4, <1>5, MessageSteps

(* As long as the stream is good every accepted message is in the file, in *)
(* the consumer's hand or in the queue, in the order of acceptance.        *)
THEOREM NothingLostHolds == Spec => []NothingLost
<1>1. Init => NothingLost
  <2>1. <<>> \in Seq(Message)
    BY EmptySeq
  <2>2. <<>> \o <<>> = <<>>
    BY <2>1, ConcatEmptySeq, Zenon
  <2>3. QED
    BY <2>2 DEF Init, NothingLost
<1>2. QED
  BY InitIInv, NextIInv, NextNothingLost, <1>1, PTL DEF Spec
-----------------------------------------------------------------------------
(* The counts main() asserts. *)

(* The calls of try_push that are over, and those accepted but not yet     *)
(* counted.                                                                *)
Answered == {e \in Message : e[2] < seq[e[1]]}
InHand == {p \in Producers : pc[p] \in {"notify", "accepted"}}

Counted ==
    /\ accepted + rejected = Cardinality(Answered)
    /\ accepted + Cardinality(InHand) = Len(submitted)
    /\ written = Len(output.lines)

LEMMA MessageFinite ==
    /\ IsFiniteSet(Message)
    /\ Cardinality(Message) = Cardinality(Producers) * Messages
<1> USE ThreadsAssumption, BoundsAssumption DEF ThreadsAssumption, BoundsAssumption
<1>1. IsFiniteSet(1 .. Messages) /\ Cardinality(1 .. Messages) = Messages
  BY FS_Interval
<1>2. QED
  BY <1>1, FS_Product DEF Message

LEMMA CountedFinite ==
    /\ IsFiniteSet(Answered) /\ Cardinality(Answered) \in Nat
    /\ IsFiniteSet(InHand) /\ Cardinality(InHand) \in Nat
<1>1. Answered \in SUBSET Message /\ InHand \in SUBSET Producers
  BY DEF Answered, InHand
<1>2. QED
  BY <1>1, MessageFinite, FS_Subset, FS_CardinalityType, ThreadsAssumption
     DEF ThreadsAssumption

LEMMA InitCounted == Init => Counted
<1> SUFFICES ASSUME Init PROVE Counted
  OBVIOUS
<1>1. Answered = {}
  BY BoundsAssumption DEF Init, Answered, Message, BoundsAssumption
<1>2. InHand = {}
  BY ThreadsAssumption DEF Init, InHand, Threads, ThreadsAssumption
<1>3. Len(<<>>) = 0
  OBVIOUS
<1>4. QED
  BY <1>1, <1>2, <1>3, FS_EmptySet DEF Init, Counted

LEMMA NextCounted == IInv /\ Counted /\ [Next]_vars => Counted'
<1> SUFFICES ASSUME IInv, Counted, [Next]_vars PROVE Counted'
  OBVIOUS
<1> DEFINE S == accepted + rejected = Cardinality(Answered)
           H == accepted + Cardinality(InHand) = Len(submitted)
           W == written = Len(output.lines)
           D == <<seq, accepted, rejected>>
<1>0. /\ accepted \in Nat /\ rejected \in Nat /\ submitted \in Seq(Message)
      /\ Len(submitted) \in Nat
      /\ seq \in [Producers -> 1 .. Messages + 1]
      /\ S /\ H /\ W
  BY LenProperties DEF IInv, TypeOK, Counted
<1>1. ASSUME UNCHANGED D PROVE S'
  BY <1>0, <1>1 DEF Answered
<1>2. ASSUME UNCHANGED <<accepted, submitted>>, InHand' = InHand PROVE H'
  BY <1>0, <1>2
<1>3. ASSUME UNCHANGED <<written, output>> PROVE W'
  BY <1>0, <1>3
<1> USE ThreadsAssumption, BoundsAssumption DEF ThreadsAssumption, BoundsAssumption
<1>4. ASSUME NEW p \in Producers, Produce(p) PROVE Counted'
  <2>1. CASE TryAccept(p)
    <3>1. /\ p \notin InHand /\ InHand' = InHand \cup {p}
          /\ UNCHANGED D /\ UNCHANGED <<written, output>>
      BY <2>1 DEF TryAccept, InHand, Goto, results, IInv, TypeOK, Threads
    <3>2. Len(submitted') = Len(submitted) + 1
      BY <1>0, <2>1, Submitted, AppendProperties DEF TryAccept
    <3>3. Cardinality(InHand') = Cardinality(InHand) + 1
      BY <3>1, CountedFinite, FS_AddElement
    <3>4. H'
      BY <1>0, <3>1, <3>2, <3>3, CountedFinite
    <3>5. QED
      BY <1>1, <1>3, <3>1, <3>4 DEF Counted
  <2>2. CASE Count(p)
    <3> DEFINE e == <<p, seq[p]>>
    <3>1. e \in Message /\ e \notin Answered
      <4>1. seq[p] \in 1 .. Messages + 1 /\ seq[p] <= Messages
        BY <2>2 DEF Count, IInv, TypeOK, Shutdown
      <4>2. QED
        BY <4>1 DEF Answered, Message
    <3>2. Answered' = Answered \cup {e}
      <4>1. seq' = [seq EXCEPT ![p] = seq[p] + 1]
        BY <2>2 DEF Count
      <4>2. ASSUME NEW m \in Message PROVE m \in Answered' <=> m \in Answered \/ m = e
        <5>1. /\ m[1] \in Producers /\ m[2] \in 1 .. Messages /\ m = <<m[1], m[2]>>
          BY <4>2 DEF Message
        <5>2. seq[m[1]] \in 1 .. Messages + 1 /\ seq[p] \in 1 .. Messages + 1
          BY <1>0, <5>1
        <5>3. CASE m[1] = p
          <6>1. seq'[m[1]] = seq[p] + 1
            BY <1>0, <4>1, <5>3
          <6>2. m[2] < seq[p] + 1 <=> m[2] < seq[p] \/ m[2] = seq[p]
            BY <5>1, <5>2
          <6>3. m = e <=> m[2] = seq[p]
            BY <5>1, <5>3
          <6>4. QED
            BY <5>3, <6>1, <6>2, <6>3 DEF Answered
        <5>4. CASE m[1] # p
          BY <1>0, <4>1, <5>1, <5>4 DEF Answered
        <5>5. QED
          BY <5>3, <5>4
      <4>3. Answered \subseteq Message /\ Answered' \subseteq Message
        BY DEF Answered, Message
      <4>4. QED
        BY <3>1, <4>2, <4>3
    <3>3. Cardinality(Answered') = Cardinality(Answered) + 1
      BY <3>1, <3>2, CountedFinite, FS_AddElement
    <3>4. UNCHANGED <<written, output, submitted>>
      BY <2>2 DEF Count
    <3>5. CASE pc[p] = "accepted"
      <4>1. accepted' = accepted + 1 /\ rejected' = rejected
        BY <2>2, <3>5 DEF Count
      <4>2. p \in InHand /\ InHand' = InHand \ {p}
        BY <2>2, <3>5 DEF Count, InHand, Goto, IInv, TypeOK, Threads
      <4>3. Cardinality(InHand') = Cardinality(InHand) - 1
        BY <4>2, CountedFinite, FS_RemoveElement
      <4>4. S' /\ H'
        BY <1>0, <3>3, <3>4, <4>1, <4>3, CountedFinite
      <4>5. QED
        BY <1>3, <3>4, <4>4 DEF Counted
    <3>6. CASE pc[p] = "rejected"
      <4>1. rejected' = rejected + 1 /\ accepted' = accepted
        BY <2>2, <3>6 DEF Count
      <4>2. InHand' = InHand
        BY <2>2, <3>6 DEF Count, InHand, Goto, IInv, TypeOK, Threads
      <4>3. S'
        BY <1>0, <3>3, <4>1, CountedFinite
      <4>4. QED
        BY <1>2, <1>3, <3>4, <4>1, <4>2, <4>3 DEF Counted
    <3>7. QED
      BY <2>2, <3>5, <3>6 DEF Count
  <2>3. CASE TryLock(p) \/ TryRefuse(p) \/ TryNotify(p)
    <3>1. UNCHANGED D /\ UNCHANGED <<written, output, submitted>>
      BY <2>3 DEF TryLock, TryRefuse, TryNotify, results
    <3>2. InHand' = InHand
      BY <2>3 DEF TryLock, TryRefuse, TryNotify, InHand, Goto, Acquire, IInv, TypeOK, Threads
    <3>3. QED
      BY <1>1, <1>2, <1>3, <3>1, <3>2 DEF Counted
  <2>4. QED
    BY <1>4, <2>1, <2>2, <2>3 DEF Produce, TryPush
<1>5. CASE Consume
  <2>1. UNCHANGED D /\ UNCHANGED submitted
    BY <1>5 DEF Consume, Pop, PopLock, PopTest, PopBlock, PopResume, PopEnd, PopTake,
                Write, results
  <2>2. InHand' = InHand
    BY <1>5 DEF Consume, Pop, PopLock, PopTest, PopBlock, PopResume, PopEnd, PopTake,
                Write, InHand, Goto, Acquire, IInv, TypeOK, Threads
  <2>3. W'
    <3>1. CASE Write
      <4>1. /\ message \in Seq(Message) /\ Len(message) = 1
            /\ output.lines \in Seq(Message) /\ output \in [ok : BOOLEAN, lines : Seq(Message)]
        BY <3>1 DEF Write, IInv, TypeOK, Shutdown
      <4> DEFINE lines == output.lines
      <4>2. Len(lines \o message) = Len(lines) + 1
        <5>1. lines \in Seq(Message) /\ message \in Seq(Message)
          BY <4>1
        <5> HIDE DEF lines
        <5>2. Len(lines \o message) = Len(lines) + Len(message)
          BY <5>1, ConcatProperties
        <5>3. QED
          BY <4>1, <5>2
      <4>3. CASE output' = [output EXCEPT !.lines = @ \o message] /\ written' = written + 1
        <5>1. output'.lines = output.lines \o message
          BY <4>1, <4>3
        <5>2. QED
          BY <1>0, <4>2, <4>3, <5>1
      <4>4. CASE output' = [output EXCEPT !.ok = FALSE] /\ written' = written
        <5>1. output'.lines = output.lines
          BY <4>1, <4>4
        <5>2. QED
          BY <1>0, <4>4, <5>1
      <4>5. QED
        BY <3>1, <4>3, <4>4 DEF Write
    <3>2. CASE ~Write
      BY <1>3, <1>5, <3>2 DEF Consume, Pop, PopLock, PopTest, PopBlock, PopResume,
                              PopEnd, PopTake, results
    <3>3. QED
      BY <3>1, <3>2
  <2>4. QED
    BY <1>1, <1>2, <2>1, <2>2, <2>3 DEF Counted
<1>6. CASE MainStep
  <2>1. UNCHANGED D /\ UNCHANGED <<submitted, written>>
    BY <1>6 DEF MainStep, Close, JoinProducers, CloseLock, CloseSet, CloseNotify,
                JoinConsumer, Finish, results
  <2>2. InHand' = InHand
    BY <1>6 DEF MainStep, Close, JoinProducers, CloseLock, CloseSet, CloseNotify,
                JoinConsumer, Finish, InHand, Goto, Acquire, IInv, TypeOK, Threads
  <2>3. output'.lines = output.lines
    BY <1>6 DEF MainStep, Close, JoinProducers, CloseLock, CloseSet, CloseNotify,
                JoinConsumer, Finish, results, IInv, TypeOK
  <2>4. QED
    BY <1>0, <1>1, <1>2, <2>1, <2>2, <2>3 DEF Counted
<1>7. CASE SpuriousWakeup \/ UNCHANGED vars
  <2>1. UNCHANGED <<pc, seq, accepted, rejected, written, output, submitted>>
    BY <1>7 DEF SpuriousWakeup, vars, results
  <2>2. InHand' = InHand
    BY <2>1 DEF InHand
  <2>3. QED
    BY <1>1, <1>2, <1>3, <2>1, <2>2 DEF Counted
<1>8. QED
  BY <1>4, <1>5, <1>6, <1>7 DEF Next, Returned

(* A program that reports success has answered every call of every         *)
(* producer exactly once and written every accepted line, although the     *)
(* counters run behind the queue while threads are alive.                  *)
THEOREM ReportIsExactHolds == Spec => []ReportIsExact
<1>1. IInv /\ NothingLost /\ Counted => ReportIsExact
  <2> SUFFICES ASSUME IInv, NothingLost, Counted, pc[Main] = "passed"
               PROVE  /\ accepted + rejected = Cardinality(Producers) * Messages
                      /\ written = accepted
                      /\ written = Len(output.lines)
    BY DEF ReportIsExact
  <2>1. \A p \in Producers : pc[p] = "out" /\ seq[p] = Messages + 1
    BY DEF IInv, Shutdown
  <2>2. Answered = Message
    BY <2>1, BoundsAssumption DEF Answered, Message, BoundsAssumption
  <2>3. InHand = {}
    BY <2>1 DEF InHand
  <2>4. output.lines \in Seq(Message) /\ message = <<>> /\ logs_ = <<>> /\ output.ok
    <3>1. pc[Consumer] = "done" /\ logs_ = <<>> /\ output.ok /\ Len(message) = 0
      BY DEF IInv, Shutdown
    <3>2. QED
      BY <3>1, EmptySeq DEF IInv, TypeOK
  <2>5. submitted = output.lines
    BY <2>4, ConcatEmptySeq DEF NothingLost
  <2>6. accepted \in Nat
    BY DEF IInv, TypeOK
  <2>7. QED
    BY <2>2, <2>3, <2>5, <2>6, MessageFinite, FS_EmptySet DEF Counted
<1>2. Spec => [](IInv /\ NothingLost)
  BY InitIInv, NextIInv, NothingLostHolds, PTL DEF Spec
<1>3. QED
  BY <1>1, <1>2, InitCounted, NextCounted, PTL DEF Spec
-----------------------------------------------------------------------------
(* Refinement *)

(* The queue is the part of the accepted messages not yet taken. *)
Suffix == /\ Len(logs_) <= Len(submitted)
          /\ \A i \in 1 .. Len(logs_) : logs_[i] = submitted[Len(submitted) - Len(logs_) + i]

LEMMA NextSuffix == IInv /\ Suffix /\ [Next]_vars => Suffix'
<1> SUFFICES ASSUME IInv, Suffix, [Next]_vars PROVE Suffix'
  OBVIOUS
<1>0. /\ logs_ \in Seq(Message) /\ submitted \in Seq(Message)
      /\ Len(logs_) \in Nat /\ Len(submitted) \in Nat
  BY LenProperties DEF IInv, TypeOK
<1>1. CASE UNCHANGED <<logs_, submitted, message, output, written>>
  BY <1>1 DEF Suffix
<1>2. ASSUME NEW p \in Producers, TryAccept(p) PROVE Suffix'
  <2>1. /\ Len(logs_') = Len(logs_) + 1 /\ Len(submitted') = Len(submitted) + 1
        /\ \A i \in 1 .. Len(logs_) : logs_'[i] = logs_[i]
        /\ \A i \in 1 .. Len(submitted) : submitted'[i] = submitted[i]
        /\ logs_'[Len(logs_) + 1] = submitted'[Len(submitted) + 1]
    BY <1>0, <1>2, Submitted, AppendProperties DEF TryAccept
  <2>2. ASSUME NEW i \in 1 .. Len(logs_')
        PROVE  logs_'[i] = submitted'[Len(submitted') - Len(logs_') + i]
    <3>1. CASE i = Len(logs_) + 1
      BY <1>0, <2>1, <3>1
    <3>2. CASE i \in 1 .. Len(logs_)
      <4> DEFINE j == Len(submitted) - Len(logs_) + i
      <4>1. j \in 1 .. Len(submitted) /\ Len(submitted') - Len(logs_') + i = j
        BY <1>0, <2>1, <3>2 DEF Suffix
      <4>2. logs_[i] = submitted[j]
        BY <3>2 DEF Suffix
      <4> HIDE DEF j
      <4>3. QED
        BY <2>1, <3>2, <4>1, <4>2
    <3>3. QED
      BY <1>0, <2>1, <2>2, <3>1, <3>2
  <2>3. QED
    BY <1>0, <2>1, <2>2 DEF Suffix
<1>3. CASE PopTake
  <2>1. /\ Len(logs_') = Len(logs_) - 1 /\ logs_ # <<>> /\ UNCHANGED submitted
        /\ \A i \in 1 .. Len(logs_') : logs_'[i] = logs_[i + 1]
    BY <1>0, <1>3, HeadTailProperties DEF PopTake
  <2>2. QED
    BY <1>0, <2>1 DEF Suffix
<1>4. CASE Write \/ Finish
  BY <1>4 DEF Write, Finish, queue, Suffix
<1>5. QED
  BY <1>1, <1>2, <1>3, <1>4, MessageSteps

LEMMA PrefixOfAppend ==
    ASSUME NEW S, NEW s \in Seq(S), NEW e \in S, NEW n \in 0 .. Len(s)
    PROVE  SubSeq(Append(s, e), 1, n) = SubSeq(s, 1, n)
<1> DEFINE t == Append(s, e)
<1>1. /\ t \in Seq(S) /\ Len(s) \in Nat
      /\ \A i \in 1 .. n : t[i] = s[i] /\ s[i] \in S
  BY AppendProperties, ElementOfSeq, LenProperties
<1> HIDE DEF t
<1>2. /\ SubSeq(t, 1, n) \in Seq(S)
      /\ Len(SubSeq(t, 1, n)) = n
      /\ \A i \in 1 .. n : SubSeq(t, 1, n)[i] = t[i]
  BY <1>1, SubSeqProperties
<1>3. /\ SubSeq(s, 1, n) \in Seq(S)
      /\ Len(SubSeq(s, 1, n)) = n
      /\ \A i \in 1 .. n : SubSeq(s, 1, n)[i] = s[i]
  BY <1>1, SubSeqProperties
<1>4. SubSeq(t, 1, n) = SubSeq(s, 1, n)
  BY <1>1, <1>2, <1>3, SeqEqual
<1>5. QED
  BY <1>4 DEF t

LEMMA PrefixGrows ==
    ASSUME NEW S, NEW s \in Seq(S), NEW n \in Nat, n < Len(s)
    PROVE  SubSeq(s, 1, n + 1) = Append(SubSeq(s, 1, n), s[n + 1])
<1>1. /\ Len(s) \in Nat /\ s[n + 1] \in S
      /\ \A i \in 1 .. n + 1 : s[i] \in S
  BY ElementOfSeq, LenProperties
<1>2. /\ SubSeq(s, 1, n) \in Seq(S)
      /\ SubSeq(s, 1, n + 1) = SubSeq(s, 1, (n + 1) - 1) \o <<s[n + 1]>>
  <2>1. n + 1 \in 1 .. Len(s) /\ 1 \in 1 .. Len(s)
    BY <1>1
  <2>2. QED
    BY <1>1, <2>1, SubSeqRecursiveSecond, SubSeqProperties
<1>3. QED
  BY <1>1, <1>2, AppendIsConcat

LEMMA NextRefines == IInv /\ Suffix /\ [Next]_vars => [Abstract!Next]_(Abstract!vars)
<1> SUFFICES ASSUME IInv, Suffix, [Next]_vars
             PROVE  Abstract!Next \/ UNCHANGED <<logs_, closed_, Taken, Busy>>
  BY DEF Abstract!vars
<1>0. /\ logs_ \in Seq(Message) /\ submitted \in Seq(Message)
      /\ Len(logs_) \in Nat /\ Len(submitted) \in Nat
  BY LenProperties DEF IInv, TypeOK
<1>t. ASSUME UNCHANGED <<logs_, submitted>> PROVE UNCHANGED Taken
  BY <1>t DEF Taken
<1> USE ThreadsAssumption
    DEF ThreadsAssumption, Threads, Goto, Acquire, queue, results, Busy
<1> DEFINE Typed == pc \in [Threads -> {"out", "try_push", "rejected", "notify", "accepted",
                           "pop_test", "pop_block", "pop_wait", "write", "done",
                           "join_producers", "close", "close_set", "close_notify",
                           "join_consumer", "finish", "passed", "failed"}]
<1>p. Typed
  BY DEF IInv, TypeOK
<1>1. ASSUME NEW p \in Producers, Produce(p)
      PROVE  Abstract!Next \/ UNCHANGED <<logs_, closed_, Taken, Busy>>
  <2>1. CASE TryLock(p)
    <3>1. Abstract!Enter(p)
      BY <1>p, <1>t, <2>1 DEF TryLock, Abstract!Enter
    <3>2. QED
      BY <3>1 DEF Abstract!Next
  <2>2. CASE TryRefuse(p)
    <3>1. Abstract!RefusePut(p)
      BY <1>p, <1>t, <2>2 DEF TryRefuse, Refused, Abstract!RefusePut, Abstract!Leave
    <3>2. QED
      BY <3>1 DEF Abstract!Next
  <2>3. CASE TryAccept(p)
    <3>1. <<p, seq[p]>> \in Message
      BY <2>3, Submitted
    <3>2. /\ submitted' = Append(submitted, <<p, seq[p]>>)
          /\ logs_' = Append(logs_, <<p, seq[p]>>)
          /\ Len(submitted') = Len(submitted) + 1 /\ Len(logs_') = Len(logs_) + 1
      BY <1>0, <2>3, <3>1, AppendProperties DEF TryAccept
    <3>3. Taken' = Taken
      <4> DEFINE e == <<p, seq[p]>>
                 n == Len(submitted) - Len(logs_)
      <4>1. n \in 0 .. Len(submitted) /\ Len(submitted') - Len(logs_') = n
        BY <1>0, <3>2 DEF Suffix
      <4>2. Taken' = SubSeq(Append(submitted, e), 1, n)
        BY <3>2, <4>1 DEF Taken
      <4>3. SubSeq(Append(submitted, e), 1, n) = SubSeq(submitted, 1, n)
        <5>1. e \in Message
          BY <3>1
        <5> HIDE DEF e, n
        <5>2. QED
          BY <1>0, <4>1, <5>1, PrefixOfAppend
      <4>4. QED
        BY <4>2, <4>3 DEF Taken
    <3>4. Busy' = Busy \ {p} /\ p \in Busy /\ UNCHANGED closed_
      BY <1>p, <2>3 DEF TryAccept
    <3>5. Abstract!Put(p, <<p, seq[p]>>)
      <4>1. ~closed_ /\ Len(logs_) < Capacity
        BY <1>0, <2>3, BoundsAssumption DEF TryAccept, Refused, BoundsAssumption
      <4> HIDE DEF Busy
      <4>2. QED
        BY <3>2, <3>3, <3>4, <4>1 DEF Abstract!Put, Abstract!Leave
    <3>6. QED
      BY <3>1, <3>5 DEF Abstract!Next
  <2>4. CASE TryNotify(p) \/ Count(p)
    BY <1>p, <1>t, <2>4 DEF TryNotify, Count
  <2>5. QED
    BY <1>1, <2>1, <2>2, <2>3, <2>4 DEF Produce, TryPush
<1>2. CASE Consume
  <2>1. CASE PopLock
    <3>1. Abstract!Enter(Consumer)
      BY <1>p, <1>t, <2>1 DEF PopLock, Abstract!Enter
    <3>2. QED
      BY <3>1 DEF Abstract!Next
  <2>2. CASE PopEnd
    <3>1. Abstract!RefuseTake(Consumer)
      BY <1>p, <1>t, <2>2 DEF PopEnd, Abstract!RefuseTake, Abstract!Leave
    <3>2. QED
      BY <3>1 DEF Abstract!Next
  <2>3. CASE PopTake
    <3> DEFINE n == Len(submitted) - Len(logs_)
    <3>1. /\ logs_ # <<>> /\ logs_' = Tail(logs_) /\ UNCHANGED <<submitted, closed_>>
          /\ Len(logs_') = Len(logs_) - 1
      BY <1>0, <2>3, HeadTailProperties DEF PopTake
    <3>2. /\ n \in Nat /\ n < Len(submitted) /\ Len(submitted') - Len(logs_') = n + 1
          /\ logs_[1] = submitted[n + 1]
      BY <1>0, <3>1 DEF Suffix
    <3>3. Taken' = SubSeq(submitted, 1, n + 1)
      BY <3>1, <3>2 DEF Taken
    <3>4. SubSeq(submitted, 1, n + 1) = Append(SubSeq(submitted, 1, n), submitted[n + 1])
      <4> HIDE DEF n
      <4>1. QED
        BY <1>0, <3>2, PrefixGrows
    <3>5. Taken' = Append(Taken, Head(logs_))
      <4>1. Head(logs_) = logs_[1]
        BY <1>0, <3>1
      <4>2. Taken = SubSeq(submitted, 1, n)
        BY DEF Taken
      <4> HIDE DEF n
      <4>3. QED
        BY <3>2, <3>3, <3>4, <4>1, <4>2
    <3>6. Busy' = Busy \ {Consumer} /\ Consumer \in Busy
      BY <1>p, <2>3 DEF PopTake
    <3>7. Abstract!Take(Consumer)
      BY <3>1, <3>5, <3>6 DEF Abstract!Take, Abstract!Leave
    <3>8. QED
      BY <3>7 DEF Abstract!Next
  <2>4. CASE PopTest \/ PopBlock \/ PopResume \/ Write
    BY <1>p, <1>t, <2>4 DEF PopTest, PopBlock, PopResume, Write
  <2>5. QED
    BY <1>2, <2>1, <2>2, <2>3, <2>4 DEF Consume, Pop
<1>3. CASE MainStep
  <2>1. CASE CloseSet
    <3>1. Abstract!Close
      BY <1>p, <1>t, <2>1 DEF CloseSet, Abstract!Close
    <3>2. QED
      BY <3>1 DEF Abstract!Next
  <2>2. CASE JoinProducers \/ CloseLock \/ CloseNotify \/ JoinConsumer \/ Finish
    BY <1>p, <1>t, <2>2 DEF JoinProducers, CloseLock, CloseNotify, JoinConsumer, Finish
  <2>3. QED
    BY <1>3, <2>1, <2>2 DEF MainStep, Close
<1>4. CASE SpuriousWakeup \/ UNCHANGED vars
  BY <1>t, <1>4 DEF SpuriousWakeup, vars
<1>5. QED
  BY <1>1, <1>2, <1>3, <1>4 DEF Next, Returned

(* The queue with its mutex, its condition variable and its sleeping       *)
(* consumer implements the queue whose calls are atomic.                   *)
THEOREM RefinesQueueSpec == Spec => ImplementsQueueSpec
<1>1. Init => Suffix
  <2>1. Len(<<>>) = 0
    OBVIOUS
  <2>2. QED
    BY <2>1 DEF Init, Suffix
<1>2. Init => Abstract!Init
  <2> SUFFICES ASSUME Init PROVE Abstract!Init
    OBVIOUS
  <2>1. Busy = {}
    BY ThreadsAssumption DEF Init, Busy, Threads, ThreadsAssumption
  <2>2. Taken = <<>>
    <3>1. Len(<<>>) = 0
      OBVIOUS
    <3>2. SubSeq(<<>>, 1, 0) = <<>>
      BY SubSeqEmpty
    <3>3. QED
      BY <3>1, <3>2 DEF Init, Taken
  <2>3. QED
    BY <2>1, <2>2 DEF Init, Abstract!Init
<1>3. Spec => []IInv
  BY InitIInv, NextIInv, PTL DEF Spec
<1>4. QED
  BY <1>1, <1>2, <1>3, NextSuffix, NextRefines, PTL DEF Spec, ImplementsQueueSpec, Abstract!Spec
=============================================================================
