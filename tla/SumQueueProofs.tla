---------------------------- MODULE SumQueueProofs ----------------------------
(***************************************************************************)
(* Proofs about SumQueue, for any number of consumers and any last value.  *)
(*                                                                         *)
(* Locking says who holds the two mutexes, what the holder has read, and   *)
(* that a consumer leaves only a stopped and empty queue.  Accounting says *)
(* that the queue holds the values that follow the popped ones, and that   *)
(* sum together with the values popped and not yet added is 1 + .. + the   *)
(* last popped value.                                                      *)
(***************************************************************************)
EXTENDS SumQueue, Integers, SequenceTheorems, TLAPS

ProducerLabels == {"out", "push", "push_notify", "stop", "stop_notify", "done"}
ConsumerLabels == {"out", "pop_test", "pop_block", "pop_wait", "sum_lock",
                   "sum_store", "done"}
Labels == ProducerLabels \cup ConsumerLabels
Holding == {"push", "stop", "pop_test", "pop_block"}

Typing ==
    /\ queue_ \in Seq(Nat)
    /\ stopped_ \in BOOLEAN
    /\ mutex_ \in Threads \cup {Nobody}
    /\ cv_ \in SUBSET Consumers
    /\ pc \in [Threads -> Labels]
    /\ i \in 1 .. Last + 1
    /\ value \in [Consumers -> Nat] /\ loaded \in [Consumers -> Nat]
    /\ sum \in Nat
    /\ sum_mutex \in Consumers \cup {Nobody}

Locking ==
    /\ \A t \in Threads : pc[t] \in Holding => mutex_ = t
    /\ pc[Producer] \in ProducerLabels
    /\ \A c \in Consumers : pc[c] \in ConsumerLabels
    /\ \A c \in Consumers : pc[c] = "sum_store" => sum_mutex = c /\ loaded[c] = sum
    /\ stopped_ <=> pc[Producer] \in {"stop_notify", "done"}
    /\ pc[Producer] \in {"push", "push_notify"} => i <= Last
    /\ pc[Producer] \in {"stop", "stop_notify", "done"} => i > Last
    /\ \A c \in Consumers : pc[c] = "done" => stopped_ /\ queue_ = <<>>

(* The numbers pushed and popped so far. *)
Pushed == IF pc[Producer] = "push_notify" THEN i ELSE i - 1
Popped == Pushed - Len(queue_)

(* The consumers that have popped a value and not added it. *)
Pending == {c \in Consumers : pc[c] \in {"sum_lock", "sum_store"}}

(* The functions that give every set of consumers the total of its values, *)
(* the values being val: there is one, and induction over the set is not   *)
(* needed to follow it from step to step.                                  *)
Totals(val) ==
    {F \in [SUBSET Consumers -> Int] :
        /\ F[{}] = 0
        /\ \A S \in SUBSET Consumers : \A c \in Consumers \ S :
              F[S \cup {c}] = F[S] + val[c]}

Accounting ==
    /\ Popped \in Nat
    /\ \A k \in 1 .. Len(queue_) : queue_[k] = Popped + k
    /\ \E F \in Totals(value) : 2 * (sum + F[Pending]) = Popped * (Popped + 1)

IInv == Typing /\ Locking /\ Accounting

-----------------------------------------------------------------------------
LEMMA InitTyped == Init => Typing /\ Locking
<1> SUFFICES ASSUME Init PROVE Typing /\ Locking
  OBVIOUS
<1> USE ThreadsAssumption, LastAssumption
    DEF ThreadsAssumption, LastAssumption, Threads, Labels, Holding,
        ProducerLabels, ConsumerLabels
<1>1. <<>> \in Seq(Nat)
  BY EmptySeq
<1>2. Typing
  <2>1. pc \in [Threads -> Labels] /\ 1 \in 1 .. Last + 1
    BY DEF Init
  <2>2. value \in [Consumers -> Nat] /\ loaded \in [Consumers -> Nat]
    BY DEF Init
  <2>3. QED
    BY <1>1, <2>1, <2>2 DEF Init, Typing
<1>3. Locking
  <2>1. /\ stopped_ = FALSE /\ i = 1
        /\ \A t \in Threads : pc[t] = "out"
    BY DEF Init
  <2>2. QED
    BY <2>1 DEF Locking
<1>4. QED
  BY <1>2, <1>3

LEMMA NextTyped == Typing /\ Locking /\ [Next]_vars => Typing' /\ Locking'
<1> SUFFICES ASSUME Typing, Locking, [Next]_vars PROVE Typing' /\ Locking'
  OBVIOUS
<1> USE ThreadsAssumption, LastAssumption
    DEF ThreadsAssumption, LastAssumption, Threads, Labels, Holding,
        ProducerLabels, ConsumerLabels, Goto, Acquire, totals
<1>1. CASE Produce
  <2>1. CASE PushLock
    BY <2>1 DEF PushLock, Typing, Locking
  <2>2. CASE Push
    <3>1. queue_' \in Seq(Nat)
      BY <2>2, AppendProperties DEF Push, Typing
    <3>2. Typing'
      BY <2>2, <3>1 DEF Push, Typing
    <3>3. Locking'
      BY <2>2 DEF Push, Typing, Locking
    <3>4. QED
      BY <3>2, <3>3
  <2>3. CASE PushNotify
    <3>1. cv_' \in SUBSET cv_
      BY <2>3 DEF PushNotify, NotifyOne
    <3>2. Typing'
      BY <2>3, <3>1 DEF PushNotify, Typing, Locking
    <3>3. Locking'
      BY <2>3 DEF PushNotify, Typing, Locking
    <3>4. QED
      BY <3>2, <3>3
  <2>4. CASE StopLock
    BY <2>4 DEF StopLock, Typing, Locking
  <2>5. CASE Stop
    BY <2>5 DEF Stop, Typing, Locking
  <2>6. CASE StopNotify
    BY <2>6 DEF StopNotify, NotifyAll, Typing, Locking
  <2>7. QED
    BY <1>1, <2>1, <2>2, <2>3, <2>4, <2>5, <2>6 DEF Produce
<1>2. ASSUME NEW c \in Consumers, Consume(c) PROVE Typing' /\ Locking'
  <2>1. CASE PopLock(c)
    BY <2>1 DEF PopLock, Typing, Locking
  <2>2. CASE PopTest(c)
    BY <2>2 DEF PopTest, Typing, Locking
  <2>3. CASE PopBlock(c)
    BY <2>3 DEF PopBlock, Typing, Locking
  <2>4. CASE PopResume(c)
    BY <2>4 DEF PopResume, Typing, Locking
  <2>5. CASE PopEnd(c)
    BY <2>5 DEF PopEnd, Typing, Locking
  <2>6. CASE PopTake(c)
    <3>1. queue_' \in Seq(Nat) /\ Head(queue_) \in Nat
      BY <2>6, HeadTailProperties DEF PopTake, Typing
    <3>2. Typing'
      BY <2>6, <3>1 DEF PopTake, Typing
    <3>3. Locking'
      BY <2>6 DEF PopTake, Typing, Locking
    <3>4. QED
      BY <3>2, <3>3
  <2>7. CASE SumLoad(c)
    BY <2>7 DEF SumLoad, Typing, Locking
  <2>8. CASE SumStore(c)
    BY <2>8 DEF SumStore, Typing, Locking
  <2>9. QED
    BY <1>2, <2>1, <2>2, <2>3, <2>4, <2>5, <2>6, <2>7, <2>8 DEF Consume
<1>3. CASE SpuriousWakeup
  BY <1>3 DEF SpuriousWakeup, Spurious, Typing, Locking
<1>4. CASE UNCHANGED vars
  BY <1>4 DEF vars, Typing, Locking
<1>5. QED
  BY <1>1, <1>2, <1>3, <1>4 DEF Next, Joined

-----------------------------------------------------------------------------
(* The totals of the values *)

LEMMA ZeroTotals ==
    ASSUME NEW val \in [Consumers -> Nat], \A c \in Consumers : val[c] = 0
    PROVE  \E F \in Totals(val) : F[{}] = 0
<1> DEFINE F == [S \in SUBSET Consumers |-> 0]
<1>1. F \in Totals(val)
  BY DEF Totals
<1>2. QED
  BY <1>1

(* G gives the totals of F when the value of c is replaced by x. *)
IsReplaced(G, F, c, x) ==
    \A S \in SUBSET Consumers :
        c \notin S => G[S] = F[S] /\ G[S \cup {c}] = F[S] + x

LEMMA ReplacedTotals ==
    ASSUME NEW val \in [Consumers -> Nat], NEW F \in Totals(val),
           NEW c \in Consumers, NEW x \in Nat,
           NEW w, w = [val EXCEPT ![c] = x]
    PROVE  \E G \in Totals(w) : IsReplaced(G, F, c, x)
<1>0. /\ F \in [SUBSET Consumers -> Int] /\ F[{}] = 0
      /\ \A S \in SUBSET Consumers : \A d \in Consumers \ S :
            F[S \cup {d}] = F[S] + val[d]
  BY DEF Totals
<1> DEFINE G == [S \in SUBSET Consumers |->
                    IF c \in S THEN F[S \ {c}] + x ELSE F[S]]
<1>1. G \in [SUBSET Consumers -> Int] /\ G[{}] = 0
  <2>1. ASSUME NEW S \in SUBSET Consumers PROVE F[S \ {c}] + x \in Int /\ F[S] \in Int
    <3> DEFINE R == S \ {c}
    <3>1. R \in SUBSET Consumers
      OBVIOUS
    <3> HIDE DEF R
    <3>2. F[R] \in Int
      BY <1>0, <3>1
    <3>3. F[S] \in Int
      BY <1>0
    <3>4. F[R] + x \in Int
      BY <3>2
    <3>5. QED
      BY <3>3, <3>4 DEF R
  <2>2. QED
    BY <1>0, <2>1
<1>2. ASSUME NEW S \in SUBSET Consumers, c \notin S
      PROVE  G[S] = F[S] /\ G[S \cup {c}] = F[S] + x
  <2>1. S \cup {c} \in SUBSET Consumers /\ (S \cup {c}) \ {c} = S
    BY <1>2
  <2>2. QED
    BY <1>2, <2>1
<1>3. ASSUME NEW S \in SUBSET Consumers, NEW d \in Consumers \ S
      PROVE  G[S \cup {d}] = G[S] + w[d]
  <2>1. CASE d = c
    <3>1. c \notin S /\ w[d] = x
      BY <2>1
    <3>2. G[S] = F[S] /\ G[S \cup {d}] = F[S] + x
      BY <1>2, <2>1, <3>1
    <3>3. QED
      BY <3>1, <3>2
  <2>2. CASE d # c /\ c \notin S
    <3>1. S \cup {d} \in SUBSET Consumers /\ c \notin S \cup {d} /\ w[d] = val[d]
      BY <2>2
    <3>2. G[S \cup {d}] = F[S \cup {d}] /\ G[S] = F[S]
      BY <1>2, <2>2, <3>1
    <3>3. F[S \cup {d}] = F[S] + val[d]
      BY <1>0
    <3>4. QED
      BY <3>1, <3>2, <3>3
  <2>3. CASE d # c /\ c \in S
    <3> DEFINE R == S \ {c}
    <3>1. /\ R \in SUBSET Consumers /\ d \in Consumers \ R /\ w[d] = val[d]
          /\ S \cup {d} \in SUBSET Consumers /\ c \in S \cup {d}
          /\ (S \cup {d}) \ {c} = R \cup {d} /\ R \cup {d} \in SUBSET Consumers
      BY <2>3
    <3>2. G[S \cup {d}] = F[R \cup {d}] + x /\ G[S] = F[R] + x
      BY <2>3, <3>1
    <3>3. F[R \cup {d}] = F[R] + val[d]
      BY <1>0, <3>1
    <3> HIDE DEF R
    <3>4. F[R] \in Int
      BY <1>0, <3>1
    <3>5. val[d] \in Int
      OBVIOUS
    <3>6. QED
      BY <3>1, <3>2, <3>3, <3>4, <3>5
  <2>4. QED
    BY <2>1, <2>2, <2>3
<1>4. w \in [Consumers -> Nat]
  OBVIOUS
<1> HIDE DEF G
<1>5. G \in Totals(w)
  BY <1>1, <1>3 DEF Totals
<1>6. IsReplaced(G, F, c, x)
  BY <1>2 DEF IsReplaced
<1>7. QED
  BY <1>5, <1>6

(* The next partial sum. *)
LEMMA NextSum ==
    ASSUME NEW m \in Int, NEW a \in Int, 2 * a = m * (m + 1)
    PROVE  2 * (a + (m + 1)) = (m + 1) * ((m + 1) + 1)
<1>1. (m + 1) * ((m + 1) + 1) = m * (m + 1) + 2 * (m + 1)
  OBVIOUS
<1>2. QED
  BY <1>1

-----------------------------------------------------------------------------
(* The accounting is inductive. *)

(* A step of nobody who pushes, pops or adds. *)
LEMMA AccountingKept ==
    ASSUME Accounting, queue_' = queue_, value' = value, sum' = sum,
           Pushed' = Pushed, Pending' = Pending
    PROVE  Accounting'
<1>1. Popped' = Popped
  BY DEF Popped
<1>2. PICK F \in Totals(value) : 2 * (sum + F[Pending]) = Popped * (Popped + 1)
  BY DEF Accounting
<1>3. F \in Totals(value)' /\ 2 * (sum' + F[Pending']) = Popped' * (Popped' + 1)
  BY <1>1, <1>2 DEF Totals
<1>4. QED
  BY <1>1, <1>3 DEF Accounting

LEMMA PushAccounting == Typing /\ Locking /\ Accounting /\ Push => Accounting'
<1> SUFFICES ASSUME Typing, Locking, Accounting, Push PROVE Accounting'
  OBVIOUS
<1> USE ThreadsAssumption, LastAssumption
    DEF ThreadsAssumption, LastAssumption, Threads
<1>1. /\ pc[Producer] = "push" /\ queue_' = Append(queue_, i) /\ i' = i
      /\ pc' = [pc EXCEPT ![Producer] = "push_notify"] /\ pc \in [Threads -> Labels]
      /\ value' = value /\ sum' = sum
  BY DEF Push, Goto, totals, Typing
<1>2. Pending' = Pending
  BY <1>1 DEF Pending
<1>3. /\ Len(queue_) \in Nat /\ Len(queue_') = Len(queue_) + 1 /\ i \in Nat
      /\ queue_'[Len(queue_) + 1] = i
      /\ \A k \in 1 .. Len(queue_) : queue_'[k] = queue_[k]
  BY <1>1, AppendProperties, LenProperties DEF Typing
<1>4. Pushed = i - 1 /\ Pushed' = i
  BY <1>1 DEF Pushed
<1>5. Popped' = Popped
  BY <1>3, <1>4 DEF Popped
<1>6. ASSUME NEW k \in 1 .. Len(queue_') PROVE queue_'[k] = Popped' + k
  <2>1. CASE k \in 1 .. Len(queue_)
    BY <1>3, <1>5, <2>1 DEF Accounting
  <2>2. CASE k = Len(queue_) + 1
    BY <1>3, <1>4, <1>5, <2>2 DEF Popped
  <2>3. QED
    BY <1>3, <2>1, <2>2
<1>7. PICK F \in Totals(value) : 2 * (sum + F[Pending]) = Popped * (Popped + 1)
  BY DEF Accounting
<1>8. F \in Totals(value)' /\ 2 * (sum' + F[Pending']) = Popped' * (Popped' + 1)
  BY <1>1, <1>2, <1>5, <1>7 DEF Totals
<1>9. QED
  BY <1>5, <1>6, <1>8 DEF Accounting

LEMMA TakeAccounting ==
    ASSUME Typing, Locking, Accounting, NEW c \in Consumers, PopTake(c)
    PROVE  Accounting'
<1> USE ThreadsAssumption, LastAssumption
    DEF ThreadsAssumption, LastAssumption, Threads
<1>1. /\ pc[c] = "pop_test" /\ queue_ # <<>> /\ queue_ \in Seq(Nat)
      /\ value' = [value EXCEPT ![c] = Head(queue_)]
      /\ queue_' = Tail(queue_) /\ i' = i /\ sum' = sum
      /\ pc' = [pc EXCEPT ![c] = "sum_lock"] /\ pc \in [Threads -> Labels]
      /\ value \in [Consumers -> Nat] /\ sum \in Nat
  BY DEF PopTake, Goto, Typing
<1>2. c \notin Pending /\ Pending' = Pending \cup {c} /\ Pending \in SUBSET Consumers
  BY <1>1 DEF Pending
<1>3. /\ Len(queue_) \in Nat /\ Len(queue_) # 0 /\ Len(queue_') = Len(queue_) - 1
      /\ Head(queue_) = queue_[1] /\ Head(queue_) \in Nat
      /\ \A k \in 1 .. Len(queue_') : queue_'[k] = queue_[k + 1]
  BY <1>1, HeadTailProperties, LenProperties, EmptySeq
<1>4. Pushed' = Pushed /\ Pushed \in Int
  BY <1>1 DEF Pushed, Typing
<1>5. Popped' = Popped + 1 /\ Popped \in Nat
  BY <1>3, <1>4 DEF Popped, Accounting
<1>6. Head(queue_) = Popped + 1
  BY <1>3 DEF Accounting
<1>7. ASSUME NEW k \in 1 .. Len(queue_') PROVE queue_'[k] = Popped' + k
  <2>1. k + 1 \in 1 .. Len(queue_)
    BY <1>3
  <2>2. QED
    BY <1>3, <1>5, <2>1 DEF Accounting
<1>8. PICK F \in Totals(value) : 2 * (sum + F[Pending]) = Popped * (Popped + 1)
  BY DEF Accounting
<1>9. PICK G \in Totals(value') : IsReplaced(G, F, c, Head(queue_))
  <2>1. PICK x \in Nat : x = Head(queue_)
    BY <1>3
  <2>2. PICK val \in [Consumers -> Nat] : val = value
    BY <1>1
  <2>3. PICK w : w = value'
    OBVIOUS
  <2>4. w = [val EXCEPT ![c] = x] /\ F \in Totals(val)
    BY <1>1, <2>1, <2>2, <2>3
  <2>5. \E G \in Totals(w) : IsReplaced(G, F, c, x)
    BY <2>4, ReplacedTotals
  <2>6. QED
    BY <2>1, <2>3, <2>5
<1>10. G[Pending'] = F[Pending] + Head(queue_)
  BY <1>2, <1>9 DEF IsReplaced
<1>11. F[Pending] \in Int
  BY <1>2 DEF Totals
<1> DEFINE a == sum + F[Pending]
           m == Popped
<1>12. a \in Int /\ m \in Int /\ 2 * a = m * (m + 1)
  BY <1>1, <1>5, <1>8, <1>11
<1>13. sum' + G[Pending'] = a + (m + 1)
  BY <1>1, <1>6, <1>10, <1>11, <1>5
<1> HIDE DEF a, m
<1>14. 2 * (a + (m + 1)) = (m + 1) * ((m + 1) + 1)
  BY <1>12, NextSum
<1>15. 2 * (sum' + G[Pending']) = Popped' * (Popped' + 1)
  <2>1. Popped' = m + 1
    BY <1>5 DEF m
  <2>2. QED
    BY <1>13, <1>14, <2>1
<1>16. G \in Totals(value)'
  BY <1>9 DEF Totals
<1>17. QED
  BY <1>5, <1>7, <1>15, <1>16 DEF Accounting

(* An addition moves a value from the pending ones to sum. *)
LEMMA StoreAccounting ==
    ASSUME Typing, Locking, Accounting, NEW c \in Consumers, SumStore(c)
    PROVE  Accounting'
<1> USE ThreadsAssumption, LastAssumption
    DEF ThreadsAssumption, LastAssumption, Threads
<1>1. /\ pc[c] = "sum_store" /\ queue_' = queue_ /\ value' = value /\ i' = i
      /\ sum' = loaded[c] + value[c] /\ loaded[c] = sum
      /\ pc' = [pc EXCEPT ![c] = "out"] /\ pc \in [Threads -> Labels]
      /\ value[c] \in Nat /\ sum \in Nat
  BY DEF SumStore, Goto, Typing, Locking
<1> DEFINE R == Pending'
<1>2. c \in Consumers \ R /\ R \in SUBSET Consumers /\ Pending = R \cup {c}
  BY <1>1 DEF Pending
<1>3. Pushed' = Pushed
  BY <1>1 DEF Pushed
<1>4. Popped' = Popped
  BY <1>1, <1>3 DEF Popped
<1>5. PICK F \in Totals(value) : 2 * (sum + F[Pending]) = Popped * (Popped + 1)
  BY DEF Accounting
<1>6. F[Pending] = F[R] + value[c] /\ F[R] \in Int
  BY <1>2, <1>5 DEF Totals
<1>7. sum' + F[R] = sum + F[Pending]
  BY <1>1, <1>6
<1>8. F \in Totals(value)' /\ 2 * (sum' + F[Pending']) = Popped' * (Popped' + 1)
  BY <1>1, <1>4, <1>5, <1>7 DEF Totals
<1>9. QED
  BY <1>1, <1>4, <1>8 DEF Accounting

LEMMA NextAccounting == Typing /\ Locking /\ Accounting /\ [Next]_vars => Accounting'
<1> SUFFICES ASSUME Typing, Locking, Accounting, [Next]_vars PROVE Accounting'
  OBVIOUS
<1> USE ThreadsAssumption, LastAssumption
    DEF ThreadsAssumption, LastAssumption, Threads, Goto, Acquire, totals
<1>1. CASE Produce /\ ~Push
  <2>1. queue_' = queue_ /\ value' = value /\ sum' = sum
    BY <1>1 DEF Produce, PushLock, PushNotify, StopLock, Stop, StopNotify
  <2>2. Pushed' = Pushed
    BY <1>1 DEF Produce, PushLock, PushNotify, StopLock, Stop, StopNotify, Pushed, Typing
  <2>3. Pending' = Pending
    BY <1>1 DEF Produce, PushLock, PushNotify, StopLock, Stop, StopNotify, Pending, Typing
  <2>4. QED
    BY <2>1, <2>2, <2>3, AccountingKept
<1>2. CASE Push
  BY <1>2, PushAccounting
<1>3. ASSUME NEW c \in Consumers, Consume(c), ~PopTake(c), ~SumStore(c)
      PROVE  Accounting'
  <2>1. queue_' = queue_ /\ value' = value /\ sum' = sum
    BY <1>3 DEF Consume, PopLock, PopTest, PopBlock, PopResume, PopEnd, SumLoad
  <2>2. Pushed' = Pushed
    BY <1>3 DEF Consume, PopLock, PopTest, PopBlock, PopResume, PopEnd, SumLoad,
                Pushed, Typing
  <2>3. Pending' = Pending
    BY <1>3 DEF Consume, PopLock, PopTest, PopBlock, PopResume, PopEnd, SumLoad,
                Pending, Typing
  <2>4. QED
    BY <2>1, <2>2, <2>3, AccountingKept
<1>4. ASSUME NEW c \in Consumers, PopTake(c) PROVE Accounting'
  BY <1>4, TakeAccounting
<1>5. ASSUME NEW c \in Consumers, SumStore(c) PROVE Accounting'
  BY <1>5, StoreAccounting
<1>6. CASE SpuriousWakeup
  BY <1>6, AccountingKept DEF SpuriousWakeup, Pushed, Pending
<1>7. CASE UNCHANGED vars
  BY <1>7, AccountingKept DEF vars, Pushed, Pending
<1>8. QED
  BY <1>1, <1>2, <1>3, <1>4, <1>5, <1>6, <1>7 DEF Next, Joined

LEMMA InitIInv == Init => IInv
<1> SUFFICES ASSUME Init PROVE IInv
  OBVIOUS
<1> USE ThreadsAssumption DEF ThreadsAssumption, Threads
<1>1. /\ queue_ = <<>> /\ i = 1 /\ sum = 0 /\ pc = [t \in Threads |-> "out"]
      /\ value = [c \in Consumers |-> 0]
  BY DEF Init
<1>2. Len(queue_) = 0 /\ Pushed = 0 /\ Popped = 0 /\ Pending = {}
  BY <1>1 DEF Pushed, Popped, Pending
<1>3. PICK F \in Totals(value) : F[{}] = 0
  BY <1>1, ZeroTotals
<1>4. 2 * (sum + F[Pending]) = Popped * (Popped + 1)
  BY <1>1, <1>2, <1>3
<1>5. Accounting
  BY <1>2, <1>3, <1>4 DEF Accounting
<1>6. QED
  BY <1>5, InitTyped DEF IInv

LEMMA NextIInv == IInv /\ [Next]_vars => IInv'
  BY NextTyped, NextAccounting DEF IInv

(* Typing and locking hold in every reachable state. *)
THEOREM TypeCorrect == Spec => [](Typing /\ Locking)
<1>1. IInv => Typing /\ Locking
  BY DEF IInv
<1>2. QED
  BY InitIInv, NextIInv, <1>1, PTL DEF Spec

(* A consumer returns only from a queue that is empty and stays so. *)
THEOREM NoValueAbandonedHolds == Spec => []NoValueAbandoned
<1>1. IInv => NoValueAbandoned
  BY DEF IInv, Locking, NoValueAbandoned
<1>2. QED
  BY InitIInv, NextIInv, <1>1, PTL DEF Spec

(* When all threads have been joined, sum is 1 + .. + Last. *)
THEOREM SumIsExactHolds == Spec => []SumIsExact
<1>1. IInv => SumIsExact
  <2> SUFFICES ASSUME IInv, AllJoined PROVE sum = (Last * (Last + 1)) \div 2
    BY DEF SumIsExact
  <2> USE ThreadsAssumption, LastAssumption
      DEF ThreadsAssumption, LastAssumption, Threads
  <2>1. Typing /\ Locking /\ Accounting
    BY DEF IInv
  <2>2. pc[Producer] = "done" /\ \A c \in Consumers : pc[c] = "done"
    BY DEF AllJoined
  <2>3. queue_ = <<>> /\ i > Last
    BY <2>1, <2>2 DEF Locking
  <2>4. i = Last + 1
    BY <2>1, <2>3 DEF Typing
  <2>5. Popped = Last /\ Pending = {}
    BY <2>2, <2>3, <2>4 DEF Popped, Pushed, Pending
  <2>6. PICK F \in Totals(value) : 2 * (sum + F[Pending]) = Popped * (Popped + 1)
    BY <2>1 DEF Accounting
  <2>7. F[Pending] = 0
    BY <2>5, <2>6 DEF Totals
  <2>8. 2 * sum = Last * (Last + 1) /\ sum \in Nat
    BY <2>1, <2>5, <2>6, <2>7 DEF Typing
  <2>9. ASSUME NEW q \in Int, 2 * sum = q PROVE sum = q \div 2
    BY <2>8, <2>9
  <2>10. Last * (Last + 1) \in Int
    OBVIOUS
  <2>11. QED
    BY <2>8, <2>9, <2>10
<1>2. QED
  BY InitIInv, NextIInv, <1>1, PTL DEF Spec
=============================================================================
