------------------------- MODULE BlockingQueueProofs -------------------------
(***************************************************************************)
(* Proofs about BlockingQueue, for any finite sets of threads, any         *)
(* capacity and any number of pushes.                                      *)
(*                                                                         *)
(* The strengthening Locking says who holds the mutex, who sleeps where,   *)
(* and that a thread on its way to sleep still holds the mutex under which *)
(* it found the predicate false.  The lost-wakeup invariants are inductive *)
(* relative to it.                                                         *)
(***************************************************************************)
EXTENDS BlockingQueue, FiniteSetTheorems, SequenceTheorems, TLAPS

Holding == {"push_test", "push_block", "pop_test", "pop_block", "stop_set"}

PushLabels == {"out", "push_test", "push_block", "push_wait"}
PopLabels  == {"out", "pop_test", "pop_block", "pop_wait", "done"}
StopLabels == {"out", "stop_set", "stop_wake_empty", "stop_wake_full", "done"}

Locking ==
    /\ \A t \in Threads : pc[t] \in Holding => mutex_ = t
    /\ \A p \in Producers : pc[p] \in PushLabels
    /\ \A c \in Consumers : pc[c] \in PopLabels
    /\ \A s \in Stoppers : pc[s] \in StopLabels
    /\ \A p \in not_full_ : pc[p] = "push_wait"
    /\ \A c \in not_empty_ : pc[c] = "pop_wait"
    /\ \A p \in Producers : pc[p] = "push_block" => ~CanPush
    /\ \A c \in Consumers : pc[c] = "pop_block" => ~CanPop
    /\ \A p \in Producers : pc[p] # "out" => next[p] <= Items

IInv == TypeOK /\ Locking

-----------------------------------------------------------------------------
(* Typing and locking are inductive. *)
LEMMA InitIInv == Init => IInv
<1> SUFFICES ASSUME Init PROVE IInv
  OBVIOUS
<1> USE ThreadsAssumption, BoundsAssumption DEF ThreadsAssumption, BoundsAssumption
<1>1. TypeOK
  <2>1. <<>> \in Seq(Element)
    BY EmptySeq
  <2>2. pc \in [Threads -> Labels]
    BY DEF Init, Labels
  <2>3. next \in [Producers -> 1 .. Items + 1]
    BY DEF Init
  <2>4. QED
    BY <2>1, <2>2, <2>3 DEF Init, TypeOK
<1>2. Locking
  BY DEF Init, Locking, Holding, PushLabels, PopLabels, StopLabels, Threads
<1>3. QED
  BY <1>1, <1>2 DEF IInv

LEMMA NextIInv == IInv /\ [Next]_vars => IInv'
<1> SUFFICES ASSUME IInv, [Next]_vars PROVE IInv'
  OBVIOUS
<1> USE ThreadsAssumption, BoundsAssumption DEF ThreadsAssumption, BoundsAssumption, IInv
<1> USE DEF TypeOK, Locking, Labels, Holding, PushLabels, PopLabels,
            StopLabels, Element, Threads, shared, history, Goto, Release, CanPush, CanPop
<1>1. ASSUME NEW p \in Producers, Push(p) PROVE IInv'
  <2>1. CASE PushLock(p)
    BY <2>1 DEF PushLock, Acquire
  <2>2. CASE PushTest(p)
    BY <2>2 DEF PushTest
  <2>3. CASE PushBlock(p)
    BY <2>3 DEF PushBlock
  <2>4. CASE PushResume(p)
    <3>1. TypeOK'
      BY <2>4 DEF PushResume, Acquire
    <3>2. Locking'
      BY <2>4 DEF PushResume, Acquire
    <3>3. QED
      BY <3>1, <3>2
  <2>5. CASE PushRefuse(p)
    <3>1. next' \in [Producers -> 1 .. Items + 1]
      <4>1. next[p] \in 1 .. Items + 1 /\ next[p] <= Items
        BY <2>5 DEF PushRefuse
      <4>2. next[p] + 1 \in 1 .. Items + 1
        BY <4>1
      <4>3. QED
        BY <2>5, <4>2 DEF PushRefuse
    <3>2. TypeOK'
      BY <2>5, <3>1 DEF PushRefuse
    <3>3. Locking'
      BY <2>5 DEF PushRefuse
    <3>4. QED
      BY <3>2, <3>3
  <2>6. CASE PushAccept(p)
    <3>1. <<p, next[p]>> \in Element
      BY <2>6 DEF PushAccept
    <3>2. queue_' \in Seq(Element) /\ accepted' \in Seq(Element)
      BY <2>6, <3>1, AppendProperties DEF PushAccept
    <3>3. not_empty_' \in SUBSET not_empty_
      BY <2>6 DEF PushAccept, NotifyOne
    <3>4. TypeOK'
      BY <2>6, <3>2, <3>3 DEF PushAccept
    <3>5. Locking'
      BY <2>6, <3>3 DEF PushAccept
    <3>6. QED
      BY <3>4, <3>5
  <2>7. QED
    BY <1>1, <2>1, <2>2, <2>3, <2>4, <2>5, <2>6 DEF Push
<1>2. ASSUME NEW c \in Consumers, Pop(c) PROVE IInv'
  <2>1. CASE PopLock(c)
    BY <2>1 DEF PopLock, Acquire
  <2>2. CASE PopTest(c)
    BY <2>2 DEF PopTest
  <2>3. CASE PopBlock(c)
    BY <2>3 DEF PopBlock
  <2>4. CASE PopResume(c)
    BY <2>4 DEF PopResume, Acquire
  <2>5. CASE PopRefuse(c)
    BY <2>5 DEF PopRefuse
  <2>6. CASE PopTake(c)
    <3>1. /\ Head(queue_) \in Element
          /\ queue_' \in Seq(Element)
      BY <2>6, HeadTailProperties DEF PopTake
    <3>2. taken' \in Seq(Element)
      BY <2>6, <3>1, AppendProperties DEF PopTake
    <3>3. not_full_' \in SUBSET not_full_
      BY <2>6 DEF PopTake, NotifyOne
    <3>4. TypeOK'
      BY <2>6, <3>1, <3>2, <3>3 DEF PopTake
    <3>5. Locking'
      BY <2>6, <3>3 DEF PopTake
    <3>6. QED
      BY <3>4, <3>5
  <2>7. QED
    BY <1>2, <2>1, <2>2, <2>3, <2>4, <2>5, <2>6 DEF Pop
<1>3. ASSUME NEW s \in Stoppers, Stop(s) PROVE IInv'
  <2>1. CASE StopLock(s)
    BY <2>1 DEF StopLock, Acquire
  <2>2. CASE StopSet(s)
    BY <2>2 DEF StopSet
  <2>3. CASE StopWakeEmpty(s)
    BY <2>3 DEF StopWakeEmpty, NotifyAll
  <2>4. CASE StopWakeFull(s)
    BY <2>4 DEF StopWakeFull, NotifyAll
  <2>5. QED
    BY <1>3, <2>1, <2>2, <2>3, <2>4 DEF Stop
<1>4. CASE SpuriousWakeup
  BY <1>4 DEF SpuriousWakeup, Spurious
<1>5. CASE UNCHANGED vars
  BY <1>5 DEF vars
<1>6. QED
  BY <1>1, <1>2, <1>3, <1>4, <1>5 DEF Next, Finished

(* Every variable keeps its type, whatever the numbers of threads, the     *)
(* capacity and the number of pushes.                                      *)
THEOREM TypeCorrect == Spec => []TypeOK
<1>1. IInv => TypeOK
  BY DEF IInv
<1>2. QED
  BY InitIInv, NextIInv, <1>1, PTL DEF Spec
-----------------------------------------------------------------------------
(* First in, first out. *)

(* Only an accepting push and a delivering pop touch the queue. *)
LEMMA QueueSteps ==
    ASSUME [Next]_vars
    PROVE  \/ UNCHANGED <<queue_, accepted, taken>>
           \/ \E p \in Producers : PushAccept(p)
           \/ \E c \in Consumers : PopTake(c)
<1>1. ASSUME NEW p \in Producers, Push(p), ~PushAccept(p)
      PROVE  UNCHANGED <<queue_, accepted, taken>>
  BY <1>1 DEF Push, PushLock, PushTest, PushBlock, PushResume, PushRefuse,
              Acquire, Release, Goto, shared, history
<1>2. ASSUME NEW c \in Consumers, Pop(c), ~PopTake(c)
      PROVE  UNCHANGED <<queue_, accepted, taken>>
  BY <1>2 DEF Pop, PopLock, PopTest, PopBlock, PopResume, PopRefuse,
              Acquire, Release, Goto, shared, history
<1>3. ASSUME NEW s \in Stoppers, Stop(s)
      PROVE  UNCHANGED <<queue_, accepted, taken>>
  BY <1>3 DEF Stop, StopLock, StopSet, StopWakeEmpty, StopWakeFull,
              Acquire, Release, Goto, shared, history
<1>4. CASE SpuriousWakeup
  BY <1>4 DEF SpuriousWakeup, history
<1>5. CASE UNCHANGED vars
  BY <1>5 DEF vars, shared, history
<1>6. QED
  BY <1>1, <1>2, <1>3, <1>4, <1>5 DEF Next, Finished

(* Moving the head of the second sequence to the end of the first changes  *)
(* nothing of the whole.                                                   *)
LEMMA MoveHead ==
    ASSUME NEW S, NEW s \in Seq(S), NEW t \in Seq(S), t # <<>>
    PROVE  Append(s, Head(t)) \o Tail(t) = s \o t
<1>1. /\ Head(t) \in S
      /\ Tail(t) \in Seq(S)
      /\ Len(Tail(t)) = Len(t) - 1
      /\ \A i \in 1 .. Len(Tail(t)) : Tail(t)[i] = t[i + 1]
  BY HeadTailProperties
<1>2. <<Head(t)>> \in Seq(S) /\ Append(s, Head(t)) = s \o <<Head(t)>>
  BY <1>1, AppendIsConcat
<1>3. <<Head(t)>> \o Tail(t) = t
  BY <1>1, <1>2, SeqEqual, ConcatProperties
<1>4. QED
  BY <1>1, <1>2, <1>3, ConcatAssociative

LEMMA NextFifo == IInv /\ Fifo /\ [Next]_vars => Fifo'
<1> SUFFICES ASSUME IInv, Fifo, [Next]_vars PROVE Fifo'
  OBVIOUS
<1> USE DEF IInv, TypeOK, Fifo
<1>1. CASE UNCHANGED <<queue_, accepted, taken>>
  BY <1>1
<1>2. ASSUME NEW p \in Producers, PushAccept(p) PROVE Fifo'
  <2>1. <<p, next[p]>> \in Element
    <3>1. next[p] \in 1 .. Items + 1 /\ next[p] <= Items
      BY <1>2 DEF PushAccept, Locking
    <3>2. QED
      BY <3>1, BoundsAssumption DEF Element, BoundsAssumption
  <2>2. accepted' = taken' \o queue_'
    <3> DEFINE last == <<<<p, next[p]>>>>
    <3>1. /\ accepted' = Append(accepted, <<p, next[p]>>)
          /\ taken' = taken
          /\ queue_' = Append(queue_, <<p, next[p]>>)
      BY <1>2 DEF PushAccept
    <3>2. accepted' = accepted \o last /\ queue_' = queue_ \o last
      BY <2>1, <3>1, AppendIsConcat
    <3>3. last \in Seq(Element)
      BY <2>1
    <3> HIDE DEF last
    <3>4. taken \o (queue_ \o last) = (taken \o queue_) \o last
      BY <3>3, ConcatAssociative
    <3>5. QED
      BY <3>1, <3>2, <3>4
  <2>3. Len(queue_') = Len(queue_) + 1 /\ Len(queue_) < Capacity /\ Len(queue_) \in Nat
    BY <1>2, <2>1, AppendProperties, LenProperties DEF PushAccept, CanPush
  <2>4. QED
    BY <2>2, <2>3, BoundsAssumption DEF BoundsAssumption
<1>3. ASSUME NEW c \in Consumers, PopTake(c) PROVE Fifo'
  <2>1. accepted' = taken' \o queue_'
    BY <1>3, MoveHead DEF PopTake
  <2>2. Len(queue_') = Len(queue_) - 1 /\ Len(queue_) \in Nat
    BY <1>3, HeadTailProperties, LenProperties DEF PopTake
  <2>3. QED
    BY <2>1, <2>2, BoundsAssumption DEF BoundsAssumption
<1>4. QED
  BY <1>1, <1>2, <1>3, QueueSteps

(* Nothing is lost, duplicated or reordered and the capacity is kept: what *)
(* push accepted is what pop delivered followed by what is queued.         *)
THEOREM FifoHolds == Spec => []Fifo
<1>1. Init => Fifo
  <2>0. <<>> \in Seq(Element)
    BY EmptySeq
  <2>1. <<>> \o <<>> = <<>>
    BY <2>0, ConcatEmptySeq, Zenon
  <2>2. Len(<<>>) = 0
    OBVIOUS
  <2>3. QED
    BY <2>1, <2>2, BoundsAssumption DEF Init, Fifo, BoundsAssumption
<1>2. QED
  BY InitIInv, NextIInv, NextFifo, <1>1, PTL DEF Spec

(* After stop() no element is accepted, from whatever state and whatever   *)
(* thread: a producer woken by stop() re-tests the flag before it pushes.  *)
THEOREM NothingAcceptedAfterStopHolds == Spec => NothingAcceptedAfterStop
<1>1. [Next]_vars => [stopped_ => accepted' = accepted]_vars
  BY QueueSteps DEF PushAccept, PopTake
<1>2. QED
  BY <1>1, PTL DEF Spec, NothingAcceptedAfterStop
-----------------------------------------------------------------------------
(* No lost wakeup: the two conjuncts of NoLostWakeup, one per side. *)

ElementHasPopper ==
    ~stopped_ /\ not_empty_ # {} => Len(queue_) <= Cardinality(AwakePoppers)

SlotHasPusher ==
    ~stopped_ /\ not_full_ # {} => Capacity - Len(queue_) <= Cardinality(AwakePushers)

(* How much larger a finite set is than a part of it. *)
LEMMA CardBounds ==
    ASSUME NEW S, IsFiniteSet(S), NEW T, IsFiniteSet(T)
    PROVE  /\ Cardinality(S) \in Nat
           /\ Cardinality(T) \in Nat
           /\ T \subseteq S => Cardinality(T) <= Cardinality(S)
           /\ \A x : x \notin T /\ T \cup {x} \subseteq S => Cardinality(T) + 1 <= Cardinality(S)
           /\ \A x : x \in T /\ T \ {x} \subseteq S => Cardinality(T) - 1 <= Cardinality(S)
<1>1. Cardinality(S) \in Nat /\ Cardinality(T) \in Nat
  BY FS_CardinalityType
<1>2. ASSUME T \subseteq S PROVE Cardinality(T) <= Cardinality(S)
  BY <1>2, FS_Subset
<1>3. ASSUME NEW x, x \notin T, T \cup {x} \subseteq S
      PROVE  Cardinality(T) + 1 <= Cardinality(S)
  <2>1. Cardinality(T \cup {x}) = Cardinality(T) + 1
    BY <1>3, FS_AddElement
  <2>2. Cardinality(T \cup {x}) <= Cardinality(S)
    BY <1>3, FS_Subset
  <2>3. QED
    BY <2>1, <2>2
<1>4. ASSUME NEW x, x \in T, T \ {x} \subseteq S
      PROVE  Cardinality(T) - 1 <= Cardinality(S)
  <2>1. Cardinality(T \ {x}) = Cardinality(T) - 1
    BY <1>4, FS_RemoveElement
  <2>2. Cardinality(T \ {x}) <= Cardinality(S)
    BY <1>4, FS_Subset
  <2>3. QED
    BY <2>1, <2>2
<1>5. QED
  BY <1>1, <1>2, <1>3, <1>4

LEMMA AwakeFinite ==
    /\ IsFiniteSet(AwakePoppers) /\ IsFiniteSet(AwakePoppers')
    /\ IsFiniteSet(AwakePushers) /\ IsFiniteSet(AwakePushers')
<1>1. /\ AwakePoppers \in SUBSET Consumers /\ AwakePoppers' \in SUBSET Consumers
      /\ AwakePushers \in SUBSET Producers /\ AwakePushers' \in SUBSET Producers
  BY DEF AwakePoppers, AwakePushers, AwakeIn
<1>2. QED
  BY <1>1, FS_Subset, ThreadsAssumption DEF ThreadsAssumption

(* The length of the queue in the steps that change it. *)
LEMMA QueueLengths ==
    ASSUME IInv
    PROVE  /\ Len(queue_) \in Nat
           /\ queue_ = <<>> => Len(queue_) = 0
           /\ \A p \in Producers : PushAccept(p) => Len(queue_') = Len(queue_) + 1
           /\ \A c \in Consumers : PopTake(c) => Len(queue_') = Len(queue_) - 1
<1> USE DEF IInv, TypeOK
<1>1. Len(queue_) \in Nat
  BY LenProperties
<1>2. ASSUME NEW p \in Producers, PushAccept(p) PROVE Len(queue_') = Len(queue_) + 1
  BY <1>2, AppendProperties DEF PushAccept
<1>3. ASSUME NEW c \in Consumers, PopTake(c) PROVE Len(queue_') = Len(queue_) - 1
  BY <1>3, HeadTailProperties DEF PopTake
<1>4. QED
  BY <1>1, <1>2, <1>3

LEMMA NextElementHasPopper ==
    IInv /\ ElementHasPopper /\ [Next]_vars => ElementHasPopper'
<1> SUFFICES ASSUME IInv, ElementHasPopper, [Next]_vars,
                    ~stopped_', not_empty_' # {}
             PROVE  Len(queue_') <= Cardinality(AwakePoppers')
  BY DEF ElementHasPopper
<1> DEFINE A == AwakePoppers
<1>1. /\ Cardinality(A) \in Nat /\ Cardinality(A') \in Nat
      /\ A \subseteq A' => Cardinality(A) <= Cardinality(A')
      /\ \A x : x \notin A /\ A \cup {x} \subseteq A' => Cardinality(A) + 1 <= Cardinality(A')
      /\ \A x : x \in A /\ A \ {x} \subseteq A' => Cardinality(A) - 1 <= Cardinality(A')
  BY CardBounds, AwakeFinite
<1> USE ThreadsAssumption, QueueLengths
    DEF ThreadsAssumption, Threads, Locking, IInv, TypeOK, PushLabels, PopLabels,
        StopLabels, Holding, AwakePoppers, AwakeIn, Goto, Release, Acquire,
        shared, history, ElementHasPopper
(* A step that wakes nobody's element and keeps every awake consumer awake. *)
<1>2. ASSUME queue_' = queue_, stopped_' = stopped_,
             not_empty_' \subseteq not_empty_, A \subseteq A'
      PROVE  Len(queue_') <= Cardinality(A')
  BY <1>1, <1>2
<1>3. ASSUME NEW p \in Producers, Push(p) PROVE Len(queue_') <= Cardinality(A')
  <2>1. CASE PushAccept(p)
    <3>1. PICK t \in not_empty_ : not_empty_' = not_empty_ \ {t}
      BY <2>1 DEF PushAccept, NotifyOne
    <3>2. t \notin A /\ A \cup {t} \subseteq A'
      BY <2>1, <3>1 DEF PushAccept
    <3>3. ~stopped_ /\ not_empty_ # {}
      BY <2>1, <3>1 DEF PushAccept
    <3>4. Cardinality(A) + 1 <= Cardinality(A')
      BY <1>1, <3>2
    <3>5. Len(queue_) <= Cardinality(A)
      BY <3>3
    <3>6. Len(queue_') = Len(queue_) + 1 /\ Len(queue_) \in Nat
      BY <2>1
    <3>7. QED
      BY <1>1, <3>4, <3>5, <3>6
  <2>2. CASE ~PushAccept(p)
    BY <1>2, <1>3, <2>2 DEF Push, PushLock, PushTest, PushBlock, PushResume, PushRefuse
  <2>3. QED
    BY <2>1, <2>2
<1>4. ASSUME NEW c \in Consumers, Pop(c) PROVE Len(queue_') <= Cardinality(A')
  <2>1. CASE PopTake(c)
    <3>1. c \in A /\ A \ {c} \subseteq A'
      BY <2>1 DEF PopTake
    <3>2. ~stopped_ /\ not_empty_ # {}
      BY <2>1 DEF PopTake
    <3>3. Cardinality(A) - 1 <= Cardinality(A')
      BY <1>1, <3>1
    <3>4. Len(queue_) <= Cardinality(A)
      BY <3>2
    <3>5. Len(queue_') = Len(queue_) - 1 /\ Len(queue_) \in Nat
      BY <2>1
    <3>6. QED
      BY <1>1, <3>3, <3>4, <3>5
  <2>2. CASE PopBlock(c)
    <3>1. queue_' = queue_ /\ queue_ = <<>>
      BY <2>2 DEF PopBlock, CanPop
    <3>2. QED
      BY <1>1, <3>1
  <2>3. CASE PopRefuse(c)
    BY <2>3 DEF PopRefuse
  <2>4. CASE PopLock(c) \/ PopTest(c) \/ PopResume(c)
    BY <1>2, <2>4 DEF PopLock, PopTest, PopResume
  <2>5. QED
    BY <1>4, <2>1, <2>2, <2>3, <2>4 DEF Pop
<1>5. ASSUME NEW s \in Stoppers, Stop(s) PROVE Len(queue_') <= Cardinality(A')
  BY <1>2, <1>5 DEF Stop, StopLock, StopSet, StopWakeEmpty, StopWakeFull, NotifyAll
<1>6. CASE SpuriousWakeup
  BY <1>2, <1>6 DEF SpuriousWakeup, Spurious
<1>7. CASE UNCHANGED vars
  BY <1>2, <1>7 DEF vars
<1>8. QED
  BY <1>3, <1>4, <1>5, <1>6, <1>7 DEF Next, Finished
LEMMA NextSlotHasPusher ==
    IInv /\ Fifo /\ SlotHasPusher /\ [Next]_vars => SlotHasPusher'
<1> SUFFICES ASSUME IInv, Fifo, SlotHasPusher, [Next]_vars,
                    ~stopped_', not_full_' # {}
             PROVE  Capacity - Len(queue_') <= Cardinality(AwakePushers')
  BY DEF SlotHasPusher
<1> DEFINE B == AwakePushers
<1>1. /\ Cardinality(B) \in Nat /\ Cardinality(B') \in Nat
      /\ B \subseteq B' => Cardinality(B) <= Cardinality(B')
      /\ \A x : x \notin B /\ B \cup {x} \subseteq B' => Cardinality(B) + 1 <= Cardinality(B')
      /\ \A x : x \in B /\ B \ {x} \subseteq B' => Cardinality(B) - 1 <= Cardinality(B')
  BY CardBounds, AwakeFinite
<1> USE ThreadsAssumption, BoundsAssumption, QueueLengths
    DEF ThreadsAssumption, BoundsAssumption, Threads, Locking, IInv, TypeOK,
        PushLabels, PopLabels, StopLabels, Holding, AwakePushers, AwakeIn,
        Goto, Release, Acquire, shared, history, SlotHasPusher
(* A step that frees no slot and keeps every awake producer awake. *)
<1>2. ASSUME queue_' = queue_, stopped_' = stopped_,
             not_full_' \subseteq not_full_, B \subseteq B'
      PROVE  Capacity - Len(queue_') <= Cardinality(B')
  <2>1. Capacity - Len(queue_) <= Cardinality(B)
    BY <1>2
  <2>2. Len(queue_) \in Nat /\ Len(queue_') = Len(queue_)
    BY <1>2
  <2>3. QED
    BY <1>1, <1>2, <2>1, <2>2
<1>3. ASSUME NEW p \in Producers, Push(p)
      PROVE  Capacity - Len(queue_') <= Cardinality(B')
  <2>1. CASE PushAccept(p)
    <3>1. p \in B /\ B \ {p} \subseteq B'
      BY <2>1 DEF PushAccept
    <3>2. ~stopped_ /\ not_full_ # {}
      BY <2>1 DEF PushAccept
    <3>3. Cardinality(B) - 1 <= Cardinality(B')
      BY <1>1, <3>1
    <3>4. Capacity - Len(queue_) <= Cardinality(B)
      BY <3>2
    <3>5. Len(queue_') = Len(queue_) + 1 /\ Len(queue_) \in Nat
      BY <2>1
    <3>6. QED
      BY <1>1, <3>3, <3>4, <3>5
  <2>2. CASE PushBlock(p)
    <3>1. queue_' = queue_ /\ Len(queue_) \in Nat /\ Len(queue_) >= Capacity
      BY <2>2 DEF PushBlock, CanPush
    <3>2. QED
      BY <1>1, <3>1
  <2>3. CASE PushRefuse(p)
    BY <2>3 DEF PushRefuse
  <2>4. CASE PushLock(p) \/ PushTest(p) \/ PushResume(p)
    BY <1>2, <2>4 DEF PushLock, PushTest, PushResume
  <2>5. QED
    BY <1>3, <2>1, <2>2, <2>3, <2>4 DEF Push
<1>4. ASSUME NEW c \in Consumers, Pop(c)
      PROVE  Capacity - Len(queue_') <= Cardinality(B')
  <2>1. CASE PopTake(c)
    <3>1. PICK t \in not_full_ : not_full_' = not_full_ \ {t}
      BY <2>1 DEF PopTake, NotifyOne
    <3>2. t \notin B /\ B \cup {t} \subseteq B'
      BY <2>1, <3>1 DEF PopTake
    <3>3. ~stopped_ /\ not_full_ # {}
      BY <2>1, <3>1 DEF PopTake
    <3>4. Cardinality(B) + 1 <= Cardinality(B')
      BY <1>1, <3>2
    <3>5. Capacity - Len(queue_) <= Cardinality(B)
      BY <3>3
    <3>6. Len(queue_') = Len(queue_) - 1 /\ Len(queue_) \in Nat
      BY <2>1
    <3>7. QED
      BY <1>1, <3>4, <3>5, <3>6
  <2>2. CASE ~PopTake(c)
    BY <1>2, <1>4, <2>2 DEF Pop, PopLock, PopTest, PopBlock, PopResume, PopRefuse
  <2>3. QED
    BY <2>1, <2>2
<1>5. ASSUME NEW s \in Stoppers, Stop(s)
      PROVE  Capacity - Len(queue_') <= Cardinality(B')
  BY <1>2, <1>5 DEF Stop, StopLock, StopSet, StopWakeEmpty, StopWakeFull, NotifyAll
<1>6. CASE SpuriousWakeup
  BY <1>2, <1>6 DEF SpuriousWakeup, Spurious
<1>7. CASE UNCHANGED vars
  BY <1>2, <1>7 DEF vars
<1>8. QED
  BY <1>3, <1>4, <1>5, <1>6, <1>7 DEF Next, Finished

(* No wakeup is lost, for any numbers of producers and consumers and any   *)
(* capacity: although push and pop notify a single thread, each queued     *)
(* element has an awake consumer while others sleep, and each free slot an *)
(* awake producer.                                                         *)
THEOREM NoLostWakeupHolds == Spec => []NoLostWakeup
<1>1. Init => ElementHasPopper /\ SlotHasPusher
  BY DEF Init, ElementHasPopper, SlotHasPusher
<1>2. ElementHasPopper /\ SlotHasPusher => NoLostWakeup
  BY DEF ElementHasPopper, SlotHasPusher, NoLostWakeup
<1>3. Spec => [](IInv /\ Fifo)
  BY InitIInv, NextIInv, FifoHolds, PTL DEF Spec
<1>4. QED
  BY <1>1, <1>2, <1>3, NextElementHasPopper, NextSlotHasPusher, PTL DEF Spec

-----------------------------------------------------------------------------
(* stop() *)

LEMMA NextStopWakesAll == IInv /\ StopWakesAll /\ [Next]_vars => StopWakesAll'
<1> SUFFICES ASSUME IInv, StopWakesAll, [Next]_vars PROVE StopWakesAll'
  OBVIOUS
<1> USE ThreadsAssumption
    DEF ThreadsAssumption, Threads, Locking, IInv, TypeOK, PushLabels, PopLabels,
        StopLabels, Holding, Goto, Release, Acquire, shared, history, StopWakesAll
<1>1. ASSUME NEW p \in Producers, Push(p) PROVE StopWakesAll'
  BY <1>1 DEF Push, PushLock, PushTest, PushBlock, PushResume, PushRefuse,
              PushAccept, NotifyOne, CanPush
<1>2. ASSUME NEW c \in Consumers, Pop(c) PROVE StopWakesAll'
  BY <1>2 DEF Pop, PopLock, PopTest, PopBlock, PopResume, PopRefuse,
              PopTake, NotifyOne, CanPop
<1>3. ASSUME NEW s \in Stoppers, Stop(s) PROVE StopWakesAll'
  <2>1. CASE StopLock(s)
    BY <2>1 DEF StopLock
  <2>2. CASE StopSet(s)
    BY <2>2 DEF StopSet
  <2>3. CASE StopWakeEmpty(s)
    BY <2>3 DEF StopWakeEmpty, NotifyAll
  <2>4. CASE StopWakeFull(s)
    BY <2>4 DEF StopWakeFull, NotifyAll
  <2>5. QED
    BY <1>3, <2>1, <2>2, <2>3, <2>4 DEF Stop
<1>4. CASE SpuriousWakeup
  BY <1>4 DEF SpuriousWakeup, Spurious
<1>5. CASE UNCHANGED vars
  BY <1>5 DEF vars
<1>6. QED
  BY <1>1, <1>2, <1>3, <1>4, <1>5 DEF Next, Finished

(* Whoever sleeps once the flag is set will be notified by the thread      *)
(* inside stop(): storing the flag under the mutex leaves no window in     *)
(* which a thread falls asleep on the old value, for any number of         *)
(* concurrent calls of stop().                                             *)
THEOREM StopWakesAllHolds == Spec => []StopWakesAll
<1>1. Init => StopWakesAll
  BY DEF Init, StopWakesAll
<1>2. QED
  BY InitIInv, NextIInv, NextStopWakesAll, <1>1, PTL DEF Spec
-----------------------------------------------------------------------------
(* Refinement *)

LEMMA NextRefines == IInv /\ Fifo /\ [Next]_vars => [Abstract!Next]_(Abstract!vars)
<1> SUFFICES ASSUME IInv, Fifo, [Next]_vars
             PROVE  Abstract!Next \/ UNCHANGED <<queue_, stopped_, taken, Busy>>
  BY DEF Abstract!vars
<1> USE ThreadsAssumption
    DEF ThreadsAssumption, Threads, Locking, IInv, TypeOK, PushLabels, PopLabels,
        StopLabels, Goto, Release, Acquire, shared, history, Busy
<1>1. ASSUME NEW p \in Producers, Push(p)
      PROVE  Abstract!Next \/ UNCHANGED <<queue_, stopped_, taken, Busy>>
  <2>1. CASE PushLock(p)
    <3>1. Abstract!Enter(p)
      BY <2>1 DEF PushLock, Abstract!Enter
    <3>2. QED
      BY <3>1 DEF Abstract!Next
  <2>2. CASE PushTest(p) \/ PushBlock(p) \/ PushResume(p)
    BY <2>2 DEF PushTest, PushBlock, PushResume
  <2>3. CASE PushRefuse(p)
    <3>1. Abstract!RefusePut(p)
      BY <2>3 DEF PushRefuse, Abstract!RefusePut, Abstract!Leave
    <3>2. QED
      BY <3>1 DEF Abstract!Next
  <2>4. CASE PushAccept(p)
    <3>1. <<p, next[p]>> \in Element
      <4>1. next[p] \in 1 .. Items + 1 /\ next[p] <= Items
        BY <2>4 DEF PushAccept
      <4>2. QED
        BY <4>1, BoundsAssumption DEF Element, BoundsAssumption
    <3>2. Abstract!Put(p, <<p, next[p]>>)
      BY <2>4 DEF PushAccept, CanPush, Abstract!Put, Abstract!Leave
    <3>3. QED
      BY <3>1, <3>2 DEF Abstract!Next
  <2>5. QED
    BY <1>1, <2>1, <2>2, <2>3, <2>4 DEF Push
<1>2. ASSUME NEW c \in Consumers, Pop(c)
      PROVE  Abstract!Next \/ UNCHANGED <<queue_, stopped_, taken, Busy>>
  <2>1. CASE PopLock(c)
    <3>1. Abstract!Enter(c)
      BY <2>1 DEF PopLock, Abstract!Enter
    <3>2. QED
      BY <3>1 DEF Abstract!Next
  <2>2. CASE PopTest(c) \/ PopBlock(c) \/ PopResume(c)
    BY <2>2 DEF PopTest, PopBlock, PopResume
  <2>3. CASE PopRefuse(c)
    <3>1. Abstract!RefuseTake(c)
      BY <2>3 DEF PopRefuse, Abstract!RefuseTake, Abstract!Leave
    <3>2. QED
      BY <3>1 DEF Abstract!Next
  <2>4. CASE PopTake(c)
    <3>1. Abstract!Take(c)
      BY <2>4 DEF PopTake, Abstract!Take, Abstract!Leave
    <3>2. QED
      BY <3>1 DEF Abstract!Next
  <2>5. QED
    BY <1>2, <2>1, <2>2, <2>3, <2>4 DEF Pop
<1>3. ASSUME NEW s \in Stoppers, Stop(s)
      PROVE  Abstract!Next \/ UNCHANGED <<queue_, stopped_, taken, Busy>>
  <2>1. CASE StopSet(s)
    <3>1. Abstract!Close
      BY <2>1 DEF StopSet, Abstract!Close
    <3>2. QED
      BY <3>1 DEF Abstract!Next
  <2>2. CASE StopLock(s) \/ StopWakeEmpty(s) \/ StopWakeFull(s)
    BY <2>2 DEF StopLock, StopWakeEmpty, StopWakeFull
  <2>3. QED
    BY <1>3, <2>1, <2>2 DEF Stop
<1>4. CASE SpuriousWakeup
  BY <1>4 DEF SpuriousWakeup
<1>5. CASE UNCHANGED vars
  BY <1>5 DEF vars
<1>6. QED
  BY <1>1, <1>2, <1>3, <1>4, <1>5 DEF Next, Finished

(* The queue with its mutex, condition variables and sleeping threads      *)
(* implements the queue whose calls are atomic: a push is refused only     *)
(* after stop(), a pop only when stopped and drained, and pops deliver in  *)
(* the order of the pushes.                                                *)
THEOREM RefinesQueueSpec == Spec => ImplementsQueueSpec
<1>1. Init => Abstract!Init
  BY ThreadsAssumption
     DEF Init, Abstract!Init, Busy, Threads, ThreadsAssumption
<1>2. Spec => [](IInv /\ Fifo)
  BY InitIInv, NextIInv, FifoHolds, PTL DEF Spec
<1>3. QED
  BY <1>1, <1>2, NextRefines, PTL DEF Spec, ImplementsQueueSpec, Abstract!Spec
=============================================================================
