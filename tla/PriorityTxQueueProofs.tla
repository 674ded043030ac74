------------------------ MODULE PriorityTxQueueProofs ------------------------
(***************************************************************************)
(* Proofs about PriorityTxQueue, for any finite sets of threads, any       *)
(* capacity and any number of frames.                                      *)
(*                                                                         *)
(* Locking says who holds the mutex, who sleeps, and that a popper on its  *)
(* way to sleep still holds the mutex under which it found nothing to pop. *)
(* History says that accepted frames are told apart by their numbers and   *)
(* that no number is used again.  QueueOrder is inductive relative to it.  *)
(***************************************************************************)
EXTENDS PriorityTxQueue, FiniteSetTheorems, SequenceTheorems,
        WellFoundedInduction, TLAPS

Frame == [seq : Pushers \X (1 .. Frames), is_stop : BOOLEAN]

PushLabels == {"out", "push", "push_notify"}
PopLabels  == {"out", "pop_test", "pop_block", "pop_wait", "done"}
StopLabels == {"out", "stop", "stop_notify", "done"}
Labels == PushLabels \cup PopLabels \cup StopLabels
Holding == {"push", "pop_test", "pop_block", "stop"}

Typing ==
    /\ queue_ \in Seq(Frame) /\ accepted \in Seq(Frame)
    /\ stopped_ \in BOOLEAN
    /\ mutex_ \in Threads \cup {Nobody}
    /\ cv_ \in SUBSET Poppers
    /\ pc \in [Threads -> Labels]
    /\ next \in [Pushers -> 1 .. Frames + 1]

Locking ==
    /\ \A t \in Threads : pc[t] \in Holding => mutex_ = t
    /\ \A p \in Pushers : pc[p] \in PushLabels
    /\ \A c \in Poppers : pc[c] \in PopLabels
    /\ \A s \in Stoppers : pc[s] \in StopLabels
    /\ \A c \in cv_ : pc[c] = "pop_wait"
    /\ \A c \in Poppers : pc[c] = "pop_block" => ~CanPop
    /\ \A p \in Pushers : pc[p] # "out" => next[p] <= Frames

(* A frame of p that has been accepted has a number below the next, or the *)
(* next while its notification is still to come.                           *)
Used(f) == \/ f.seq[2] < next[f.seq[1]]
           \/ f.seq[2] = next[f.seq[1]] /\ pc[f.seq[1]] = "push_notify"

History ==
    /\ \A k \in 1 .. Len(accepted) : Used(accepted[k])
    /\ \A j, k \in 1 .. Len(accepted) : accepted[j] = accepted[k] => j = k
    /\ gone \subseteq ToSet(accepted)

IInv == Typing /\ Locking /\ History /\ QueueOrder

-----------------------------------------------------------------------------
(* The helpers of the model *)

(* A set of numbers that is not empty has a least one. *)
Smaller == {ss \in Nat \X Nat : ss[1] < ss[2]}

LEMMA SmallerIsWellFounded == IsWellFoundedOn(Smaller, Nat)
  BY NatLessThanWellFounded DEF OpToRel, Smaller

LEMMA LeastNumber ==
    ASSUME NEW T, T \subseteq Nat, T # {}
    PROVE  /\ Min(T) \in T
           /\ \A y \in T : Min(T) <= y
<1>1. PICK x \in T : \A y \in T : ~(<<y, x>> \in Smaller)
  BY SmallerIsWellFounded, WFMin
<1>2. ASSUME NEW y \in T PROVE x <= y
  <2>1. x \in Nat /\ y \in Nat
    OBVIOUS
  <2>2. ~(y < x)
    <3>1. ~(<<y, x>> \in Smaller)
      BY <1>1
    <3>2. QED
      BY <2>1, <3>1 DEF Smaller
  <2>3. QED
    BY <2>1, <2>2
<1>3. QED
  BY <1>2 DEF Min

(* The victim is the first ordinary frame, if there is one. *)
LEMMA VictimIsFirst ==
    ASSUME queue_ \in Seq(Frame)
    PROVE  /\ Victim = 0 => \A k \in 1 .. Len(queue_) : queue_[k].is_stop
           /\ Victim # 0 => /\ Victim \in 1 .. Len(queue_)
                            /\ ~queue_[Victim].is_stop
                            /\ \A k \in 1 .. Victim - 1 : queue_[k].is_stop
<1> DEFINE I == {k \in 1 .. Len(queue_) : ~queue_[k].is_stop}
<1>0. Len(queue_) \in Nat /\ I \subseteq Nat /\ I \subseteq 1 .. Len(queue_)
  BY LenProperties
<1>1. Victim = IF I # {} THEN Min(I) ELSE 0
  BY DEF Victim, SelectInSeq, IsOrdinary
<1>2. CASE I = {}
  BY <1>1, <1>2
<1>3. CASE I # {}
  <2>1. Victim \in I /\ \A y \in I : Victim <= y
    BY <1>0, <1>1, <1>3, LeastNumber
  <2>2. Victim \in 1 .. Len(queue_) /\ ~queue_[Victim].is_stop
    BY <2>1
  <2>3. ASSUME NEW k \in 1 .. Victim - 1 PROVE queue_[k].is_stop
    <3>1. k \in 1 .. Len(queue_) /\ ~(Victim <= k)
      BY <1>0, <2>2
    <3>2. k \notin I
      BY <2>1, <3>1
    <3>3. QED
      BY <3>1, <3>2
  <2>4. QED
    BY <2>2, <2>3, <1>0
<1>4. QED
  BY <1>2, <1>3

(* What is left of a sequence without its element number i. *)
LEMMA RemoveAtProperties ==
    ASSUME NEW S, NEW s \in Seq(S), NEW i \in 1 .. Len(s)
    PROVE  /\ RemoveAt(s, i) \in Seq(S)
           /\ Len(RemoveAt(s, i)) = Len(s) - 1
           /\ \A j \in 1 .. Len(s) - 1 :
                 RemoveAt(s, i)[j] = IF j < i THEN s[j] ELSE s[j + 1]
<1> DEFINE front == SubSeq(s, 1, i - 1)
           back == SubSeq(s, i + 1, Len(s))
           all == front \o back
<1>0. i \in Nat /\ 1 <= i /\ i <= Len(s) /\ Len(s) \in Nat
  BY LenProperties
<1>1. /\ front \in Seq(S) /\ Len(front) = i - 1
      /\ \A j \in 1 .. i - 1 : front[j] = s[j]
  <2>1. 1 .. i - 1 \subseteq 1 .. Len(s) /\ i - 1 \in Int /\ 1 \in Int
    BY <1>0
  <2>2. \A j \in 1 .. i - 1 : s[j] \in S
    BY <1>0, ElementOfSeq
  <2>3. QED
    BY <1>0
<1>2. /\ back \in Seq(S) /\ Len(back) = Len(s) - i
      /\ \A j \in 1 .. Len(s) - i : back[j] = s[i + j]
  BY <1>0
<1>3. RemoveAt(s, i) = all
  BY DEF RemoveAt
<1> HIDE DEF front, back
<1>4. /\ all \in Seq(S) /\ Len(all) = Len(front) + Len(back)
      /\ \A j \in 1 .. Len(front) + Len(back) :
            all[j] = IF j <= Len(front) THEN front[j] ELSE back[j - Len(front)]
  BY <1>1, <1>2, ConcatProperties
<1>5. Len(front) + Len(back) = Len(s) - 1
  BY <1>0, <1>1, <1>2
<1> HIDE DEF all
<1>6. ASSUME NEW j \in 1 .. Len(s) - 1
      PROVE  all[j] = IF j < i THEN s[j] ELSE s[j + 1]
  <2>1. all[j] = IF j <= i - 1 THEN front[j] ELSE back[j - (i - 1)]
    BY <1>1, <1>4, <1>5
  <2>2. CASE j < i
    BY <1>0, <1>1, <2>1, <2>2
  <2>3. CASE j >= i
    <3>1. j - (i - 1) \in 1 .. Len(s) - i /\ i + (j - (i - 1)) = j + 1
      BY <1>0, <2>3
    <3>2. all[j] = back[j - (i - 1)]
      BY <1>0, <2>1, <2>3
    <3>3. back[j - (i - 1)] = s[j + 1]
      BY <1>2, <3>1
    <3>4. QED
      BY <1>0, <2>3, <3>2, <3>3
  <2>4. QED
    BY <1>0, <2>2, <2>3
<1>7. QED
  BY <1>3, <1>4, <1>5, <1>6

-----------------------------------------------------------------------------
(* Typing and locking are inductive. *)

LEMMA InitTyped == Init => Typing /\ Locking
<1> SUFFICES ASSUME Init PROVE Typing /\ Locking
  OBVIOUS
<1>1. <<>> \in Seq(Frame)
  BY EmptySeq
<1>2. pc \in [Threads -> Labels] /\ next \in [Pushers -> 1 .. Frames + 1]
  BY BoundsAssumption DEF Init, BoundsAssumption, Labels, PushLabels
<1>3. Typing
  BY <1>1, <1>2 DEF Init, Typing
<1>4. Locking
  BY DEF Init, Locking, Holding, PushLabels, PopLabels, StopLabels, Threads
<1>5. QED
  BY <1>3, <1>4

(* The queue after an accepting push: what stays, and the frame in front   *)
(* of it or behind it.                                                     *)
Kept == IF Full THEN RemoveAt(queue_, Victim) ELSE queue_

NewFrame(p, is_stop) == [seq |-> <<p, next[p]>>, is_stop |-> is_stop]

LEMMA NewFrameTyped ==
    ASSUME Typing, Locking, NEW p \in Pushers, pc[p] # "out"
    PROVE  /\ \A is_stop \in BOOLEAN : NewFrame(p, is_stop) \in Frame
           /\ next[p] + 1 \in 1 .. Frames + 1
<1>1. next[p] \in 1 .. Frames
  <2>1. next[p] \in 1 .. Frames + 1 /\ next[p] <= Frames
    BY DEF Typing, Locking
  <2>2. QED
    BY <2>1, BoundsAssumption DEF BoundsAssumption
<1>2. <<p, next[p]>> \in Pushers \X (1 .. Frames)
  BY <1>1
<1>3. \A is_stop \in BOOLEAN : NewFrame(p, is_stop) \in Frame
  BY <1>2 DEF NewFrame, Frame
<1>4. QED
  BY <1>1, <1>3, BoundsAssumption DEF BoundsAssumption

(* A push that is not refused found room, or is a STOP with a victim. *)
LEMMA KeptProperties ==
    ASSUME Typing, Len(queue_) <= Capacity, NEW is_stop \in BOOLEAN, ~Refused(is_stop)
    PROVE  /\ Kept \in Seq(Frame)
           /\ Len(Kept) + 1 <= Capacity
           /\ Len(Kept) <= Len(queue_)
           /\ Full => /\ is_stop /\ Victim \in 1 .. Len(queue_)
                      /\ Len(queue_) = Capacity
                      /\ ~queue_[Victim].is_stop
                      /\ \A k \in 1 .. Victim - 1 : queue_[k].is_stop
                      /\ Len(Kept) = Len(queue_) - 1
                      /\ \A j \in 1 .. Len(Kept) :
                            Kept[j] = IF j < Victim THEN queue_[j] ELSE queue_[j + 1]
<1>0. queue_ \in Seq(Frame) /\ Len(queue_) \in Nat /\ Capacity \in Nat /\ Capacity # 0
  BY LenProperties, BoundsAssumption DEF Typing, BoundsAssumption, Refused
<1>1. CASE Full
  <2>1. is_stop /\ Victim # 0 /\ Len(queue_) = Capacity
    BY <1>0, <1>1 DEF Refused, Full
  <2>2. /\ Victim \in 1 .. Len(queue_) /\ ~queue_[Victim].is_stop
        /\ \A k \in 1 .. Victim - 1 : queue_[k].is_stop
    BY <1>0, <2>1, VictimIsFirst
  <2>3. /\ Kept \in Seq(Frame) /\ Len(Kept) = Len(queue_) - 1
        /\ \A j \in 1 .. Len(queue_) - 1 :
              Kept[j] = IF j < Victim THEN queue_[j] ELSE queue_[j + 1]
    BY <1>0, <1>1, <2>2, RemoveAtProperties DEF Kept
  <2>4. QED
    BY <1>0, <2>1, <2>2, <2>3
<1>2. CASE ~Full
  <2>1. Kept = queue_
    BY <1>2 DEF Kept
  <2>2. Len(queue_) + 1 <= Capacity
    BY <1>0, <1>2 DEF Full
  <2>3. QED
    BY <1>0, <1>2, <2>1, <2>2
<1>3. QED
  BY <1>1, <1>2

IsEnqueued(all, q, f) ==
    /\ Len(all) = Len(q) + 1
    /\ f.is_stop => /\ all[1] = f
                    /\ \A j \in 1 .. Len(q) : all[j + 1] = q[j]
    /\ ~f.is_stop => /\ all[Len(q) + 1] = f
                     /\ \A j \in 1 .. Len(q) : all[j] = q[j]

LEMMA EnqueueProperties ==
    ASSUME NEW S, NEW q \in Seq(S), NEW f \in S
    PROVE  Enqueue(q, f) \in Seq(S) /\ IsEnqueued(Enqueue(q, f), q, f)
<1> USE DEF IsEnqueued
<1>0. Len(q) \in Nat
  BY LenProperties
<1>1. CASE f.is_stop
  <2> DEFINE front == <<f>>
             all == front \o q
  <2>1. front \in Seq(S) /\ Len(front) = 1 /\ front[1] = f
    OBVIOUS
  <2>2. Enqueue(q, f) = all
    BY <1>1 DEF Enqueue
  <2> HIDE DEF front
  <2>3. /\ all \in Seq(S) /\ Len(all) = Len(front) + Len(q)
        /\ \A j \in 1 .. Len(front) + Len(q) :
              all[j] = IF j <= Len(front) THEN front[j] ELSE q[j - Len(front)]
    BY <2>1, ConcatProperties
  <2> HIDE DEF all
  <2>4. all[1] = f
    BY <1>0, <2>1, <2>3
  <2>5. ASSUME NEW j \in 1 .. Len(q) PROVE all[j + 1] = q[j]
    <3>1. j + 1 \in 1 .. 1 + Len(q) /\ ~(j + 1 <= 1) /\ (j + 1) - 1 = j
      BY <1>0
    <3>2. QED
      BY <2>1, <2>3, <3>1
  <2>6. QED
    BY <1>0, <1>1, <2>1, <2>2, <2>3, <2>4, <2>5
<1>2. CASE ~f.is_stop
  <2>1. Enqueue(q, f) = Append(q, f)
    BY <1>2 DEF Enqueue
  <2>2. QED
    BY <1>2, <2>1, AppendProperties
<1>3. QED
  BY <1>1, <1>2

(* What an accepting push does, in these terms. *)
LEMMA AcceptStep ==
    ASSUME Typing, Locking, Len(queue_) <= Capacity, NEW p \in Pushers, PushAccept(p)
    PROVE  \E is_stop \in BOOLEAN :
              /\ ~Refused(is_stop)
              /\ NewFrame(p, is_stop) \in Frame
              /\ queue_' = Enqueue(Kept, NewFrame(p, is_stop))
              /\ gone' = gone \cup (IF Full THEN {queue_[Victim]} ELSE {})
              /\ accepted' = Append(accepted, NewFrame(p, is_stop))
<1>1. PICK is_stop \in BOOLEAN :
         /\ ~Refused(is_stop)
         /\ queue_' = Enqueue(Kept, NewFrame(p, is_stop))
         /\ gone' = gone \cup (IF Full THEN {queue_[Victim]} ELSE {})
         /\ accepted' = Append(accepted, NewFrame(p, is_stop))
  BY DEF PushAccept, NewFrame, Kept
<1>2. NewFrame(p, is_stop) \in Frame
  BY NewFrameTyped DEF PushAccept
<1>3. QED
  BY <1>1, <1>2

LEMMA StepTyped ==
    Typing /\ Locking /\ Len(queue_) <= Capacity /\ [Next]_vars => Typing' /\ Locking'
<1> SUFFICES ASSUME Typing, Locking, Len(queue_) <= Capacity, [Next]_vars
             PROVE  Typing' /\ Locking'
  OBVIOUS
<1> USE ThreadsAssumption, BoundsAssumption DEF ThreadsAssumption, BoundsAssumption
<1> USE DEF Labels, Holding, PushLabels, PopLabels, StopLabels, Threads,
            Typing, Locking, Goto, Release, CanPop
<1>1. ASSUME NEW p \in Pushers, Push(p) PROVE Typing' /\ Locking'
  <2>1. CASE PushLock(p)
    BY <2>1 DEF PushLock, Acquire
  <2>2. CASE PushRefuse(p)
    <3>1. next[p] + 1 \in 1 .. Frames + 1
      BY <2>2, NewFrameTyped DEF PushRefuse
    <3>2. next' \in [Pushers -> 1 .. Frames + 1]
      BY <2>2, <3>1 DEF PushRefuse
    <3>3. Typing'
      BY <2>2, <3>2 DEF PushRefuse
    <3>4. Locking'
      BY <2>2 DEF PushRefuse
    <3>5. QED
      BY <3>3, <3>4
  <2>3. CASE PushAccept(p)
    <3>1. PICK is_stop \in BOOLEAN :
             /\ ~Refused(is_stop)
             /\ NewFrame(p, is_stop) \in Frame
             /\ queue_' = Enqueue(Kept, NewFrame(p, is_stop))
             /\ accepted' = Append(accepted, NewFrame(p, is_stop))
      BY <2>3, AcceptStep
    <3>2. accepted' \in Seq(Frame)
      BY <3>1, AppendProperties
    <3>3. queue_' \in Seq(Frame)
      <4> HIDE DEF Typing, Locking
      <4>1. Kept \in Seq(Frame)
        BY <3>1, KeptProperties
      <4> DEFINE f == NewFrame(p, is_stop)
      <4>2. f \in Frame /\ queue_' = Enqueue(Kept, f)
        BY <3>1
      <4> HIDE DEF f
      <4>3. Enqueue(Kept, f) \in Seq(Frame)
        BY <4>1, <4>2, EnqueueProperties
      <4>4. QED
        BY <4>2, <4>3
    <3>4. Typing'
      BY <2>3, <3>2, <3>3 DEF PushAccept
    <3>5. Locking'
      BY <2>3 DEF PushAccept
    <3>6. QED
      BY <3>4, <3>5
  <2>4. CASE PushNotify(p)
    <3>1. next[p] + 1 \in 1 .. Frames + 1
      BY <2>4 DEF PushNotify
    <3>2. next' \in [Pushers -> 1 .. Frames + 1]
      BY <2>4, <3>1 DEF PushNotify
    <3>3. cv_' \in SUBSET cv_
      BY <2>4 DEF PushNotify, NotifyOne
    <3>4. Typing'
      BY <2>4, <3>2, <3>3 DEF PushNotify
    <3>5. Locking'
      BY <2>4, <3>3 DEF PushNotify
    <3>6. QED
      BY <3>4, <3>5
  <2>5. QED
    BY <1>1, <2>1, <2>2, <2>3, <2>4 DEF Push
<1>2. ASSUME NEW c \in Poppers, WaitAndPop(c) PROVE Typing' /\ Locking'
  <2>1. CASE PopLock(c)
    BY <2>1 DEF PopLock, Acquire
  <2>2. CASE PopTest(c)
    BY <2>2 DEF PopTest
  <2>3. CASE PopBlock(c)
    BY <2>3 DEF PopBlock
  <2>4. CASE PopResume(c)
    BY <2>4 DEF PopResume, Acquire
  <2>5. CASE PopRefuse(c)
    BY <2>5 DEF PopRefuse
  <2>6. CASE PopTake(c)
    <3>1. queue_' \in Seq(Frame)
      BY <2>6, HeadTailProperties DEF PopTake
    <3>2. Typing'
      BY <2>6, <3>1 DEF PopTake
    <3>3. Locking'
      BY <2>6 DEF PopTake
    <3>4. QED
      BY <3>2, <3>3
  <2>7. QED
    BY <1>2, <2>1, <2>2, <2>3, <2>4, <2>5, <2>6 DEF WaitAndPop
<1>3. ASSUME NEW s \in Stoppers, Stop(s) PROVE Typing' /\ Locking'
  <2>1. CASE StopLock(s)
    BY <2>1 DEF StopLock, Acquire
  <2>2. CASE StopSet(s)
    <3>1. queue_' \in Seq(Frame)
      BY <2>2, EmptySeq DEF StopSet
    <3>2. Typing'
      BY <2>2, <3>1 DEF StopSet
    <3>3. Locking'
      BY <2>2 DEF StopSet
    <3>4. QED
      BY <3>2, <3>3
  <2>3. CASE StopNotify(s)
    BY <2>3 DEF StopNotify, NotifyAll
  <2>4. QED
    BY <1>3, <2>1, <2>2, <2>3 DEF Stop
<1>4. CASE SpuriousWakeup
  BY <1>4 DEF SpuriousWakeup, Spurious
<1>5. CASE UNCHANGED vars
  BY <1>5 DEF vars
<1>6. QED
  BY <1>1, <1>2, <1>3, <1>4, <1>5 DEF Next, Finished

-----------------------------------------------------------------------------
(* The order of the queue *)

(* Only these steps touch the queue and its history. *)
LEMMA QueueSteps ==
    ASSUME [Next]_vars
    PROVE  \/ UNCHANGED <<queue_, stopped_, accepted, gone>>
           \/ \E p \in Pushers : PushAccept(p)
           \/ \E c \in Poppers : PopTake(c)
           \/ \E s \in Stoppers : StopSet(s)
<1>1. ASSUME NEW p \in Pushers, Push(p), ~PushAccept(p)
      PROVE  UNCHANGED <<queue_, stopped_, accepted, gone>>
  BY <1>1 DEF Push, PushLock, PushRefuse, PushNotify, Acquire
<1>2. ASSUME NEW c \in Poppers, WaitAndPop(c), ~PopTake(c)
      PROVE  UNCHANGED <<queue_, stopped_, accepted, gone>>
  BY <1>2 DEF WaitAndPop, PopLock, PopTest, PopBlock, PopResume, PopRefuse, Acquire
<1>3. ASSUME NEW s \in Stoppers, Stop(s), ~StopSet(s)
      PROVE  UNCHANGED <<queue_, stopped_, accepted, gone>>
  BY <1>3 DEF Stop, StopLock, StopNotify, Acquire
<1>4. CASE SpuriousWakeup
  BY <1>4 DEF SpuriousWakeup
<1>5. CASE UNCHANGED vars
  BY <1>5 DEF vars
<1>6. QED
  BY <1>1, <1>2, <1>3, <1>4, <1>5 DEF Next, Finished

(* A frame with the next number has not been accepted before. *)
LEMMA NewFrameIsNew ==
    ASSUME Typing, Locking, History, NEW p \in Pushers, pc[p] = "push",
           NEW is_stop \in BOOLEAN, NEW k \in 1 .. Len(accepted)
    PROVE  accepted[k] # NewFrame(p, is_stop)
<1> SUFFICES ASSUME accepted[k] = NewFrame(p, is_stop) PROVE FALSE
  OBVIOUS
<1>1. accepted[k].seq[1] = p /\ accepted[k].seq[2] = next[p]
  BY DEF NewFrame
<1>2. Used(accepted[k])
  BY DEF History
<1>3. next[p] \in Nat
  BY BoundsAssumption DEF Typing, BoundsAssumption
<1>4. QED
  BY <1>1, <1>2, <1>3 DEF Used

(* Numbers only rise, so what is used stays used. *)
LEMMA UsedStaysUsed ==
    ASSUME Typing, Locking, Len(queue_) <= Capacity, [Next]_vars,
           NEW f \in Frame, Used(f)
    PROVE  Used(f)'
<1>0. f.seq[1] \in Pushers /\ f.seq[2] \in Nat
  BY DEF Frame
<1> USE ThreadsAssumption, BoundsAssumption
    DEF ThreadsAssumption, BoundsAssumption, Threads, Goto, Release, Acquire, Typing,
        Labels, PushLabels, PopLabels, StopLabels, Used
<1>1. ASSUME NEW p \in Pushers, Push(p) PROVE Used(f)'
  <2>1. next[p] \in Nat /\ next[f.seq[1]] \in Nat
    BY <1>0
  <2>2. CASE PushLock(p)
    BY <1>0, <2>2 DEF PushLock
  <2>3. CASE PushRefuse(p) \/ PushNotify(p)
    <3>1. next' = [next EXCEPT ![p] = next[p] + 1] /\ pc' = [pc EXCEPT ![p] = "out"]
      BY <2>3 DEF PushRefuse, PushNotify
    <3>2. CASE f.seq[1] = p
      BY <1>0, <2>1, <3>1, <3>2
    <3>3. CASE f.seq[1] # p
      BY <1>0, <3>1, <3>3
    <3>4. QED
      BY <3>2, <3>3
  <2>4. CASE PushAccept(p)
    BY <1>0, <2>4 DEF PushAccept
  <2>5. QED
    BY <1>1, <2>2, <2>3, <2>4 DEF Push
<1>2. ASSUME NEW c \in Poppers, WaitAndPop(c) PROVE Used(f)'
  BY <1>0, <1>2 DEF WaitAndPop, PopLock, PopTest, PopBlock, PopResume, PopRefuse, PopTake
<1>3. ASSUME NEW s \in Stoppers, Stop(s) PROVE Used(f)'
  BY <1>0, <1>3 DEF Stop, StopLock, StopSet, StopNotify
<1>4. CASE SpuriousWakeup
  BY <1>4 DEF SpuriousWakeup
<1>5. CASE UNCHANGED vars
  BY <1>5 DEF vars
<1>6. QED
  BY <1>1, <1>2, <1>3, <1>4, <1>5 DEF Next, Finished

(* A step that accepts nothing leaves the history as it is. *)
LEMMA HistoryKept ==
    ASSUME Typing, Locking, History, QueueOrder, [Next]_vars, accepted' = accepted,
           gone' \subseteq ToSet(accepted)
    PROVE  History'
<1>1. ASSUME NEW k \in 1 .. Len(accepted) PROVE Used(accepted[k])'
  <2>1. accepted[k] \in Frame /\ Used(accepted[k])
    BY ElementOfSeq DEF Typing, History
  <2>2. ASSUME NEW f \in Frame, Used(f) PROVE Used(f)'
    BY <2>2, UsedStaysUsed DEF QueueOrder
  <2> DEFINE f == accepted[k]
  <2>3. f \in Frame /\ Used(f) /\ accepted'[k] = f
    BY <2>1
  <2> HIDE DEF f
  <2>4. \/ f.seq[2] < next'[f.seq[1]]
        \/ f.seq[2] = next'[f.seq[1]] /\ pc'[f.seq[1]] = "push_notify"
    BY <2>2, <2>3 DEF Used
  <2>5. QED
    BY <2>3, <2>4 DEF Used
<1>2. QED
  BY <1>1 DEF History, Used

(* No frame is queued twice. *)
LEMMA QueueDistinct ==
    ASSUME Typing, History, QueueOrder,
           NEW j \in 1 .. Len(queue_), NEW k \in 1 .. Len(queue_), queue_[j] = queue_[k]
    PROVE  j = k
<1>0. Len(queue_) \in Nat /\ Len(accepted) \in Nat
  BY LenProperties DEF Typing
<1>1. ASSUME NEW f PROVE ~AcceptedBefore(f, f)
  BY <1>0 DEF AcceptedBefore, History
<1>2. ~Precedes(queue_[j], queue_[k])
  BY <1>1 DEF Precedes
<1>3. ~Precedes(queue_[k], queue_[j])
  BY <1>1 DEF Precedes
<1>4. ~(j < k) /\ ~(k < j)
  BY <1>2, <1>3 DEF QueueOrder
<1>5. QED
  BY <1>0, <1>4

(* What is accepted last comes after what was accepted before. *)
LEMMA AcceptedGrows ==
    ASSUME accepted \in Seq(Frame), NEW f \in Frame, accepted' = Append(accepted, f)
    PROVE  /\ \A g, h : AcceptedBefore(g, h) => AcceptedBefore(g, h)'
           /\ \A g \in ToSet(accepted) : AcceptedBefore(g, f)'
           /\ ToSet(accepted') = ToSet(accepted) \cup {f}
<1>1. /\ Len(accepted) \in Nat /\ Len(accepted') = Len(accepted) + 1
      /\ \A i \in 1 .. Len(accepted) : accepted'[i] = accepted[i]
      /\ accepted'[Len(accepted) + 1] = f
  BY AppendProperties, LenProperties
<1>2. ASSUME NEW g, NEW h, AcceptedBefore(g, h) PROVE AcceptedBefore(g, h)'
  BY <1>1, <1>2 DEF AcceptedBefore
<1>3. ASSUME NEW g \in ToSet(accepted) PROVE AcceptedBefore(g, f)'
  <2>1. PICK a \in 1 .. Len(accepted) : accepted[a] = g
    BY DEF ToSet
  <2>2. /\ a \in 1 .. Len(accepted') /\ Len(accepted) + 1 \in 1 .. Len(accepted')
        /\ a < Len(accepted) + 1
    BY <1>1
  <2>3. QED
    BY <1>1, <2>1, <2>2 DEF AcceptedBefore
<1>4. accepted' \in Seq(Frame)
  BY AppendProperties
<1>5. DOMAIN accepted = 1 .. Len(accepted) /\ DOMAIN accepted' = 1 .. Len(accepted')
  BY <1>4, LenProperties
<1>6. 1 .. Len(accepted') = (1 .. Len(accepted)) \cup {Len(accepted) + 1}
  BY <1>1
<1>7. ToSet(accepted') = ToSet(accepted) \cup {f}
  BY <1>1, <1>5, <1>6 DEF ToSet
<1>8. QED
  BY <1>2, <1>3, <1>7

(* The set of a sequence, by its positions. *)
LEMMA SetOfSeq ==
    ASSUME NEW S, NEW s \in Seq(S)
    PROVE  ToSet(s) = {s[i] : i \in 1 .. Len(s)}
  BY LenProperties DEF ToSet

(* Removing one element of a sequence without duplicates removes it from   *)
(* the set and keeps the rest in order.                                    *)
Distinct(s) == \A j, k \in 1 .. Len(s) : s[j] = s[k] => j = k

IsWithout(t, s, i) ==
    /\ Len(t) = Len(s) - 1
    /\ \A j \in 1 .. Len(t) : t[j] = IF j < i THEN s[j] ELSE s[j + 1]

KeepsOrder(t, s) ==
    \A j, k \in 1 .. Len(t) : j < k =>
        \E m, n \in 1 .. Len(s) : m < n /\ t[j] = s[m] /\ t[k] = s[n]

LEMMA WithoutOne ==
    ASSUME NEW S, NEW s \in Seq(S), NEW t \in Seq(S), NEW i \in 1 .. Len(s),
           Distinct(s), IsWithout(t, s, i)
    PROVE  ToSet(t) = ToSet(s) \ {s[i]} /\ KeepsOrder(t, s)
<1> USE DEF Distinct, IsWithout
<1>0. Len(s) \in Nat /\ i \in Nat /\ i <= Len(s) /\ 1 <= i
  BY LenProperties
<1>1. ASSUME NEW j \in 1 .. Len(t)
      PROVE  \E m \in 1 .. Len(s) : m # i /\ t[j] = s[m] /\ m = IF j < i THEN j ELSE j + 1
  <2>1. CASE j < i
    BY <1>0, <2>1
  <2>2. CASE ~(j < i)
    <3>1. j + 1 \in 1 .. Len(s) /\ j + 1 # i
      BY <1>0, <2>2
    <3>2. QED
      BY <2>2, <3>1
  <2>3. QED
    BY <2>1, <2>2
<1>2. ASSUME NEW m \in 1 .. Len(s), m # i PROVE \E j \in 1 .. Len(t) : t[j] = s[m]
  <2>1. CASE m < i
    <3>1. m \in 1 .. Len(t)
      BY <1>0, <2>1
    <3>2. QED
      BY <2>1, <3>1
  <2>2. CASE m > i
    <3>1. m - 1 \in 1 .. Len(t) /\ ~(m - 1 < i) /\ (m - 1) + 1 = m
      BY <1>0, <2>2
    <3>2. t[m - 1] = s[m]
      BY <3>1
    <3>3. QED
      BY <3>1, <3>2
  <2>3. QED
    BY <1>0, <1>2, <2>1, <2>2
<1>3. ToSet(t) = ToSet(s) \ {s[i]}
  <2>1. ToSet(t) = {t[j] : j \in 1 .. Len(t)} /\ ToSet(s) = {s[j] : j \in 1 .. Len(s)}
    BY SetOfSeq
  <2>2. ASSUME NEW x \in ToSet(t) PROVE x \in ToSet(s) \ {s[i]}
    <3>1. PICK j \in 1 .. Len(t) : x = t[j]
      BY <2>1
    <3>2. PICK m \in 1 .. Len(s) : m # i /\ t[j] = s[m]
      BY <1>1
    <3>3. s[m] # s[i]
      BY <3>2
    <3>4. QED
      BY <2>1, <3>1, <3>2, <3>3
  <2>3. ASSUME NEW x \in ToSet(s), x # s[i] PROVE x \in ToSet(t)
    <3>1. PICK m \in 1 .. Len(s) : x = s[m]
      BY <2>1
    <3>2. PICK j \in 1 .. Len(t) : t[j] = s[m]
      BY <1>2, <2>3, <3>1
    <3>3. QED
      BY <2>1, <3>1, <3>2
  <2>4. QED
    BY <2>2, <2>3
<1>4. ASSUME NEW j \in 1 .. Len(t), NEW k \in 1 .. Len(t), j < k
      PROVE  \E m, n \in 1 .. Len(s) : m < n /\ t[j] = s[m] /\ t[k] = s[n]
  <2>1. PICK m \in 1 .. Len(s) : t[j] = s[m] /\ m = IF j < i THEN j ELSE j + 1
    BY <1>1
  <2>2. PICK n \in 1 .. Len(s) : t[k] = s[n] /\ n = IF k < i THEN k ELSE k + 1
    BY <1>1
  <2>3. m < n
    BY <1>0, <1>4, <2>1, <2>2
  <2>4. QED
    BY <2>1, <2>2, <2>3
<1>5. QED
  BY <1>3, <1>4 DEF KeepsOrder

(* What stays queued is what has been accepted and is not gone, in order. *)
LEMMA KeptInOrder ==
    ASSUME Typing, History, QueueOrder, NEW is_stop \in BOOLEAN, ~Refused(is_stop),
           gone' = gone \cup (IF Full THEN {queue_[Victim]} ELSE {})
    PROVE  /\ ToSet(Kept) = ToSet(accepted) \ gone'
           /\ \A j, k \in 1 .. Len(Kept) : j < k => Precedes(Kept[j], Kept[k])
           /\ \A j \in 1 .. Len(Kept) : Kept[j] \in ToSet(accepted)
<1>0. Kept \in Seq(Frame) /\ Len(queue_) <= Capacity /\ queue_ \in Seq(Frame)
  BY KeptProperties DEF QueueOrder, Typing
<1>1. /\ ToSet(Kept) = ToSet(accepted) \ gone'
      /\ \A j, k \in 1 .. Len(Kept) : j < k => Precedes(Kept[j], Kept[k])
  <2>1. CASE Full
    <3>1. Victim \in 1 .. Len(queue_) /\ IsWithout(Kept, queue_, Victim)
      BY <1>0, <2>1, KeptProperties DEF IsWithout
    <3>2. Distinct(queue_)
      BY QueueDistinct DEF Distinct
    <3>3. ToSet(Kept) = ToSet(queue_) \ {queue_[Victim]} /\ KeepsOrder(Kept, queue_)
      BY <1>0, <3>1, <3>2, WithoutOne
    <3>4. ToSet(queue_) = ToSet(accepted) \ gone
      BY DEF QueueOrder
    <3>5. ToSet(Kept) = ToSet(accepted) \ gone'
      BY <2>1, <3>3, <3>4
    <3>6. ASSUME NEW j \in 1 .. Len(Kept), NEW k \in 1 .. Len(Kept), j < k
          PROVE  Precedes(Kept[j], Kept[k])
      <4>1. PICK m, n \in 1 .. Len(queue_) :
               m < n /\ Kept[j] = queue_[m] /\ Kept[k] = queue_[n]
        BY <3>3, <3>6 DEF KeepsOrder
      <4>2. Precedes(queue_[m], queue_[n])
        BY <4>1 DEF QueueOrder
      <4>3. QED
        BY <4>1, <4>2
    <3>7. QED
      BY <3>5, <3>6
  <2>2. CASE ~Full
    <3>1. Kept = queue_ /\ gone' = gone
      BY <2>2 DEF Kept
    <3>2. QED
      BY <3>1 DEF QueueOrder
  <2>3. QED
    BY <2>1, <2>2
<1>2. ASSUME NEW j \in 1 .. Len(Kept) PROVE Kept[j] \in ToSet(accepted)
  <2>1. Kept[j] \in ToSet(Kept)
    BY <1>0, SetOfSeq
  <2>2. QED
    BY <1>1, <2>1
<1>3. QED
  BY <1>1, <1>2

(* Precedence is kept when something more is accepted. *)
LEMMA PrecedenceKept ==
    ASSUME accepted \in Seq(Frame), NEW f \in Frame, accepted' = Append(accepted, f)
    PROVE  /\ \A g, h : Precedes(g, h) => Precedes(g, h)'
           /\ \A g \in ToSet(accepted) :
                 IF f.is_stop THEN Precedes(f, g)' ELSE Precedes(g, f)'
<1>1. ASSUME NEW g, NEW h, Precedes(g, h) PROVE Precedes(g, h)'
  BY <1>1, AcceptedGrows DEF Precedes
<1>2. ASSUME NEW g \in ToSet(accepted)
      PROVE  IF f.is_stop THEN Precedes(f, g)' ELSE Precedes(g, f)'
  <2>1. AcceptedBefore(g, f)'
    BY AcceptedGrows
  <2>2. f.is_stop \in BOOLEAN /\ g.is_stop \in BOOLEAN
    <3>1. g \in Frame
      BY SetOfSeq, ElementOfSeq
    <3>2. QED
      BY <3>1 DEF Frame
  <2>3. QED
    BY <2>1, <2>2 DEF Precedes
<1>3. QED
  BY <1>1, <1>2

(* The new frame goes in front of what is kept, or behind it. *)
LEMMA AcceptKeepsOrder ==
    ASSUME Typing, Locking, History, QueueOrder, NEW p \in Pushers, PushAccept(p),
           [Next]_vars
    PROVE  History' /\ QueueOrder'
<1>1. PICK is_stop \in BOOLEAN :
         /\ ~Refused(is_stop)
         /\ NewFrame(p, is_stop) \in Frame
         /\ queue_' = Enqueue(Kept, NewFrame(p, is_stop))
         /\ gone' = gone \cup (IF Full THEN {queue_[Victim]} ELSE {})
         /\ accepted' = Append(accepted, NewFrame(p, is_stop))
  BY AcceptStep DEF QueueOrder
<1>2. PICK f \in Frame : f = NewFrame(p, is_stop)
  BY <1>1
<1>3. /\ queue_' = Enqueue(Kept, f) /\ accepted' = Append(accepted, f)
      /\ accepted \in Seq(Frame)
  BY <1>1, <1>2 DEF Typing
<1>4. /\ Kept \in Seq(Frame) /\ Len(Kept) + 1 <= Capacity /\ Len(Kept) \in Nat
  <2>1. Kept \in Seq(Frame) /\ Len(Kept) + 1 <= Capacity
    BY <1>1, KeptProperties DEF QueueOrder
  <2>2. QED
    BY <2>1, LenProperties
<1>5. /\ ToSet(Kept) = ToSet(accepted) \ gone'
      /\ \A j, k \in 1 .. Len(Kept) : j < k => Precedes(Kept[j], Kept[k])
      /\ \A j \in 1 .. Len(Kept) : Kept[j] \in ToSet(accepted)
  BY <1>1, KeptInOrder
<1>6. /\ \A k \in 1 .. Len(accepted) : accepted[k] # f
      /\ f \notin ToSet(accepted)
  <2>1. \A k \in 1 .. Len(accepted) : accepted[k] # f
    BY <1>2, NewFrameIsNew DEF PushAccept
  <2>2. QED
    BY <1>3, <2>1, SetOfSeq
<1>7. gone' \subseteq ToSet(accepted)
  <2>1. CASE Full
    <3>1. Victim \in 1 .. Len(queue_) /\ queue_ \in Seq(Frame)
      BY <1>1, <2>1, KeptProperties DEF QueueOrder, Typing
    <3>2. queue_[Victim] \in ToSet(queue_)
      BY <3>1, SetOfSeq
    <3>3. QED
      BY <1>1, <2>1, <3>2 DEF History, QueueOrder
  <2>2. CASE ~Full
    BY <1>1, <2>2 DEF History
  <2>3. QED
    BY <2>1, <2>2
<1>8. ToSet(accepted') = ToSet(accepted) \cup {f}
  BY <1>3, AcceptedGrows
<1>9. /\ queue_' \in Seq(Frame) /\ IsEnqueued(queue_', Kept, f)
      /\ Len(queue_') = Len(Kept) + 1
  <2>1. queue_' \in Seq(Frame) /\ IsEnqueued(queue_', Kept, f)
    BY <1>3, <1>4, EnqueueProperties
  <2>2. QED
    BY <2>1 DEF IsEnqueued
<1>10. ASSUME NEW k \in 1 .. Len(queue_')
       PROVE  \/ queue_'[k] = f /\ k = IF f.is_stop THEN 1 ELSE Len(Kept) + 1
              \/ \E i \in 1 .. Len(Kept) :
                    queue_'[k] = Kept[i] /\ k = IF f.is_stop THEN i + 1 ELSE i
  <2>0. k \in Nat /\ 1 <= k /\ k <= Len(Kept) + 1
    BY <1>4, <1>9
  <2>1. CASE f.is_stop
    <3>1. CASE k = 1
      BY <1>9, <2>1, <3>1 DEF IsEnqueued
    <3>2. CASE k # 1
      <4>1. k - 1 \in 1 .. Len(Kept) /\ (k - 1) + 1 = k
        BY <1>4, <2>0, <3>2
      <4>2. queue_'[k] = Kept[k - 1]
        BY <1>9, <2>1, <4>1 DEF IsEnqueued
      <4>3. QED
        BY <2>1, <4>1, <4>2
    <3>3. QED
      BY <3>1, <3>2
  <2>2. CASE ~f.is_stop
    <3>1. CASE k = Len(Kept) + 1
      BY <1>9, <2>2, <3>1 DEF IsEnqueued
    <3>2. CASE k # Len(Kept) + 1
      <4>1. k \in 1 .. Len(Kept)
        BY <1>4, <2>0, <3>2
      <4>2. QED
        BY <1>9, <2>2, <4>1 DEF IsEnqueued
    <3>3. QED
      BY <3>1, <3>2
  <2>3. QED
    BY <2>1, <2>2
<1>11. ToSet(queue_') = ToSet(Kept) \cup {f}
  <2>1. /\ ToSet(queue_') = {queue_'[k] : k \in 1 .. Len(queue_')}
        /\ ToSet(Kept) = {Kept[k] : k \in 1 .. Len(Kept)}
    BY <1>4, <1>9, SetOfSeq
  <2>2. ASSUME NEW x \in ToSet(queue_') PROVE x \in ToSet(Kept) \cup {f}
    <3>1. PICK k \in 1 .. Len(queue_') : x = queue_'[k]
      BY <2>1
    <3>2. queue_'[k] = f \/ \E i \in 1 .. Len(Kept) : queue_'[k] = Kept[i]
      BY <1>10
    <3>3. QED
      BY <2>1, <3>1, <3>2
  <2>3. ASSUME NEW i \in 1 .. Len(Kept) PROVE Kept[i] \in ToSet(queue_')
    <3>1. i \in 1 .. Len(queue_') /\ i + 1 \in 1 .. Len(queue_')
      BY <1>4, <1>9
    <3>2. QED
      BY <1>9, <2>1, <3>1 DEF IsEnqueued
  <2>4. f \in ToSet(queue_')
    <3>1. 1 \in 1 .. Len(queue_') /\ Len(Kept) + 1 \in 1 .. Len(queue_')
      BY <1>4, <1>9
    <3>2. QED
      BY <1>9, <2>1, <3>1 DEF IsEnqueued
  <2>5. QED
    BY <2>1, <2>2, <2>3, <2>4
<1>12. ASSUME NEW j \in 1 .. Len(queue_'), NEW k \in 1 .. Len(queue_'), j < k
       PROVE  Precedes(queue_[j], queue_[k])'
  <2>1. /\ \A g, h : Precedes(g, h) => Precedes(g, h)'
        /\ \A g \in ToSet(accepted) :
              IF f.is_stop THEN Precedes(f, g)' ELSE Precedes(g, f)'
    BY <1>3, PrecedenceKept
  <2>2. CASE queue_'[j] = f /\ f.is_stop
    <3>1. PICK i \in 1 .. Len(Kept) : queue_'[k] = Kept[i]
      BY <1>4, <1>10, <1>12, <2>2
    <3>2. QED
      BY <1>5, <2>1, <2>2, <3>1
  <2>3. CASE queue_'[k] = f /\ ~f.is_stop
    <3>1. PICK i \in 1 .. Len(Kept) : queue_'[j] = Kept[i]
      BY <1>4, <1>10, <1>12, <2>3
    <3>2. QED
      BY <1>5, <2>1, <2>3, <3>1
  <2>4. CASE \E m, n \in 1 .. Len(Kept) :
                m < n /\ queue_'[j] = Kept[m] /\ queue_'[k] = Kept[n]
    BY <1>5, <2>1, <2>4
  <2>5. QED
    BY <1>4, <1>10, <1>12, <2>2, <2>3, <2>4
<1>13. QueueOrder'
  <2>1. f \notin gone'
    BY <1>6, <1>7
  <2>2. ToSet(queue_') = ToSet(accepted') \ gone'
    BY <1>5, <1>8, <1>11, <2>1
  <2>3. Len(queue_') <= Capacity
    BY <1>4, <1>9
  <2>4. ~stopped_'
    BY <1>1 DEF PushAccept, Refused
  <2>5. QED
    BY <1>12, <2>2, <2>3, <2>4 DEF QueueOrder
<1>14. History'
  <2>1. /\ Len(accepted) \in Nat /\ Len(accepted') = Len(accepted) + 1
        /\ \A i \in 1 .. Len(accepted) : accepted'[i] = accepted[i]
        /\ accepted'[Len(accepted) + 1] = f
    BY <1>3, AppendProperties, LenProperties
  <2>2. ASSUME NEW k \in 1 .. Len(accepted') PROVE Used(accepted[k])'
    <3>1. PICK g \in Frame : g = accepted'[k]
      BY <1>3, <2>1, ElementOfSeq
    <3>2. CASE k <= Len(accepted)
      <4>1. k \in 1 .. Len(accepted) /\ g = accepted[k]
        BY <2>1, <3>1, <3>2
      <4>2. Used(g)
        BY <4>1 DEF History
      <4>3. Used(g)'
        BY <3>1, <4>2, UsedStaysUsed DEF QueueOrder
      <4>4. QED
        BY <3>1, <4>3 DEF Used
    <3>3. CASE k = Len(accepted) + 1
      <4>1. g = f /\ g.seq[1] = p /\ g.seq[2] = next[p]
        BY <1>2, <2>1, <3>1, <3>3 DEF NewFrame
      <4>2. next'[p] = next[p] /\ pc'[p] = "push_notify"
        BY DEF PushAccept, Release, Goto, Typing, Threads
      <4>3. QED
        BY <3>1, <4>1, <4>2 DEF Used
    <3>4. QED
      BY <2>1, <3>2, <3>3
  <2>3. ASSUME NEW j \in 1 .. Len(accepted'), NEW k \in 1 .. Len(accepted'),
               accepted'[j] = accepted'[k]
        PROVE  j = k
    BY <1>6, <2>1, <2>3 DEF History
  <2>4. gone' \subseteq ToSet(accepted')
    BY <1>7, <1>8
  <2>5. QED
    BY <2>2, <2>3, <2>4 DEF History
<1>15. QED
  BY <1>13, <1>14

(* A pop takes the front. *)
LEMMA TakeProperties ==
    ASSUME Typing, NEW c \in Poppers, PopTake(c)
    PROVE  /\ Len(queue_) \in Nat /\ 1 \in 1 .. Len(queue_) /\ queue_[1] = Head(queue_)
           /\ queue_' \in Seq(Frame) /\ Len(queue_') = Len(queue_) - 1
           /\ IsWithout(queue_', queue_, 1)
<1>1. queue_ \in Seq(Frame) /\ queue_ # <<>> /\ queue_' = Tail(queue_)
  BY DEF PopTake, CanPop, Typing
<1>2. /\ Len(queue_') = Len(queue_) - 1 /\ queue_' \in Seq(Frame)
      /\ \A i \in 1 .. Len(queue_') : queue_'[i] = queue_[i + 1]
  BY <1>1, HeadTailProperties
<1>3. Len(queue_) \in Nat /\ Len(queue_) # 0
  BY <1>1, LenProperties, EmptySeq
<1>4. IsWithout(queue_', queue_, 1)
  <2>1. ASSUME NEW j \in 1 .. Len(queue_') PROVE ~(j < 1) /\ queue_'[j] = queue_[j + 1]
    BY <1>2
  <2>2. QED
    BY <1>2, <2>1 DEF IsWithout
<1>5. QED
  BY <1>1, <1>2, <1>3, <1>4

LEMMA TakeKeepsOrder ==
    ASSUME Typing, Locking, History, QueueOrder, NEW c \in Poppers, PopTake(c),
           [Next]_vars
    PROVE  History' /\ QueueOrder'
<1>1. /\ Len(queue_) \in Nat /\ 1 \in 1 .. Len(queue_) /\ queue_[1] = Head(queue_)
      /\ queue_' \in Seq(Frame) /\ Len(queue_') = Len(queue_) - 1
      /\ IsWithout(queue_', queue_, 1) /\ queue_ \in Seq(Frame)
  BY TakeProperties DEF Typing
<1>2. /\ gone' = gone \cup {queue_[1]} /\ accepted' = accepted
      /\ ~stopped_ /\ stopped_' = stopped_
  BY <1>1 DEF PopTake
<1>3. Distinct(queue_)
  BY QueueDistinct DEF Distinct
<1>4. ToSet(queue_') = ToSet(queue_) \ {queue_[1]} /\ KeepsOrder(queue_', queue_)
  BY <1>1, <1>3, WithoutOne
<1>5. queue_[1] \in ToSet(accepted)
  <2>1. queue_[1] \in ToSet(queue_)
    BY <1>1, SetOfSeq
  <2>2. QED
    BY <2>1 DEF QueueOrder
<1>6. History'
  <2>1. gone' \subseteq ToSet(accepted)
    BY <1>2, <1>5 DEF History
  <2>2. QED
    BY <1>2, <2>1, HistoryKept
<1>7. ASSUME NEW j \in 1 .. Len(queue_'), NEW k \in 1 .. Len(queue_'), j < k
      PROVE  Precedes(queue_[j], queue_[k])'
  <2>1. PICK m, n \in 1 .. Len(queue_) :
           m < n /\ queue_'[j] = queue_[m] /\ queue_'[k] = queue_[n]
    BY <1>4, <1>7 DEF KeepsOrder
  <2>2. Precedes(queue_[m], queue_[n])
    BY <2>1 DEF QueueOrder
  <2>3. QED
    BY <1>2, <2>1, <2>2 DEF Precedes, AcceptedBefore
<1>8. ToSet(queue_') = ToSet(accepted') \ gone'
  BY <1>2, <1>4 DEF QueueOrder
<1>9. Len(queue_') <= Capacity
  BY <1>1, BoundsAssumption DEF QueueOrder, BoundsAssumption
<1>10. QED
  BY <1>2, <1>6, <1>7, <1>8, <1>9 DEF QueueOrder

LEMMA StopKeepsOrder ==
    ASSUME Typing, Locking, History, QueueOrder, NEW s \in Stoppers, StopSet(s),
           [Next]_vars
    PROVE  History' /\ QueueOrder'
<1>1. /\ queue_' = <<>> /\ gone' = gone \cup ToSet(queue_) /\ accepted' = accepted
  BY DEF StopSet
<1>2. ToSet(queue_) = ToSet(accepted) \ gone
  BY DEF QueueOrder
<1>3. gone' = ToSet(accepted)
  BY <1>1, <1>2 DEF History
<1>4. History'
  BY <1>1, <1>3, HistoryKept
<1>5. Len(queue_') = 0 /\ ToSet(queue_') = {}
  BY <1>1 DEF ToSet
<1>6. QED
  BY <1>1, <1>3, <1>4, <1>5, BoundsAssumption DEF QueueOrder, BoundsAssumption

LEMMA InitIInv == Init => IInv
<1> SUFFICES ASSUME Init PROVE IInv
  OBVIOUS
<1>1. Len(queue_) = 0 /\ Len(accepted) = 0 /\ ToSet(queue_) = {} /\ ToSet(accepted) = {}
  BY DEF Init, ToSet
<1>2. History
  BY <1>1 DEF Init, History
<1>3. QueueOrder
  BY <1>1, BoundsAssumption DEF Init, QueueOrder, BoundsAssumption
<1>4. QED
  BY <1>2, <1>3, InitTyped DEF IInv

LEMMA NextIInv == IInv /\ [Next]_vars => IInv'
<1> SUFFICES ASSUME Typing, Locking, History, QueueOrder, [Next]_vars PROVE IInv'
  BY DEF IInv
<1>1. Typing' /\ Locking'
  BY StepTyped DEF QueueOrder
<1>2. History' /\ QueueOrder'
  <2>1. CASE UNCHANGED <<queue_, stopped_, accepted, gone>>
    <3>1. History'
      BY <2>1, HistoryKept DEF History
    <3>2. QueueOrder'
      BY <2>1 DEF QueueOrder, Precedes, AcceptedBefore
    <3>3. QED
      BY <3>1, <3>2
  <2>2. ASSUME NEW p \in Pushers, PushAccept(p) PROVE History' /\ QueueOrder'
    BY <2>2, AcceptKeepsOrder
  <2>3. ASSUME NEW c \in Poppers, PopTake(c) PROVE History' /\ QueueOrder'
    BY <2>3, TakeKeepsOrder
  <2>4. ASSUME NEW s \in Stoppers, StopSet(s) PROVE History' /\ QueueOrder'
    BY <2>4, StopKeepsOrder
  <2>5. QED
    BY <2>1, <2>2, <2>3, <2>4, QueueSteps
<1>3. QED
  BY <1>1, <1>2 DEF IInv

(* Typing and locking hold in every reachable state. *)
THEOREM TypeCorrect == Spec => [](Typing /\ Locking)
<1>1. IInv => Typing /\ Locking
  BY DEF IInv
<1>2. QED
  BY InitIInv, NextIInv, <1>1, PTL DEF Spec

(* The queue holds what has been accepted and is not gone, once each, the  *)
(* STOP frames first, whatever the capacity and the number of threads.     *)
THEOREM QueueOrderHolds == Spec => []QueueOrder
<1>1. IInv => QueueOrder
  BY DEF IInv
<1>2. QED
  BY InitIInv, NextIInv, <1>1, PTL DEF Spec

-----------------------------------------------------------------------------
(* Who leaves the queue *)

LEMMA StepEvicts ==
    ASSUME IInv, [Next]_vars, NEW k \in 1 .. Len(queue_),
           queue_[k] \notin ToSet(queue_'), ~stopped_'
    PROVE  \/ k = 1 /\ queue_' = Tail(queue_)
           \/ /\ Len(queue_) = Capacity
              /\ queue_'[1].is_stop
              /\ ~queue_[k].is_stop
              /\ \A j \in 1 .. k - 1 : queue_[j].is_stop
<1>0. /\ Typing /\ Locking /\ History /\ QueueOrder
      /\ queue_ \in Seq(Frame) /\ Len(queue_) <= Capacity /\ Distinct(queue_)
  BY QueueDistinct DEF IInv, Typing, QueueOrder, Distinct
<1>1. queue_[k] \in ToSet(queue_)
  BY <1>0, SetOfSeq
<1>2. CASE UNCHANGED <<queue_, stopped_, accepted, gone>>
  BY <1>1, <1>2
<1>3. ASSUME NEW p \in Pushers, PushAccept(p)
      PROVE  /\ Len(queue_) = Capacity
             /\ queue_'[1].is_stop
             /\ ~queue_[k].is_stop
             /\ \A j \in 1 .. k - 1 : queue_[j].is_stop
  <2>1. PICK is_stop \in BOOLEAN :
           /\ ~Refused(is_stop)
           /\ NewFrame(p, is_stop) \in Frame
           /\ queue_' = Enqueue(Kept, NewFrame(p, is_stop))
           /\ gone' = gone \cup (IF Full THEN {queue_[Victim]} ELSE {})
    BY <1>0, <1>3, AcceptStep
  <2>2. PICK f \in Frame : f = NewFrame(p, is_stop)
    BY <2>1
  <2>3. Kept \in Seq(Frame)
    BY <1>0, <2>1, KeptProperties
  <2>4. queue_' \in Seq(Frame) /\ IsEnqueued(queue_', Kept, f)
    BY <2>1, <2>2, <2>3, EnqueueProperties
  <2>5. ASSUME NEW i \in 1 .. Len(Kept) PROVE Kept[i] \in ToSet(queue_')
    <3>1. Len(Kept) \in Nat
      BY <2>3, LenProperties
    <3>2. f.is_stop \in BOOLEAN
      BY DEF Frame
    <3>3. \E j \in 1 .. Len(queue_') : queue_'[j] = Kept[i]
      <4>1. i \in 1 .. Len(queue_') /\ i + 1 \in 1 .. Len(queue_')
        BY <2>4, <3>1 DEF IsEnqueued
      <4>2. QED
        BY <2>4, <3>2, <4>1 DEF IsEnqueued
    <3>4. QED
      BY <2>4, <3>3, SetOfSeq
  <2>6. queue_[k] \notin ToSet(Kept)
    BY <2>3, <2>5, SetOfSeq
  <2>7. Full
    BY <1>1, <2>6 DEF Kept
  <2>8. /\ is_stop /\ Victim \in 1 .. Len(queue_) /\ Len(queue_) = Capacity
        /\ ~queue_[Victim].is_stop
        /\ \A j \in 1 .. Victim - 1 : queue_[j].is_stop
        /\ IsWithout(Kept, queue_, Victim)
    BY <1>0, <2>1, <2>7, KeptProperties DEF IsWithout
  <2>9. ToSet(Kept) = ToSet(queue_) \ {queue_[Victim]}
    BY <1>0, <2>3, <2>8, WithoutOne
  <2>10. k = Victim
    BY <1>0, <1>1, <2>6, <2>8, <2>9 DEF Distinct
  <2>11. queue_'[1].is_stop
    <3>1. f.is_stop
      BY <2>2, <2>8 DEF NewFrame
    <3>2. QED
      BY <2>4, <3>1 DEF IsEnqueued
  <2>12. QED
    BY <2>8, <2>10, <2>11
<1>4. ASSUME NEW c \in Poppers, PopTake(c) PROVE k = 1 /\ queue_' = Tail(queue_)
  <2>1. 1 \in 1 .. Len(queue_) /\ queue_' \in Seq(Frame) /\ IsWithout(queue_', queue_, 1)
    BY <1>0, <1>4, TakeProperties
  <2>2. ToSet(queue_') = ToSet(queue_) \ {queue_[1]}
    BY <1>0, <2>1, WithoutOne
  <2>3. k = 1
    BY <1>0, <1>1, <2>1, <2>2 DEF Distinct
  <2>4. QED
    BY <1>4, <2>3 DEF PopTake
<1>5. ASSUME NEW s \in Stoppers, StopSet(s) PROVE FALSE
  BY <1>5 DEF StopSet
<1>6. QED
  BY <1>2, <1>3, <1>4, <1>5, QueueSteps

(* Only a STOP that finds the queue full evicts, and it evicts the oldest  *)
(* ordinary frame; everything else leaves by the front.                    *)
THEOREM OnlyUrgencyEvictsHolds == Spec => OnlyUrgencyEvicts
<1> DEFINE Evicts == \A k \in 1 .. Len(queue_) :
                queue_[k] \notin ToSet(queue_') /\ ~stopped_' =>
                  \/ k = 1 /\ queue_' = Tail(queue_)
                  \/ /\ Len(queue_) = Capacity
                     /\ queue_'[1].is_stop
                     /\ ~queue_[k].is_stop
                     /\ \A j \in 1 .. k - 1 : queue_[j].is_stop
<1>1. IInv /\ [Next]_vars => [Evicts]_vars
  BY StepEvicts
<1>2. QED
  BY InitIInv, NextIInv, <1>1, PTL DEF Spec, OnlyUrgencyEvicts

-----------------------------------------------------------------------------
(* No lost wakeup: the two branches of NoLostWakeup. *)

FrameHasPopper ==
    ~stopped_ /\ cv_ # {} =>
        Len(queue_) <= Cardinality(AwakePoppers) + Cardinality(Notifying)

StopWillNotify ==
    stopped_ /\ cv_ # {} => \E s \in Stoppers : pc[s] = "stop_notify"

(* How much larger a finite set is than a part of it. *)
LEMMA CardBounds ==
    ASSUME NEW S, IsFiniteSet(S), NEW T, IsFiniteSet(T)
    PROVE  /\ Cardinality(S) \in Nat
           /\ Cardinality(T) \in Nat
           /\ T \subseteq S => Cardinality(T) <= Cardinality(S)
           /\ \A x : x \notin T /\ T \cup {x} \subseteq S => Cardinality(T) + 1 <= Cardinality(S)
           /\ \A x : x \in T /\ T \ {x} \subseteq S => Cardinality(T) - 1 <= Cardinality(S)
<1>1. Cardinality(S) \in Nat /\ Cardinality(T) \in Nat
  BY FS_CardinalityType
<1>2. ASSUME T \subseteq S PROVE Cardinality(T) <= Cardinality(S)
  BY <1>2, FS_Subset
<1>3. ASSUME NEW x, x \notin T, T \cup {x} \subseteq S
      PROVE  Cardinality(T) + 1 <= Cardinality(S)
  <2>1. Cardinality(T \cup {x}) = Cardinality(T) + 1
    BY <1>3, FS_AddElement
  <2>2. Cardinality(T \cup {x}) <= Cardinality(S)
    BY <1>3, FS_Subset
  <2>3. QED
    BY <2>1, <2>2
<1>4. ASSUME NEW x, x \in T, T \ {x} \subseteq S
      PROVE  Cardinality(T) - 1 <= Cardinality(S)
  <2>1. Cardinality(T \ {x}) = Cardinality(T) - 1
    BY <1>4, FS_RemoveElement
  <2>2. Cardinality(T \ {x}) <= Cardinality(S)
    BY <1>4, FS_Subset
  <2>3. QED
    BY <2>1, <2>2
<1>5. QED
  BY <1>1, <1>2, <1>3, <1>4

LEMMA CountsFinite ==
    /\ IsFiniteSet(AwakePoppers) /\ IsFiniteSet(AwakePoppers')
    /\ IsFiniteSet(Notifying) /\ IsFiniteSet(Notifying')
<1>1. /\ AwakePoppers \in SUBSET Poppers /\ AwakePoppers' \in SUBSET Poppers
      /\ Notifying \in SUBSET Pushers /\ Notifying' \in SUBSET Pushers
  BY DEF AwakePoppers, Notifying
<1>2. QED
  BY <1>1, FS_Subset, ThreadsAssumption DEF ThreadsAssumption

LEMMA QueueLengths ==
    ASSUME IInv
    PROVE  /\ Len(queue_) \in Nat
           /\ queue_ = <<>> => Len(queue_) = 0
           /\ \A p \in Pushers : PushAccept(p) => Len(queue_') \in Nat
                                                  /\ Len(queue_') <= Len(queue_) + 1
           /\ \A c \in Poppers : PopTake(c) => Len(queue_') = Len(queue_) - 1
<1>0. Typing /\ Locking /\ Len(queue_) <= Capacity
  BY DEF IInv, QueueOrder
<1>1. Len(queue_) \in Nat
  BY <1>0, LenProperties DEF Typing
<1>2. ASSUME NEW p \in Pushers, PushAccept(p)
      PROVE  Len(queue_') \in Nat /\ Len(queue_') <= Len(queue_) + 1
  <2>1. PICK is_stop \in BOOLEAN :
           /\ ~Refused(is_stop)
           /\ NewFrame(p, is_stop) \in Frame
           /\ queue_' = Enqueue(Kept, NewFrame(p, is_stop))
    BY <1>0, <1>2, AcceptStep
  <2>2. PICK f \in Frame : f = NewFrame(p, is_stop)
    BY <2>1
  <2>3. Kept \in Seq(Frame) /\ Len(Kept) <= Len(queue_)
    BY <1>0, <2>1, KeptProperties
  <2>4. IsEnqueued(queue_', Kept, f)
    BY <2>1, <2>2, <2>3, EnqueueProperties
  <2>5. Len(queue_') = Len(Kept) + 1 /\ Len(Kept) \in Nat
    BY <2>3, <2>4, LenProperties DEF IsEnqueued
  <2>6. QED
    BY <1>1, <2>3, <2>5
<1>3. ASSUME NEW c \in Poppers, PopTake(c) PROVE Len(queue_') = Len(queue_) - 1
  BY <1>0, <1>3, TakeProperties
<1>4. QED
  BY <1>1, <1>2, <1>3

LEMMA NextFrameHasPopper ==
    IInv /\ FrameHasPopper /\ [Next]_vars => FrameHasPopper'
<1> SUFFICES ASSUME IInv, FrameHasPopper, [Next]_vars, ~stopped_', cv_' # {}
             PROVE  Len(queue_') <= Cardinality(AwakePoppers') + Cardinality(Notifying')
  BY DEF FrameHasPopper
<1> DEFINE A == AwakePoppers
           N == Notifying
<1>1. /\ Cardinality(A) \in Nat /\ Cardinality(A') \in Nat
      /\ A \subseteq A' => Cardinality(A) <= Cardinality(A')
      /\ \A x : x \notin A /\ A \cup {x} \subseteq A' => Cardinality(A) + 1 <= Cardinality(A')
      /\ \A x : x \in A /\ A \ {x} \subseteq A' => Cardinality(A) - 1 <= Cardinality(A')
  BY CardBounds, CountsFinite
<1>2. /\ Cardinality(N) \in Nat /\ Cardinality(N') \in Nat
      /\ N \subseteq N' => Cardinality(N) <= Cardinality(N')
      /\ \A x : x \notin N /\ N \cup {x} \subseteq N' => Cardinality(N) + 1 <= Cardinality(N')
      /\ \A x : x \in N /\ N \ {x} \subseteq N' => Cardinality(N) - 1 <= Cardinality(N')
  BY CardBounds, CountsFinite
<1>3. Typing /\ Locking
  BY DEF IInv
<1>4. /\ Len(queue_) \in Nat
      /\ queue_ = <<>> => Len(queue_) = 0
      /\ \A p \in Pushers : PushAccept(p) => Len(queue_') \in Nat
                                             /\ Len(queue_') <= Len(queue_) + 1
      /\ \A c \in Poppers : PopTake(c) => Len(queue_') = Len(queue_) - 1
  BY QueueLengths
<1> USE ThreadsAssumption
    DEF ThreadsAssumption, Threads, Locking, Typing, PushLabels, PopLabels, StopLabels,
        Holding, AwakePoppers, Notifying, Goto, Release, Acquire, FrameHasPopper
(* A step that touches neither the queue nor who will see to it. *)
<1>5. ASSUME queue_' = queue_, stopped_' = stopped_, cv_' \subseteq cv_,
             A \subseteq A', N \subseteq N'
      PROVE  Len(queue_') <= Cardinality(A') + Cardinality(N')
  <2>1. Len(queue_) <= Cardinality(A) + Cardinality(N)
    BY <1>5
  <2>2. QED
    BY <1>1, <1>2, <1>4, <1>5, <2>1
<1>6. ASSUME NEW p \in Pushers, Push(p)
      PROVE  Len(queue_') <= Cardinality(A') + Cardinality(N')
  <2>1. CASE PushAccept(p)
    <3>1. p \notin N /\ N \cup {p} \subseteq N' /\ A \subseteq A'
      BY <1>3, <2>1 DEF PushAccept
    <3>2. Len(queue_) <= Cardinality(A) + Cardinality(N)
      BY <2>1 DEF PushAccept
    <3>3. Cardinality(N) + 1 <= Cardinality(N') /\ Cardinality(A) <= Cardinality(A')
      BY <1>1, <1>2, <3>1
    <3>4. Len(queue_') \in Nat /\ Len(queue_') <= Len(queue_) + 1
      BY <1>4, <2>1
    <3> HIDE DEF A, N
    <3>5. QED
      BY <1>1, <1>2, <1>4, <3>2, <3>3, <3>4
  <2>2. CASE PushNotify(p)
    <3>1. cv_ # {}
      BY <2>2 DEF PushNotify, NotifyOne
    <3>2. PICK t \in cv_ : cv_' = cv_ \ {t}
      BY <2>2, <3>1 DEF PushNotify, NotifyOne
    <3>3. t \notin A /\ A \cup {t} \subseteq A'
      BY <1>3, <2>2, <3>2 DEF PushNotify
    <3>4. p \in N /\ N \ {p} \subseteq N'
      BY <1>3, <2>2 DEF PushNotify
    <3>5. Len(queue_) <= Cardinality(A) + Cardinality(N) /\ queue_' = queue_
      BY <2>2, <3>1 DEF PushNotify
    <3>6. Cardinality(A) + 1 <= Cardinality(A') /\ Cardinality(N) - 1 <= Cardinality(N')
      BY <1>1, <1>2, <3>3, <3>4
    <3> HIDE DEF A, N
    <3>7. QED
      BY <1>1, <1>2, <1>4, <3>5, <3>6
  <2>3. CASE PushLock(p)
    BY <1>3, <1>5, <2>3 DEF PushLock
  <2>4. CASE PushRefuse(p)
    BY <1>3, <1>5, <2>4 DEF PushRefuse
  <2>5. QED
    BY <1>6, <2>1, <2>2, <2>3, <2>4 DEF Push
<1>7. ASSUME NEW c \in Poppers, WaitAndPop(c)
      PROVE  Len(queue_') <= Cardinality(A') + Cardinality(N')
  <2>1. CASE PopTake(c)
    <3>1. c \in A /\ A \ {c} \subseteq A' /\ N \subseteq N'
      BY <1>3, <2>1 DEF PopTake
    <3>2. Len(queue_) <= Cardinality(A) + Cardinality(N)
      BY <2>1 DEF PopTake
    <3>3. Cardinality(A) - 1 <= Cardinality(A') /\ Cardinality(N) <= Cardinality(N')
      BY <1>1, <1>2, <3>1
    <3>4. Len(queue_') = Len(queue_) - 1
      BY <1>4, <2>1
    <3> HIDE DEF A, N
    <3>5. QED
      BY <1>1, <1>2, <1>4, <3>2, <3>3, <3>4
  <2>2. CASE PopBlock(c)
    <3>1. queue_' = queue_ /\ queue_ = <<>>
      BY <1>3, <2>2 DEF PopBlock, CanPop
    <3> HIDE DEF A, N
    <3>2. QED
      BY <1>1, <1>2, <1>4, <3>1
  <2>3. CASE PopRefuse(c)
    BY <2>3 DEF PopRefuse
  <2>4. CASE PopLock(c) \/ PopTest(c) \/ PopResume(c)
    BY <1>3, <1>5, <2>4 DEF PopLock, PopTest, PopResume
  <2>5. QED
    BY <1>7, <2>1, <2>2, <2>3, <2>4 DEF WaitAndPop
<1>8. ASSUME NEW s \in Stoppers, Stop(s)
      PROVE  Len(queue_') <= Cardinality(A') + Cardinality(N')
  BY <1>3, <1>5, <1>8 DEF Stop, StopLock, StopSet, StopNotify, NotifyAll
<1>9. CASE SpuriousWakeup
  BY <1>3, <1>5, <1>9 DEF SpuriousWakeup, Spurious
<1>10. CASE UNCHANGED vars
  BY <1>3, <1>5, <1>10 DEF vars
<1>11. QED
  BY <1>6, <1>7, <1>8, <1>9, <1>10 DEF Next, Finished

LEMMA NextStopWillNotify ==
    IInv /\ StopWillNotify /\ [Next]_vars => StopWillNotify'
<1> SUFFICES ASSUME Typing, Locking, StopWillNotify, [Next]_vars, stopped_', cv_' # {}
             PROVE  \E s \in Stoppers : pc'[s] = "stop_notify"
  BY DEF IInv, StopWillNotify
<1> USE ThreadsAssumption
    DEF ThreadsAssumption, Threads, Locking, Typing, PushLabels, PopLabels, StopLabels,
        Holding, Goto, Release, Acquire, StopWillNotify
<1>1. ASSUME stopped_' = stopped_, cv_' \subseteq cv_,
             \A s \in Stoppers : pc[s] = "stop_notify" => pc'[s] = "stop_notify"
      PROVE  \E s \in Stoppers : pc'[s] = "stop_notify"
  BY <1>1
<1>2. ASSUME NEW p \in Pushers, Push(p) PROVE \E s \in Stoppers : pc'[s] = "stop_notify"
  <2>1. cv_' \subseteq cv_
    <3>1. CASE PushNotify(p)
      BY <3>1 DEF PushNotify, NotifyOne
    <3>2. CASE ~PushNotify(p)
      BY <1>2, <3>2 DEF Push, PushLock, PushRefuse, PushAccept
    <3>3. QED
      BY <3>1, <3>2
  <2>2. QED
    BY <1>1, <1>2, <2>1 DEF Push, PushLock, PushRefuse, PushAccept, PushNotify
<1>3. ASSUME NEW c \in Poppers, WaitAndPop(c)
      PROVE  \E s \in Stoppers : pc'[s] = "stop_notify"
  <2>1. CASE PopBlock(c)
    BY <2>1 DEF PopBlock, CanPop
  <2>2. CASE ~PopBlock(c)
    BY <1>1, <1>3, <2>2
       DEF WaitAndPop, PopLock, PopTest, PopResume, PopRefuse, PopTake
  <2>3. QED
    BY <2>1, <2>2
<1>4. ASSUME NEW s \in Stoppers, Stop(s) PROVE \E t \in Stoppers : pc'[t] = "stop_notify"
  <2>1. CASE StopLock(s)
    BY <1>1, <2>1 DEF StopLock
  <2>2. CASE StopSet(s)
    BY <2>2 DEF StopSet
  <2>3. CASE StopNotify(s)
    BY <2>3 DEF StopNotify, NotifyAll
  <2>4. QED
    BY <1>4, <2>1, <2>2, <2>3 DEF Stop
<1>5. CASE SpuriousWakeup
  BY <1>1, <1>5 DEF SpuriousWakeup, Spurious
<1>6. CASE UNCHANGED vars
  BY <1>1, <1>6 DEF vars
<1>7. QED
  BY <1>2, <1>3, <1>4, <1>5, <1>6 DEF Next, Finished

(* A sleeping popper misses nothing: every queued frame has an awake       *)
(* popper or a notification on its way, and a stopped queue a stop() that  *)
(* is about to notify.                                                     *)
THEOREM NoLostWakeupHolds == Spec => []NoLostWakeup
<1>1. Init => FrameHasPopper /\ StopWillNotify
  BY DEF Init, FrameHasPopper, StopWillNotify
<1>2. IInv /\ FrameHasPopper /\ StopWillNotify => NoLostWakeup
  BY DEF IInv, Typing, FrameHasPopper, StopWillNotify, NoLostWakeup
<1>3. QED
  BY InitIInv, NextIInv, NextFrameHasPopper, NextStopWillNotify, <1>1, <1>2, PTL DEF Spec
=============================================================================
