---------------------------- MODULE BlockingQueue ----------------------------
(***************************************************************************)
(* BlockingQueue<T> of seventh_stage/day12/blocking_queue.cpp: a bounded   *)
(* queue guarded by one mutex with two condition variables.  push waits    *)
(* for room, pop waits for an element, stop() releases both.               *)
(*                                                                         *)
(* Granularity.  Acquiring the mutex, evaluating the predicate of          *)
(* wait(lock, pred), and going to sleep (which releases the mutex) are     *)
(* separate steps, because that is where a wakeup can be lost.  The body   *)
(* after the wait runs with the mutex held to the end of the function, so  *)
(* it is one step together with the release of the mutex.  stop() notifies *)
(* after it has released the mutex, one condition variable at a time.      *)
(*                                                                         *)
(* The callers: every producer pushes Items elements, each consumer pops   *)
(* until pop returns false, and a stopper may call stop() at any moment or *)
(* never.  The scenarios of main() (lines 78-208) are instances.           *)
(***************************************************************************)
EXTENDS Naturals, Sequences, FiniteSets, CondVar

CONSTANTS Producers, Consumers, Stoppers,   \* the threads, by what they call
          Nobody,                           \* the holder of a free mutex
          Capacity,                         \* capacity_; the code accepts 0
          Items                             \* bound: pushes per producer

Threads == Producers \cup Consumers \cup Stoppers

ASSUME ThreadsAssumption ==
    /\ Producers \cap Consumers = {}
    /\ Producers \cap Stoppers = {}
    /\ Consumers \cap Stoppers = {}
    /\ IsFiniteSet(Producers) /\ IsFiniteSet(Consumers)
    /\ Nobody \notin Threads

ASSUME BoundsAssumption == Capacity \in Nat /\ Items \in Nat

VARIABLES queue_,       \* the deque, oldest first
          stopped_,
          mutex_,       \* the thread that holds the mutex, or Nobody
          not_empty_,   \* the consumers asleep in pop
          not_full_,    \* the producers asleep in push
          pc,           \* where each thread is
          next,         \* the number of the element a producer pushes next
          accepted,     \* history: the elements push accepted, in order
          taken         \* history: the elements pop delivered, in order

shared == <<queue_, stopped_, not_empty_, not_full_>>
history == <<next, accepted, taken>>
vars == <<shared, mutex_, pc, history>>

Element == Producers \X (1 .. Items)

Init == /\ queue_ = <<>>
        /\ stopped_ = FALSE
        /\ mutex_ = Nobody
        /\ not_empty_ = {}
        /\ not_full_ = {}
        /\ pc = [t \in Threads |-> "out"]
        /\ next = [p \in Producers |-> 1]
        /\ accepted = <<>>
        /\ taken = <<>>

Goto(t, l) == pc' = [pc EXCEPT ![t] = l]

Acquire(t, l) == /\ mutex_ = Nobody
                 /\ mutex_' = t
                 /\ Goto(t, l)
                 /\ UNCHANGED <<shared, history>>

Release(t, l) == /\ mutex_' = Nobody
                 /\ Goto(t, l)

-----------------------------------------------------------------------------
(* push *)

(* Mutant: one element too many. *)
CanPush_OffByOne == stopped_ \/ Len(queue_) <= Capacity

CanPush == stopped_ \/ Len(queue_) < Capacity

PushLock(p) == /\ pc[p] = "out"
               /\ next[p] <= Items
               /\ Acquire(p, "push_test")

PushTest(p) == /\ pc[p] = "push_test"
               /\ ~CanPush
               /\ Goto(p, "push_block")
               /\ UNCHANGED <<shared, mutex_, history>>

(* Mutant: push waits on the other condition variable. *)
PushBlock_WrongCondVar(p) ==
    /\ pc[p] = "push_block"
    /\ not_empty_' = not_empty_ \cup {p}
    /\ Release(p, "push_wait")
    /\ UNCHANGED <<queue_, stopped_, not_full_, history>>

PushBlock(p) == /\ pc[p] = "push_block"
                /\ not_full_' = not_full_ \cup {p}
                /\ Release(p, "push_wait")
                /\ UNCHANGED <<queue_, stopped_, not_empty_, history>>

PushResume(p) == /\ pc[p] = "push_wait"
                 /\ p \notin not_full_
                 /\ Acquire(p, "push_test")

PushRefuse(p) == /\ pc[p] = "push_test"
                 /\ stopped_
                 /\ next' = [next EXCEPT ![p] = @ + 1]
                 /\ Release(p, "out")
                 /\ UNCHANGED <<shared, accepted, taken>>

(* Mutant: push notifies the producers. *)
PushAccept_WrongNotify(p) ==
    /\ pc[p] = "push_test"
    /\ CanPush
    /\ ~stopped_
    /\ queue_' = Append(queue_, <<p, next[p]>>)
    /\ accepted' = Append(accepted, <<p, next[p]>>)
    /\ next' = [next EXCEPT ![p] = @ + 1]
    /\ not_full_' \in NotifyOne(not_full_)
    /\ Release(p, "out")
    /\ UNCHANGED <<stopped_, not_empty_, taken>>

PushAccept(p) == /\ pc[p] = "push_test"
                 /\ CanPush
                 /\ ~stopped_
                 /\ queue_' = Append(queue_, <<p, next[p]>>)
                 /\ accepted' = Append(accepted, <<p, next[p]>>)
                 /\ next' = [next EXCEPT ![p] = @ + 1]
                 /\ not_empty_' \in NotifyOne(not_empty_)
                 /\ Release(p, "out")
                 /\ UNCHANGED <<stopped_, not_full_, taken>>

-----------------------------------------------------------------------------
(* pop *)

CanPop == stopped_ \/ queue_ # <<>>

PopLock(c) == /\ pc[c] = "out"
              /\ Acquire(c, "pop_test")

PopTest(c) == /\ pc[c] = "pop_test"
              /\ ~CanPop
              /\ Goto(c, "pop_block")
              /\ UNCHANGED <<shared, mutex_, history>>

PopBlock(c) == /\ pc[c] = "pop_block"
               /\ not_empty_' = not_empty_ \cup {c}
               /\ Release(c, "pop_wait")
               /\ UNCHANGED <<queue_, stopped_, not_full_, history>>

PopResume(c) == /\ pc[c] = "pop_wait"
                /\ c \notin not_empty_
                /\ Acquire(c, "pop_test")

(* Mutant: stop() discards what is still queued. *)
PopRefuse_NoDrain(c) ==
    /\ pc[c] = "pop_test"
    /\ stopped_
    /\ Release(c, "done")
    /\ UNCHANGED <<shared, history>>

PopRefuse(c) == /\ pc[c] = "pop_test"
                /\ stopped_ /\ queue_ = <<>>
                /\ Release(c, "done")
                /\ UNCHANGED <<shared, history>>

(* Mutant: pop notifies nobody. *)
PopTake_NoNotify(c) ==
    /\ pc[c] = "pop_test"
    /\ CanPop
    /\ queue_ # <<>>
    /\ taken' = Append(taken, Head(queue_))
    /\ queue_' = Tail(queue_)
    /\ Release(c, "out")
    /\ UNCHANGED <<stopped_, not_empty_, not_full_, next, accepted>>

PopTake(c) == /\ pc[c] = "pop_test"
              /\ CanPop
              /\ queue_ # <<>>
              /\ taken' = Append(taken, Head(queue_))
              /\ queue_' = Tail(queue_)
              /\ not_full_' \in NotifyOne(not_full_)
              /\ Release(c, "out")
              /\ UNCHANGED <<stopped_, not_empty_, next, accepted>>

-----------------------------------------------------------------------------
(* stop *)

StopLock(s) == /\ pc[s] = "out"
               /\ Acquire(s, "stop_set")

(* Mutant: the flag is stored without the mutex. *)
StopSet_NoMutex(s) ==
    /\ pc[s] \in {"out", "stop_set"}
    /\ stopped_' = TRUE
    /\ mutex_' = IF mutex_ = s THEN Nobody ELSE mutex_
    /\ Goto(s, "stop_wake_empty")
    /\ UNCHANGED <<queue_, not_empty_, not_full_, history>>

StopSet(s) == /\ pc[s] = "stop_set"
              /\ stopped_' = TRUE
              /\ Release(s, "stop_wake_empty")
              /\ UNCHANGED <<queue_, not_empty_, not_full_, history>>

(* Mutant: stop() wakes one consumer only. *)
StopWakeEmpty_One(s) ==
    /\ pc[s] = "stop_wake_empty"
    /\ not_empty_' \in NotifyOne(not_empty_)
    /\ Goto(s, "stop_wake_full")
    /\ UNCHANGED <<queue_, stopped_, not_full_, mutex_, history>>

StopWakeEmpty(s) == /\ pc[s] = "stop_wake_empty"
                    /\ not_empty_' \in NotifyAll(not_empty_)
                    /\ Goto(s, "stop_wake_full")
                    /\ UNCHANGED <<queue_, stopped_, not_full_, mutex_, history>>

StopWakeFull(s) == /\ pc[s] = "stop_wake_full"
                   /\ not_full_' \in NotifyAll(not_full_)
                   /\ Goto(s, "done")
                   /\ UNCHANGED <<queue_, stopped_, not_empty_, mutex_, history>>

-----------------------------------------------------------------------------
(* A sleeper may wake without being notified. *)
SpuriousWakeup ==
    \/ /\ not_empty_' \in Spurious(not_empty_)
       /\ UNCHANGED <<queue_, stopped_, not_full_, mutex_, pc, history>>
    \/ /\ not_full_' \in Spurious(not_full_)
       /\ UNCHANGED <<queue_, stopped_, not_empty_, mutex_, pc, history>>

Done(t) == IF t \in Producers THEN pc[t] = "out" /\ next[t] > Items
                              ELSE pc[t] = "done"

AllDone == \A t \in Threads : Done(t)

(* Every thread has returned for good; main() joins them and ends. *)
Finished == AllDone /\ UNCHANGED vars

Push(p) == \/ PushLock(p) \/ PushTest(p) \/ PushBlock(p) \/ PushResume(p)
           \/ PushRefuse(p) \/ PushAccept(p)

Pop(c) == \/ PopLock(c) \/ PopTest(c) \/ PopBlock(c) \/ PopResume(c)
          \/ PopRefuse(c) \/ PopTake(c)

Stop(s) == StopLock(s) \/ StopSet(s) \/ StopWakeEmpty(s) \/ StopWakeFull(s)

Next == \/ \E p \in Producers : Push(p)
        \/ \E c \in Consumers : Pop(c)
        \/ \E s \in Stoppers : Stop(s)
        \/ SpuriousWakeup
        \/ Finished

Spec == Init /\ [][Next]_vars

(***************************************************************************)
(* Fairness.  A thread that can step does (weak fairness), and a thread    *)
(* that waits for a mutex released again and again gets it (strong         *)
(* fairness on the acquisitions: otherwise a stream of spurious wakeups    *)
(* of another thread could keep it out forever).  Nothing obliges anybody  *)
(* to call stop(), nor a sleeper to wake by itself.                        *)
(***************************************************************************)
Fairness ==
    /\ \A p \in Producers : /\ WF_vars(Push(p))
                            /\ SF_vars(PushLock(p)) /\ SF_vars(PushResume(p))
    /\ \A c \in Consumers : /\ WF_vars(Pop(c))
                            /\ SF_vars(PopLock(c)) /\ SF_vars(PopResume(c))
    /\ \A s \in Stoppers : WF_vars(StopSet(s) \/ StopWakeEmpty(s) \/ StopWakeFull(s))

FairSpec == Spec /\ Fairness

-----------------------------------------------------------------------------
Labels == {"out", "push_test", "push_block", "push_wait",
           "pop_test", "pop_block", "pop_wait",
           "stop_set", "stop_wake_empty", "stop_wake_full", "done"}

(* The type of every variable; sleepers are on the variable they wait on. *)
TypeOK == /\ queue_ \in Seq(Element)
          /\ stopped_ \in BOOLEAN
          /\ mutex_ \in Threads \cup {Nobody}
          /\ not_empty_ \in SUBSET Consumers
          /\ not_full_ \in SUBSET Producers
          /\ pc \in [Threads -> Labels]
          /\ next \in [Producers -> 1 .. Items + 1]
          /\ accepted \in Seq(Element)
          /\ taken \in Seq(Element)

(* What push accepted is what pop has delivered followed by what is still  *)
(* queued, in order, and the queue never outgrows its capacity: nothing is *)
(* lost, duplicated or reordered, by stop() either.                        *)
Fifo == /\ accepted = taken \o queue_
        /\ Len(queue_) <= Capacity

(* The threads inside push or pop that are not asleep and so will still    *)
(* look at the queue before they return or sleep again.                    *)
AwakeIn(S, test, block, wait, cv) ==
    {t \in S : \/ pc[t] \in {test, block}
               \/ pc[t] = wait /\ t \notin cv}

AwakePoppers == AwakeIn(Consumers, "pop_test", "pop_block", "pop_wait", not_empty_)
AwakePushers == AwakeIn(Producers, "push_test", "push_block", "push_wait", not_full_)

(* No lost wakeup (push and pop notify ONE thread): while a consumer       *)
(* sleeps, every queued element has an awake consumer of its own on the    *)
(* way; while a producer sleeps, every free slot has an awake producer.    *)
NoLostWakeup ==
    ~stopped_ =>
        /\ not_empty_ # {} => Len(queue_) <= Cardinality(AwakePoppers)
        /\ not_full_ # {} => Capacity - Len(queue_) <= Cardinality(AwakePushers)

(* Once stopped_ is set, whoever still sleeps is about to be notified by   *)
(* the thread inside stop(): nobody fell asleep between the store and the  *)
(* notify_all.                                                             *)
StopWakesAll ==
    stopped_ =>
        /\ not_empty_ # {} => \E s \in Stoppers : pc[s] = "stop_wake_empty"
        /\ not_full_ # {} => \E s \in Stoppers : pc[s] \in {"stop_wake_empty", "stop_wake_full"}

(* After stop() no element is accepted, not even from a producer that was  *)
(* already waiting for room when stop() came and finds room when it wakes. *)
NothingAcceptedAfterStop == [][stopped_ => accepted' = accepted]_vars

(* stop() releases every blocked thread: all calls return for good.        *)
StopReleasesAll == stopped_ ~> AllDone

(* With or without stop(), all the pushes are eventually answered and all  *)
(* that was accepted is delivered: consumers that keep popping never leave *)
(* an element behind.                                                      *)
AllServed == <>[](/\ \A p \in Producers : Done(p)
                  /\ taken = accepted)

(* The threads inside a call, as the callers see it. *)
Busy == {t \in Producers \cup Consumers : pc[t] \notin {"out", "done"}}

Abstract == INSTANCE QueueSpec WITH Putters <- Producers, Takers <- Consumers,
                                    RefuseFull <- FALSE, buf <- queue_,
                                    closed <- stopped_, delivered <- taken,
                                    busy <- Busy

(* The queue implements the atomic closable FIFO of QueueSpec: a push is   *)
(* refused only after stop(), a pop only when stopped and drained.         *)
ImplementsQueueSpec == Abstract!Spec
=============================================================================
