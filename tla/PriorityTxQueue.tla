--------------------------- MODULE PriorityTxQueue ---------------------------
(***************************************************************************)
(* PriorityTxQueue of seventh_stage/day09/priority_tx_queue.cpp: a bounded *)
(* transmit queue in which STOP frames go to the front, evict the oldest   *)
(* ordinary frame when the queue is full, and in which stop() discards     *)
(* whatever is queued.  push and stop notify after they release the mutex. *)
(*                                                                         *)
(* The callers: every pusher pushes Frames frames, each a STOP or not,     *)
(* every popper calls wait_and_pop until it returns false, and a stopper   *)
(* may call stop() at any moment or never.                                 *)
(***************************************************************************)
EXTENDS Naturals, FiniteSets, SequencesExt, CondVar

CONSTANTS Pushers, Poppers, Stoppers, Nobody,
          Capacity,     \* capacity_; the code accepts 0
          Frames        \* bound: pushes per pusher

Threads == Pushers \cup Poppers \cup Stoppers

ASSUME ThreadsAssumption ==
    /\ Pushers \cap Poppers = {} /\ Pushers \cap Stoppers = {} /\ Poppers \cap Stoppers = {}
    /\ IsFiniteSet(Pushers) /\ IsFiniteSet(Poppers)
    /\ Nobody \notin Threads
ASSUME BoundsAssumption == Capacity \in Nat /\ Frames \in Nat

VARIABLES queue_, stopped_, mutex_, cv_, pc,
          next,         \* next[p]: the number of the frame p pushes next
          accepted,     \* history: the frames push accepted, in order
          gone          \* history: the accepted frames no longer queued

vars == <<queue_, stopped_, mutex_, cv_, pc, next, accepted, gone>>

Init == /\ queue_ = <<>> /\ stopped_ = FALSE /\ mutex_ = Nobody /\ cv_ = {}
        /\ pc = [t \in Threads |-> "out"]
        /\ next = [p \in Pushers |-> 1]
        /\ accepted = <<>> /\ gone = {}

Goto(t, l) == pc' = [pc EXCEPT ![t] = l]

Acquire(t, l) == /\ mutex_ = Nobody
                 /\ mutex_' = t
                 /\ Goto(t, l)
                 /\ UNCHANGED <<queue_, stopped_, cv_, next, accepted, gone>>

Release(t, l) == mutex_' = Nobody /\ Goto(t, l)

-----------------------------------------------------------------------------
(* push *)

IsOrdinary(f) == ~f.is_stop

Full == Len(queue_) >= Capacity

(* Mutant: the newest ordinary frame is evicted. *)
Victim_Newest == SelectLastInSeq(queue_, IsOrdinary)

(* The index of the frame a STOP evicts, 0 if there is none. *)
Victim == SelectInSeq(queue_, IsOrdinary)

PushLock(p) == /\ pc[p] = "out"
               /\ next[p] <= Frames
               /\ Acquire(p, "push")

Refused(is_stop) == \/ stopped_
                    \/ Capacity = 0
                    \/ Full /\ (~is_stop \/ Victim = 0)

PushRefuse(p) == /\ pc[p] = "push"
                 /\ \E is_stop \in BOOLEAN : Refused(is_stop)
                 /\ next' = [next EXCEPT ![p] = @ + 1]
                 /\ Release(p, "out")
                 /\ UNCHANGED <<queue_, stopped_, cv_, accepted, gone>>

(* Mutant: a STOP frame queues behind the others. *)
Enqueue_AtBack(q, f) == Append(q, f)

Enqueue(q, f) == IF f.is_stop THEN <<f>> \o q ELSE Append(q, f)

PushAccept(p) ==
    /\ pc[p] = "push"
    /\ \E is_stop \in BOOLEAN :
           LET f == [seq |-> <<p, next[p]>>, is_stop |-> is_stop]
           IN  /\ ~Refused(is_stop)
               /\ queue_' = Enqueue(IF Full THEN RemoveAt(queue_, Victim) ELSE queue_, f)
               /\ gone' = gone \cup (IF Full THEN {queue_[Victim]} ELSE {})
               /\ accepted' = Append(accepted, f)
    /\ Release(p, "push_notify")
    /\ UNCHANGED <<stopped_, cv_, next>>

(* Mutant: push notifies nobody. *)
PushNotify_Skipped(p) ==
    /\ pc[p] = "push_notify"
    /\ next' = [next EXCEPT ![p] = @ + 1]
    /\ Goto(p, "out")
    /\ UNCHANGED <<queue_, stopped_, mutex_, cv_, accepted, gone>>

PushNotify(p) == /\ pc[p] = "push_notify"
                 /\ cv_' \in NotifyOne(cv_)
                 /\ next' = [next EXCEPT ![p] = @ + 1]
                 /\ Goto(p, "out")
                 /\ UNCHANGED <<queue_, stopped_, mutex_, accepted, gone>>

Push(p) == PushLock(p) \/ PushRefuse(p) \/ PushAccept(p) \/ PushNotify(p)

-----------------------------------------------------------------------------
(* wait_and_pop *)

CanPop == stopped_ \/ queue_ # <<>>

PopLock(c) == pc[c] = "out" /\ Acquire(c, "pop_test")

PopTest(c) == /\ pc[c] = "pop_test"
              /\ ~CanPop
              /\ Goto(c, "pop_block")
              /\ UNCHANGED <<queue_, stopped_, mutex_, cv_, next, accepted, gone>>

PopBlock(c) == /\ pc[c] = "pop_block"
               /\ cv_' = cv_ \cup {c}
               /\ Release(c, "pop_wait")
               /\ UNCHANGED <<queue_, stopped_, next, accepted, gone>>

PopResume(c) == /\ pc[c] = "pop_wait"
                /\ c \notin cv_
                /\ Acquire(c, "pop_test")

PopRefuse(c) == /\ pc[c] = "pop_test"
                /\ stopped_
                /\ Release(c, "done")
                /\ UNCHANGED <<queue_, stopped_, cv_, next, accepted, gone>>

PopTake(c) == /\ pc[c] = "pop_test"
              /\ CanPop /\ ~stopped_
              /\ gone' = gone \cup {Head(queue_)}
              /\ queue_' = Tail(queue_)
              /\ Release(c, "out")
              /\ UNCHANGED <<stopped_, cv_, next, accepted>>

WaitAndPop(c) == \/ PopLock(c) \/ PopTest(c) \/ PopBlock(c)
                 \/ PopResume(c) \/ PopRefuse(c) \/ PopTake(c)

-----------------------------------------------------------------------------
(* stop *)

StopLock(s) == pc[s] = "out" /\ Acquire(s, "stop")

StopSet(s) == /\ pc[s] = "stop"
              /\ stopped_' = TRUE
              /\ queue_' = <<>>
              /\ gone' = gone \cup ToSet(queue_)
              /\ Release(s, "stop_notify")
              /\ UNCHANGED <<cv_, next, accepted>>

(* Mutant: stop() notifies one thread. *)
StopNotify_One(s) == /\ pc[s] = "stop_notify"
                     /\ cv_' \in NotifyOne(cv_)
                     /\ Goto(s, "done")
                     /\ UNCHANGED <<queue_, stopped_, mutex_, next, accepted, gone>>

StopNotify(s) == /\ pc[s] = "stop_notify"
                 /\ cv_' \in NotifyAll(cv_)
                 /\ Goto(s, "done")
                 /\ UNCHANGED <<queue_, stopped_, mutex_, next, accepted, gone>>

Stop(s) == StopLock(s) \/ StopSet(s) \/ StopNotify(s)

-----------------------------------------------------------------------------
SpuriousWakeup == /\ cv_' \in Spurious(cv_)
                  /\ UNCHANGED <<queue_, stopped_, mutex_, pc, next, accepted, gone>>

PushersDone == \A p \in Pushers : pc[p] = "out" /\ next[p] > Frames

AllDone == PushersDone /\ \A t \in Poppers \cup Stoppers : pc[t] = "done"

Finished == AllDone /\ UNCHANGED vars

Next == \/ \E p \in Pushers : Push(p)
        \/ \E c \in Poppers : WaitAndPop(c)
        \/ \E s \in Stoppers : Stop(s)
        \/ SpuriousWakeup
        \/ Finished

Spec == Init /\ [][Next]_vars

(* Every thread inside a call runs; nothing obliges a thread to call      *)
(* stop().  That a waiting thread obtains the mutex needs no more: the     *)
(* others take it a bounded number of times while there is work.           *)
FairSpec == /\ Spec
            /\ \A p \in Pushers : WF_vars(Push(p))
            /\ \A c \in Poppers : WF_vars(WaitAndPop(c))
            /\ \A s \in Stoppers : WF_vars(StopSet(s) \/ StopNotify(s))

-----------------------------------------------------------------------------
AcceptedBefore(f, g) == \E a, b \in 1 .. Len(accepted) :
                            a < b /\ accepted[a] = f /\ accepted[b] = g

Precedes(f, g) == \/ f.is_stop /\ ~g.is_stop
                  \/ f.is_stop /\ g.is_stop /\ AcceptedBefore(g, f)
                  \/ ~f.is_stop /\ ~g.is_stop /\ AcceptedBefore(f, g)

(* The queue never outgrows its capacity, and it holds each accepted frame *)
(* that has not been popped, evicted or discarded exactly once: first the  *)
(* STOP frames, the latest in front, then the ordinary ones in the order   *)
(* of acceptance.  stop() is final: nothing is queued any more, however    *)
(* pushes and pops that were already under way interleave with it.         *)
QueueOrder ==
    /\ Len(queue_) <= Capacity
    /\ stopped_ => queue_ = <<>>
    /\ ToSet(queue_) = ToSet(accepted) \ gone
    /\ \A j, k \in 1 .. Len(queue_) : j < k => Precedes(queue_[j], queue_[k])

(* A frame leaves a queue that is not being stopped either as its front,   *)
(* or evicted by a STOP that found the queue full: then it is the oldest   *)
(* ordinary frame.  In particular no STOP frame is ever evicted.           *)
OnlyUrgencyEvicts ==
    [][ \A k \in 1 .. Len(queue_) :
          queue_[k] \notin ToSet(queue_') /\ ~stopped_' =>
              \/ k = 1 /\ queue_' = Tail(queue_)
              \/ /\ Len(queue_) = Capacity
                 /\ queue_'[1].is_stop
                 /\ ~queue_[k].is_stop
                 /\ \A j \in 1 .. k - 1 : queue_[j].is_stop ]_vars

(* While a popper sleeps, every queued frame has an awake popper or a      *)
(* pending notification; none sleeps on a stopped queue unless stop() is   *)
(* about to notify.                                                        *)
AwakePoppers == {c \in Poppers : \/ pc[c] \in {"pop_test", "pop_block"}
                                 \/ pc[c] = "pop_wait" /\ c \notin cv_}
Notifying == {p \in Pushers : pc[p] = "push_notify"}

NoLostWakeup ==
    cv_ # {} => IF stopped_ THEN \E s \in Stoppers : pc[s] = "stop_notify"
                ELSE Len(queue_) <= Cardinality(AwakePoppers) + Cardinality(Notifying)

(* Although push notifies one thread and notifies late, no frame is left   *)
(* in the queue while poppers sleep; and stop() reaches every thread: all  *)
(* calls return.                                                           *)
NothingIsStuck == /\ queue_ # <<>> ~> queue_ = <<>>
                  /\ stopped_ ~> AllDone
=============================================================================
