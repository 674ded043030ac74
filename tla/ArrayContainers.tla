---------------------------- MODULE ArrayContainers ----------------------------
(***************************************************************************)
(* The queue, the stack and the circular queue of data-structure/, three   *)
(* exercises on an array of MAX ints with two indices at most:             *)
(*   queue_array.c     both indices only grow                              *)
(*   stack_array.c     rear is top + 1 and front is not used               *)
(*   circular_queue.c  a ring with a free slot whose dequeue reads the     *)
(*                     element at front and leaves front where it is       *)
(* Each program is its main, which calls the operations in any order that  *)
(* pleases it; a behaviour is one of the three.                            *)
(***************************************************************************)
EXTENDS Integers, Sequences

CONSTANTS Value,
          MAX,                  \* 100, 100 and 5 in the code
          Kinds                 \* the exercises that are run

VARIABLES kind,         \* which of the three
          data, front, rear,
          val,          \* the caller's variable
          answer        \* the last call, the boolean it returned and, of a
                      \* push that was done, the value the caller gave

vars == <<kind, data, front, rear, val, answer>>

Init == /\ kind \in Kinds
        /\ data \in [0 .. MAX - 1 -> Value]
        /\ front = 0 /\ rear = 0
        /\ val \in Value
        /\ answer = <<"init", TRUE>>

isEmpty == front = rear

isFull == IF kind = "circular" THEN (rear + 1) % MAX = front ELSE rear = MAX

(* enqueue, or push. *)
Stored(v) == /\ ~isFull
             /\ data' = [data EXCEPT ![rear] = v]
             /\ rear' = IF kind = "circular" THEN (rear + 1) % MAX ELSE rear + 1
             /\ answer' = <<"push", TRUE, v>>
             /\ UNCHANGED <<kind, front, val>>

StoreRefused == /\ isFull
                /\ answer' = <<"push", FALSE>>
                /\ UNCHANGED <<kind, data, front, rear, val>>

(* dequeue of queue_array.c. *)
QueueTaken == /\ kind = "queue" /\ ~isEmpty
              /\ val' = data[front]
              /\ front' = front + 1
              /\ answer' = <<"pop", TRUE>>
              /\ UNCHANGED <<kind, data, rear>>

(* Mutant: the place above the top is read. *)
StackTaken_Above == /\ kind = "stack" /\ ~isEmpty
                    /\ val' = data[rear % MAX]
                    /\ rear' = rear - 1
                    /\ answer' = <<"pop", TRUE>>
                    /\ UNCHANGED <<kind, data, front>>

StackTaken == /\ kind = "stack" /\ ~isEmpty
              /\ val' = data[rear - 1]
              /\ rear' = rear - 1
              /\ answer' = <<"pop", TRUE>>
              /\ UNCHANGED <<kind, data, front>>

StackPeeked == /\ kind = "stack" /\ ~isEmpty
               /\ val' = data[rear - 1]
               /\ answer' = <<"peek", TRUE>>
               /\ UNCHANGED <<kind, data, front, rear>>

(* dequeue of circular_queue.c: nothing but *val is written. *)
CircularTaken == /\ kind = "circular" /\ ~isEmpty
                 /\ val' = data[front]
                 /\ answer' = <<"pop", TRUE>>
                 /\ UNCHANGED <<kind, data, front, rear>>

TakeRefused == /\ isEmpty
               /\ answer' \in {<<"pop", FALSE>>} \cup
                              (IF kind = "stack" THEN {<<"peek", FALSE>>} ELSE {})
               /\ UNCHANGED <<kind, data, front, rear, val>>

Next == \/ \E v \in Value : Stored(v)
        \/ StoreRefused \/ TakeRefused
        \/ QueueTaken \/ StackTaken \/ StackPeeked \/ CircularTaken

Spec == Init /\ [][Next]_vars

-----------------------------------------------------------------------------
Count == IF kind = "circular" THEN (rear - front) % MAX ELSE rear - front

Contents == [k \in 1 .. Count |-> data[(front + k - 1) % MAX]]

Fifo == INSTANCE FifoSpec WITH buf <- Contents, Room <- MAX - 1, out <- val

(* A queue is first in, first out: what has been dequeued is gone, and the *)
(* next dequeue gets the next element.                                     *)
ImplementsFifo == Fifo!Spec

(* What a call does to the contents, told apart by its answer.             *)
CallKeepsOrder ==
    CASE answer'[1] = "push" /\ answer'[2] -> Contents' = Append(Contents, answer'[3])
      [] answer' = <<"pop", TRUE>> ->
              Contents = IF kind = "stack" THEN Append(Contents', val')
                                           ELSE <<val'>> \o Contents'
      [] answer' = <<"peek", TRUE>> ->
              Contents' = Contents /\ val' = Contents[Count]
      [] answer' = <<"push", FALSE>> -> Count = MAX - front
      [] OTHER -> Contents = <<>>

(* A push puts the caller's value behind the others; the queue gives back  *)
(* its oldest element and the stack its youngest, and neither touches the  *)
(* others.  The places in front of front are never used again, so a push   *)
(* may be refused by a queue that is nearly empty; it is never refused     *)
(* while a place behind rear is free.                                      *)
KeepsOrder == [][CallKeepsOrder]_vars
=============================================================================
