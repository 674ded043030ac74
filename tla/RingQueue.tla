------------------------------ MODULE RingQueue ------------------------------
(***************************************************************************)
(* The count-based ring buffer: data-structure/day20_ring_queue.c and,     *)
(* line for line the same algorithm with other names,                      *)
(* data-structure/day01_circular_buffer/circular_buffer.c.  head = tail    *)
(* both when the ring is empty and when it is full; count tells which.     *)
(*                                                                         *)
(* init() does not clear the array, and an array on the stack starts with  *)
(* arbitrary contents.  A NULL queue or value pointer is the one action    *)
(* NullArgument: the early return common to all operations.                *)
(***************************************************************************)
EXTENDS Integers, Sequences

CONSTANTS Value,
          QUEUE_CAPACITY        \* 5 in day20, RB_CAPACITY = 8 in day01

VARIABLES data, head, tail, count,
          out,          \* *value, the caller's variable
          answer        \* the last call and the boolean it returned

vars == <<data, head, tail, count, out, answer>>

Index == 0 .. QUEUE_CAPACITY - 1

(* A declared queue and ring_queue_init. *)
Init == /\ data \in [Index -> Value]
        /\ head = 0 /\ tail = 0 /\ count = 0
        /\ out \in Value
        /\ answer = <<"init", TRUE>>

Reinit == /\ head' = 0 /\ tail' = 0 /\ count' = 0
          /\ answer' = <<"init", TRUE>>
          /\ UNCHANGED <<data, out>>

is_empty == count = 0

(* Mutant: full tested as in the ring that reserves a slot. *)
is_full_Reserved == (tail + 1) % QUEUE_CAPACITY = head

is_full == count = QUEUE_CAPACITY

PushRefused == /\ is_full
               /\ answer' = <<"push", FALSE>>
               /\ UNCHANGED <<data, head, tail, count, out>>

PushStored(v) == /\ ~is_full
                 /\ data' = [data EXCEPT ![tail] = v]
                 /\ tail' = (tail + 1) % QUEUE_CAPACITY
                 /\ count' = count + 1
                 /\ answer' = <<"push", TRUE>>
                 /\ UNCHANGED <<head, out>>

(* Mutant: the count is not maintained. *)
PopTaken_NoCount == /\ ~is_empty
                    /\ out' = data[head]
                    /\ head' = (head + 1) % QUEUE_CAPACITY
                    /\ answer' = <<"pop", TRUE>>
                    /\ UNCHANGED <<data, tail, count>>

PopTaken == /\ ~is_empty
            /\ out' = data[head]
            /\ head' = (head + 1) % QUEUE_CAPACITY
            /\ count' = count - 1
            /\ answer' = <<"pop", TRUE>>
            /\ UNCHANGED <<data, tail>>

PopRefused == /\ is_empty
              /\ answer' = <<"pop", FALSE>>
              /\ UNCHANGED <<data, head, tail, count, out>>

PeekTaken == /\ ~is_empty
             /\ out' = data[head]
             /\ answer' = <<"peek", TRUE>>
             /\ UNCHANGED <<data, head, tail, count>>

PeekRefused == /\ is_empty
               /\ answer' = <<"peek", FALSE>>
               /\ UNCHANGED <<data, head, tail, count, out>>

NullArgument == /\ answer' = <<"null", FALSE>>
                /\ UNCHANGED <<data, head, tail, count, out>>

Push(v) == PushRefused \/ PushStored(v)

Pop == PopTaken \/ PopRefused

Peek == PeekTaken \/ PeekRefused

Next == \/ \E v \in Value : Push(v)
        \/ Pop \/ Peek
        \/ NullArgument \/ Reinit

Spec == Init /\ [][Next]_vars

-----------------------------------------------------------------------------
(* The indices stay inside the array, the count within the capacity. *)
TypeOK == /\ data \in [Index -> Value]
          /\ head \in Index /\ tail \in Index
          /\ count \in 0 .. QUEUE_CAPACITY
          /\ out \in Value

(* The three fields never disagree: the next write is count slots after    *)
(* the next read, around the end of the array.                             *)
CountTellsTail == tail = (head + count) % QUEUE_CAPACITY

(* The stored values, oldest first. *)
Contents == [k \in 1 .. count |-> data[(head + k - 1) % QUEUE_CAPACITY]]

Fifo == INSTANCE FifoSpec WITH buf <- Contents, Room <- QUEUE_CAPACITY

(* The ring is a FIFO of QUEUE_CAPACITY values: no slot is wasted, wrapping *)
(* around loses and repeats nothing, and a refused call changes nothing.    *)
ImplementsFifo == Fifo!Spec
=============================================================================
