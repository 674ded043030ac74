------------------------------- MODULE UartRing -------------------------------
(***************************************************************************)
(* seventh_stage/day10/uart_ring_buffer.c: the ring buffer without a       *)
(* count.  One slot is reserved so that head = tail means empty only, and  *)
(* a byte that finds the ring full is dropped and counted in a 32-bit      *)
(* counter.  Here head is the WRITE index and tail the READ index.         *)
(***************************************************************************)
EXTENDS Integers, Sequences

CONSTANTS Value,
          RB_CAPACITY,          \* slots of the array, 8 in the code
          CounterModulus,       \* 2^32 in the code
          MaxLost               \* bound: dropped bytes in a behaviour

ASSUME CapacityAssumption == RB_CAPACITY \in Nat \ {0}
ASSUME CounterAssumption == CounterModulus \in Nat \ {0} /\ MaxLost \in Nat

VARIABLES data, head, tail, overflow_count,
          out,          \* *out, the caller's variable
          answer,       \* the last call and the boolean it returned
          lost          \* history: the bytes dropped since the last init

vars == <<data, head, tail, overflow_count, out, answer, lost>>

Index == 0 .. RB_CAPACITY - 1

(* A declared buffer and rb_init; init leaves the array alone. *)
Init == /\ data \in [Index -> Value]
        /\ head = 0 /\ tail = 0
        /\ overflow_count = 0 /\ lost = 0
        /\ out \in Value
        /\ answer = <<"init", TRUE>>

Reinit == /\ head' = 0 /\ tail' = 0
          /\ overflow_count' = 0 /\ lost' = 0
          /\ answer' = <<"init", TRUE>>
          /\ UNCHANGED <<data, out>>

next_head == (head + 1) % RB_CAPACITY

is_full == next_head = tail

PushDropped == /\ is_full
               /\ lost < MaxLost
               /\ lost' = lost + 1
               /\ overflow_count' = (overflow_count + 1) % CounterModulus
               /\ answer' = <<"push", FALSE>>
               /\ UNCHANGED <<data, head, tail, out>>

PushStored(v) == /\ ~is_full
                 /\ data' = [data EXCEPT ![head] = v]
                 /\ head' = next_head
                 /\ answer' = <<"push", TRUE>>
                 /\ UNCHANGED <<tail, overflow_count, out, lost>>

is_empty == head = tail

PopTaken == /\ ~is_empty
            /\ out' = data[tail]
            /\ tail' = (tail + 1) % RB_CAPACITY
            /\ answer' = <<"pop", TRUE>>
            /\ UNCHANGED <<data, head, overflow_count, lost>>

PopRefused == /\ is_empty
              /\ answer' = <<"pop", FALSE>>
              /\ UNCHANGED <<data, head, tail, overflow_count, out, lost>>

NullArgument == /\ answer' = <<"null", FALSE>>
                /\ UNCHANGED <<data, head, tail, overflow_count, out, lost>>

Next == \/ PushDropped \/ \E v \in Value : PushStored(v)
        \/ PopTaken \/ PopRefused
        \/ NullArgument \/ Reinit

Spec == Init /\ [][Next]_vars

-----------------------------------------------------------------------------
(* Both indices stay inside the array. *)
TypeOK == /\ data \in [Index -> Value]
          /\ head \in Index /\ tail \in Index
          /\ overflow_count \in 0 .. CounterModulus - 1
          /\ out \in Value
          /\ lost \in 0 .. MaxLost

(* overflow_count tells how many bytes were dropped since rb_init, as far  *)
(* as 32 bits can tell: after 2^32 drops it starts again from 0.           *)
OverflowCountsDrops == overflow_count = lost % CounterModulus

(* The number of stored bytes, which the code never computes, and the      *)
(* bytes, oldest first.                                                    *)
Stored == IF head >= tail THEN head - tail ELSE head - tail + RB_CAPACITY

Contents == [k \in 1 .. Stored |-> data[(tail + k - 1) % RB_CAPACITY]]

Fifo == INSTANCE FifoSpec WITH buf <- Contents, Room <- RB_CAPACITY - 1

(* The ring is a FIFO of RB_CAPACITY - 1 bytes: exactly one slot is given  *)
(* up, wherever in the array the bytes lie.                                *)
ImplementsFifo == Fifo!Spec
=============================================================================
