------------------------------ MODULE SensorRing ------------------------------
(***************************************************************************)
(* leetcode/day07_sensor_ring_buffer.c: a ring that overwrites the oldest  *)
(* sample when it is full and is read by logical index, 0 being the oldest *)
(* sample.  Only the write index and the count are stored.                 *)
(***************************************************************************)
EXTENDS Integers, Sequences

CONSTANTS Sample,
          Zero,                         \* the sample of all zeros
          SENSOR_RING_CAPACITY          \* 5 in the code

ConstantsOK == SENSOR_RING_CAPACITY \in Nat \ {0} /\ Zero \in Sample

VARIABLES items, write_index, count,
          output,       \* the caller's variable
          answer        \* the last call, its index and what it returned

vars == <<items, write_index, count, output, answer>>

Index == 0 .. SENSOR_RING_CAPACITY - 1

Init == /\ items = [i \in Index |-> Zero]
        /\ write_index = 0 /\ count = 0
        /\ output \in Sample
        /\ answer = <<>>

ring_buffer_init == /\ items' = [i \in Index |-> Zero]
                    /\ write_index' = 0 /\ count' = 0
                    /\ answer' = <<"init">>
                    /\ UNCHANGED output

Counted == IF count < SENSOR_RING_CAPACITY THEN count + 1 ELSE count

ring_buffer_push(sample) ==
    /\ items' = [items EXCEPT ![write_index] = sample]
    /\ write_index' = (write_index + 1) % SENSOR_RING_CAPACITY
    /\ count' = Counted
    /\ answer' = <<"push", TRUE>>
    /\ UNCHANGED output

oldest_index == (write_index + SENSOR_RING_CAPACITY - count) % SENSOR_RING_CAPACITY

physical_index(i) == (oldest_index + i) % SENSOR_RING_CAPACITY

GetFound(i) == /\ i < count
               /\ output' = items[physical_index(i)]
               /\ answer' = <<"get", i, TRUE>>
               /\ UNCHANGED <<items, write_index, count>>

GetRefused(i) == /\ i >= count
                 /\ answer' = <<"get", i, FALSE>>
                 /\ UNCHANGED <<items, write_index, count, output>>

NullArgument == /\ answer' = <<"null", FALSE>>
                /\ UNCHANGED <<items, write_index, count, output>>

Next == \/ ring_buffer_init \/ NullArgument
        \/ \E sample \in Sample : ring_buffer_push(sample)
        \/ \E i \in 0 .. SENSOR_RING_CAPACITY : GetFound(i) \/ GetRefused(i)

Spec == Init /\ [][Next]_vars

-----------------------------------------------------------------------------
TypeOK == /\ items \in [Index -> Sample]
          /\ write_index \in Index
          /\ count \in 0 .. SENSOR_RING_CAPACITY
          /\ output \in Sample

(* The samples from the write index backwards, without the index the code  *)
(* computes.                                                               *)
Contents == [k \in 1 .. count |->
               items[(write_index - (count + 1 - k)) % SENSOR_RING_CAPACITY]]

Window == INSTANCE WindowSpec
             WITH Value <- Sample, Room <- SENSOR_RING_CAPACITY,
                  window <- Contents, out <- output

(* The ring holds the last SENSOR_RING_CAPACITY samples, and a logical     *)
(* index reads the sample of that age wherever the write index stands.     *)
ImplementsWindow == Window!Spec
=============================================================================
