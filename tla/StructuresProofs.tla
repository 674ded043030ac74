---------------------------- MODULE StructuresProofs ----------------------------
(***************************************************************************)
(* Proofs about the data structures of MCStructures, for every capacity,   *)
(* every counter width, every heap, tree and number of lists' nodes, and   *)
(* every set of values, numbers and threads.  A suite behaviour is a       *)
(* behaviour of each component, which moves or stands still, so each       *)
(* component is proved by itself and the suite's properties follow.        *)
(***************************************************************************)
EXTENDS MCStructures, FiniteSetTheorems, SequenceTheorems, WellFoundedInduction,
        TLAPS

-----------------------------------------------------------------------------
(* Positions modulo the number of slots n *)

(* One lap at most: the remainder is the number, or the number less n. *)
LEMMA WrapOnce ==
    \A n, a \in Nat : n > 0 /\ a < n + n
                      => a % n = IF a < n THEN a ELSE a - n
<1> SUFFICES ASSUME NEW n \in Nat, NEW a \in Nat, n > 0, a < n + n
             PROVE  a % n = IF a < n THEN a ELSE a - n
  OBVIOUS
<1>1. CASE a < n
  BY <1>1
<1>2. CASE a >= n
  BY <1>2
<1>3. QED
  BY <1>1, <1>2

LEMMA WrapSum ==
    ASSUME NEW n \in Nat \ {0}, NEW x \in 0 .. n - 1, NEW y \in 0 .. n - 1
    PROVE  (x + y) % n = IF x + y < n THEN x + y ELSE x + y - n
<1>1. x + y \in Nat /\ x + y < n + n /\ n > 0
  OBVIOUS
<1>2. QED
  BY <1>1, WrapOnce

(* A position is a slot of the array. *)
LEMMA WrapInRange ==
    ASSUME NEW n \in Nat \ {0}, NEW a \in Nat
    PROVE  a % n \in 0 .. n - 1
  OBVIOUS

(* Stepping a position is stepping the distance from the start. *)
LEMMA NextOfSum ==
    ASSUME NEW n \in Nat \ {0}, NEW h \in 0 .. n - 1, NEW c \in 0 .. n - 1
    PROVE  (((h + c) % n) + 1) % n = (h + c + 1) % n
<1>1. (h + c) % n = IF h + c < n THEN h + c ELSE h + c - n
  BY WrapOnce
<1>2. (h + c + 1) % n = IF h + c + 1 < n THEN h + c + 1 ELSE h + c + 1 - n
  <2>1. h + c + 1 \in Nat /\ h + c + 1 < n + n
    OBVIOUS
  <2>2. QED
    BY <2>1, WrapOnce
<1>3. DEFINE t == (h + c) % n
<1>4. t \in 0 .. n - 1
  BY <1>1
<1>5. (t + 1) % n = IF t + 1 < n THEN t + 1 ELSE t + 1 - n
  <2> HIDE DEF t
  <2>1. t + 1 \in Nat /\ t + 1 < n + n
    BY <1>4
  <2>2. QED
    BY <1>4, <2>1, WrapOnce
<1>6. QED
  BY <1>1, <1>2, <1>5

(* Stepping the start is one more of distance. *)
LEMMA SumOfNext ==
    ASSUME NEW n \in Nat \ {0}, NEW h \in 0 .. n - 1, NEW c \in 0 .. n - 1
    PROVE  (((h + 1) % n) + c) % n = (h + c + 1) % n
<1>1. (h + 1) % n = IF h + 1 < n THEN h + 1 ELSE h + 1 - n
  BY WrapOnce
<1>2. (h + c + 1) % n = IF h + c + 1 < n THEN h + c + 1 ELSE h + c + 1 - n
  <2>1. h + c + 1 \in Nat /\ h + c + 1 < n + n
    OBVIOUS
  <2>2. QED
    BY <2>1, WrapOnce
<1>3. DEFINE s == (h + 1) % n
<1>4. s \in 0 .. n - 1
  BY <1>1
<1>5. (s + c) % n = IF s + c < n THEN s + c ELSE s + c - n
  <2> HIDE DEF s
  <2>1. s + c \in Nat /\ s + c < n + n
    BY <1>4
  <2>2. QED
    BY <1>4, <2>1, WrapOnce
<1>6. QED
  BY <1>1, <1>2, <1>5

(* A counter of n values keeps the remainder of what it counts. *)
LEMMA RemainderUnique ==
    ASSUME NEW n \in Nat, n > 0, NEW q \in Int, NEW r \in Nat, r < n,
           NEW a \in Nat, a = n * q + r
    PROVE  a % n = r
  OBVIOUS

LEMMA NextOfRemainder ==
    \A n, a \in Nat : n > 0 => ((a % n) + 1) % n = (a + 1) % n
<1> SUFFICES ASSUME NEW n \in Nat, NEW a \in Nat, n > 0
             PROVE  ((a % n) + 1) % n = (a + 1) % n
  OBVIOUS
<1> DEFINE q == a \div n
           r == a % n
<1>1. q \in Int /\ r \in Nat /\ r < n /\ a = n * q + r
  OBVIOUS
<1> HIDE DEF q, r
<1>2. CASE r + 1 < n
  <2>1. a + 1 = n * q + (r + 1)
    BY <1>1
  <2>2. (a + 1) % n = r + 1
    BY <1>1, <1>2, <2>1, RemainderUnique
  <2>3. (r + 1) % n = r + 1
    BY <1>1, <1>2, WrapOnce
  <2>4. QED
    BY <2>2, <2>3 DEF r
<1>3. CASE r + 1 = n
  <2>1. a + 1 = n * (q + 1) + 0
    BY <1>1, <1>3
  <2>2. (a + 1) % n = 0
    BY <1>1, <2>1, RemainderUnique
  <2>3. (r + 1) % n = 0
    BY <1>1, <1>3, WrapOnce
  <2>4. QED
    BY <2>2, <2>3 DEF r
<1>4. QED
  BY <1>1, <1>2, <1>3

(* Within one lap, different distances are different slots. *)
LEMMA Apart ==
    ASSUME NEW n \in Nat \ {0}, NEW h \in 0 .. n - 1,
           NEW j \in 0 .. n - 1, NEW k \in 0 .. n - 1, j # k
    PROVE  (h + j) % n # (h + k) % n
<1>1. (h + j) % n = IF h + j < n THEN h + j ELSE h + j - n
  BY WrapOnce
<1>2. (h + k) % n = IF h + k < n THEN h + k ELSE h + k - n
  BY WrapOnce
<1>3. QED
  BY <1>1, <1>2

-----------------------------------------------------------------------------
(* UartRing: the indices, the overflow counter, and that the ring with a   *)
(* reserved slot implements the bounded FIFO of RB_CAPACITY - 1.           *)

Inv == TypeOK /\ OverflowCountsDrops

LEMMA Constants == /\ RB_CAPACITY \in Nat \ {0}
                   /\ CounterModulus \in Nat \ {0}
                   /\ MaxLost \in Nat
  BY CapacityAssumption, CounterAssumption
     DEF CapacityAssumption, CounterAssumption

LEMMA InitInv == Init => Inv
<1>1. 0 % CounterModulus = 0
  BY Constants, WrapOnce
<1>2. QED
  BY <1>1, Constants DEF Init, Inv, TypeOK, OverflowCountsDrops, Index

LEMMA NextInv == Inv /\ [Next]_vars => Inv'
<1> SUFFICES ASSUME Inv, [Next]_vars PROVE Inv'
  OBVIOUS
<1>0. /\ head \in 0 .. RB_CAPACITY - 1 /\ tail \in 0 .. RB_CAPACITY - 1
      /\ lost \in Nat /\ overflow_count \in 0 .. CounterModulus - 1
      /\ overflow_count = lost % CounterModulus
  BY Constants DEF Inv, TypeOK, OverflowCountsDrops, Index
<1>1. ASSUME NEW v \in Value, PushStored(v) PROVE Inv'
  <2>1. (head + 1) % RB_CAPACITY \in Index
    BY <1>0, Constants, WrapInRange DEF Index
  <2>2. QED
    BY <1>1, <2>1 DEF PushStored, next_head, Inv, TypeOK, OverflowCountsDrops
<1>2. CASE PushDropped
  <2>1. (overflow_count + 1) % CounterModulus = (lost + 1) % CounterModulus
    <3>1. CounterModulus \in Nat /\ CounterModulus > 0 /\ lost \in Nat
      BY <1>0, Constants
    <3>2. ((lost % CounterModulus) + 1) % CounterModulus = (lost + 1) % CounterModulus
      BY <3>1, NextOfRemainder
    <3>3. QED
      BY <1>0, <3>2
  <2>2. (overflow_count + 1) % CounterModulus \in 0 .. CounterModulus - 1
    BY <1>0, Constants, WrapInRange
  <2>3. lost' \in 0 .. MaxLost
    BY <1>0, <1>2, Constants DEF PushDropped
  <2>4. QED
    BY <1>2, <2>1, <2>2, <2>3 DEF PushDropped, Inv, TypeOK, OverflowCountsDrops
<1>3. CASE PopTaken
  <2>1. (tail + 1) % RB_CAPACITY \in Index /\ data[tail] \in Value
    BY <1>0, Constants, WrapInRange DEF Index, Inv, TypeOK
  <2>2. QED
    BY <1>3, <2>1 DEF PopTaken, Inv, TypeOK, OverflowCountsDrops
<1>4. CASE PopRefused \/ NullArgument
  BY <1>4 DEF PopRefused, NullArgument, Inv, TypeOK, OverflowCountsDrops
<1>5. CASE Reinit
  <2>1. 0 % CounterModulus = 0
    BY Constants, WrapOnce
  <2>2. QED
    BY <1>5, <2>1, Constants DEF Reinit, Inv, TypeOK, OverflowCountsDrops, Index
<1>6. CASE UNCHANGED vars
  BY <1>6 DEF vars, Inv, TypeOK, OverflowCountsDrops
<1>7. QED
  BY <1>1, <1>2, <1>3, <1>4, <1>5, <1>6 DEF Next

(* Both indices stay inside the array, whatever is pushed and popped. *)
THEOREM UartTypeCorrect == Spec => []TypeOK
<1>1. Inv => TypeOK
  BY DEF Inv
<1>2. QED
  BY InitInv, NextInv, <1>1, PTL DEF Spec

(* The overflow counter is the number of dropped bytes modulo its width. *)
THEOREM OverflowCountsDropsHolds == Spec => []OverflowCountsDrops
<1>1. Inv => OverflowCountsDrops
  BY DEF Inv
<1>2. QED
  BY InitInv, NextInv, <1>1, PTL DEF Spec

-----------------------------------------------------------------------------
(* Refinement.  The distance from tail to head determines everything. *)

LEMMA InvFacts ==
    ASSUME Inv
    PROVE  /\ RB_CAPACITY \in Nat \ {0}
           /\ head \in 0 .. RB_CAPACITY - 1 /\ tail \in 0 .. RB_CAPACITY - 1
           /\ Stored \in 0 .. RB_CAPACITY - 1
           /\ head = tail + Stored \/ head = tail + Stored - RB_CAPACITY
           /\ data \in [0 .. RB_CAPACITY - 1 -> Value]
  BY Constants DEF Inv, TypeOK, Index, Stored

LEMMA HeadIsAhead == ASSUME Inv PROVE head = (tail + Stored) % RB_CAPACITY
<1>0. /\ RB_CAPACITY \in Nat /\ RB_CAPACITY > 0
      /\ tail \in Nat /\ Stored \in Nat
      /\ tail + Stored < RB_CAPACITY + RB_CAPACITY
  BY InvFacts
<1>1. (tail + Stored) % RB_CAPACITY
      = IF tail + Stored < RB_CAPACITY THEN tail + Stored ELSE tail + Stored - RB_CAPACITY
  BY <1>0, WrapOnce
<1>2. QED
  BY <1>1, InvFacts

LEMMA NextIndex ==
    ASSUME NEW i \in 0 .. RB_CAPACITY - 1
    PROVE  (i + 1) % RB_CAPACITY = IF i + 1 = RB_CAPACITY THEN 0 ELSE i + 1
<1>1. (i + 1) % RB_CAPACITY
      = IF i + 1 < RB_CAPACITY THEN i + 1 ELSE i + 1 - RB_CAPACITY
  BY Constants, WrapOnce
<1>2. QED
  BY <1>1, Constants

LEMMA EmptyAndFull ==
    ASSUME Inv
    PROVE  (is_empty <=> Stored = 0) /\ (is_full <=> Stored = RB_CAPACITY - 1)
<1>1. next_head = IF head + 1 = RB_CAPACITY THEN 0 ELSE head + 1
  BY InvFacts, NextIndex DEF next_head
<1>2. QED
  BY <1>1, InvFacts DEF Stored, is_empty, is_full

(* The slot that holds the k-th oldest byte. *)
Slot(k) == (tail + (k - 1)) % RB_CAPACITY

ContentsOK == /\ Contents \in Seq(Value)
              /\ Len(Contents) = Stored
              /\ Stored = 0 <=> Contents = <<>>
              /\ \A k \in 1 .. Stored : Contents[k] = data[Slot(k)]

LEMMA ContentsIsSeq == Inv => ContentsOK
<1> SUFFICES ASSUME Inv PROVE ContentsOK
  OBVIOUS
<1>1. ASSUME NEW k \in 1 .. Stored
      PROVE  tail + k - 1 = tail + (k - 1) /\ data[Slot(k)] \in Value
  <2>1. tail + (k - 1) \in Nat /\ tail + k - 1 = tail + (k - 1)
    BY InvFacts
  <2>2. Slot(k) \in 0 .. RB_CAPACITY - 1
    BY <2>1, InvFacts, WrapInRange DEF Slot
  <2>3. QED
    BY <2>1, <2>2, InvFacts
<1>2. Contents = [k \in 1 .. Stored |-> data[Slot(k)]]
  BY <1>1 DEF Contents, Slot
<1>3. Contents \in [1 .. Stored -> Value] /\ Stored \in Nat
  BY <1>1, <1>2, InvFacts
<1>4. Contents \in Seq(Value) /\ Len(Contents) = Stored
  BY <1>3
<1>5. QED
  BY <1>2, <1>4, EmptySeq, LenProperties DEF ContentsOK

(* A stored byte becomes the last of the contents. *)
LEMMA PushAppends ==
    ASSUME Inv, Inv', NEW v \in Value, PushStored(v)
    PROVE  Contents' = Append(Contents, v)
<1>1. /\ Contents \in Seq(Value) /\ Len(Contents) = Stored
      /\ \A k \in 1 .. Stored : Contents[k] = data[Slot(k)]
  BY ContentsIsSeq DEF ContentsOK
<1>2. /\ Contents' \in Seq(Value) /\ Len(Contents') = Stored'
      /\ \A k \in 1 .. Stored' : Contents'[k] = data'[(tail' + (k - 1)) % RB_CAPACITY]
  <2>1. ContentsOK'
    BY ContentsIsSeq, PTL
  <2>2. QED
    BY <2>1 DEF ContentsOK, Slot
<1>3. /\ RB_CAPACITY \in Nat \ {0}
      /\ head \in 0 .. RB_CAPACITY - 1 /\ tail \in 0 .. RB_CAPACITY - 1
      /\ head = (tail + Stored) % RB_CAPACITY
      /\ data \in [0 .. RB_CAPACITY - 1 -> Value]
      /\ Stored \in 0 .. RB_CAPACITY - 1
      /\ tail' = tail /\ data' = [data EXCEPT ![head] = v]
  BY InvFacts, HeadIsAhead DEF PushStored
<1>4. Stored' = Stored + 1
  <2>1. head' = IF head + 1 = RB_CAPACITY THEN 0 ELSE head + 1
    BY InvFacts, NextIndex DEF PushStored, next_head
  <2>2. head' # tail
    BY DEF PushStored, is_full
  <2>3. QED
    BY <1>3, <2>1, <2>2 DEF Stored
<1>5. /\ Append(Contents, v) \in Seq(Value) /\ Len(Append(Contents, v)) = Stored + 1
      /\ \A k \in 1 .. Stored : Append(Contents, v)[k] = Contents[k]
      /\ Append(Contents, v)[Stored + 1] = v
  BY <1>1, AppendProperties
<1>6. ASSUME NEW k \in 1 .. Stored PROVE Contents'[k] = Append(Contents, v)[k]
  <2>1. k - 1 \in 0 .. RB_CAPACITY - 1 /\ k - 1 # Stored /\ k \in 1 .. Stored'
    BY <1>3, <1>4
  <2>2. Slot(k) # head
    BY <1>3, <2>1, Apart DEF Slot
  <2>3. Slot(k) \in 0 .. RB_CAPACITY - 1
    <3>1. tail + (k - 1) \in Nat
      BY <1>3
    <3>2. QED
      BY <1>3, <3>1, WrapInRange DEF Slot
  <2>4. (tail' + (k - 1)) % RB_CAPACITY = Slot(k)
    BY <1>3 DEF Slot
  <2>5. data'[Slot(k)] = data[Slot(k)]
    BY <1>3, <2>2, <2>3
  <2>6. QED
    BY <1>1, <1>2, <1>5, <2>1, <2>4, <2>5
<1>7. Contents'[Stored + 1] = v
  <2>1. Stored + 1 \in 1 .. Stored' /\ (Stored + 1) - 1 = Stored
    BY <1>3, <1>4
  <2>2. (tail' + ((Stored + 1) - 1)) % RB_CAPACITY = head
    BY <1>3, <2>1
  <2>3. Contents'[Stored + 1] = data'[head]
    BY <1>2, <2>1, <2>2
  <2>4. QED
    BY <1>3, <2>3
<1>8. \A k \in 1 .. Stored + 1 : Contents'[k] = Append(Contents, v)[k]
  BY <1>3, <1>5, <1>6, <1>7
<1>9. QED
  BY <1>2, <1>4, <1>5, <1>8, SeqEqual

(* A pop returns the first of the contents and leaves the rest. *)
LEMMA PopTakesHead ==
    ASSUME Inv, Inv', PopTaken
    PROVE  /\ Contents # <<>>
           /\ out' = Head(Contents)
           /\ Contents' = Tail(Contents)
<1>1. /\ Contents \in Seq(Value) /\ Len(Contents) = Stored
      /\ \A k \in 1 .. Stored : Contents[k] = data[Slot(k)]
  BY ContentsIsSeq DEF ContentsOK
<1>2. /\ Contents' \in Seq(Value) /\ Len(Contents') = Stored'
      /\ \A k \in 1 .. Stored' : Contents'[k] = data'[(tail' + (k - 1)) % RB_CAPACITY]
  <2>1. ContentsOK'
    BY ContentsIsSeq, PTL
  <2>2. QED
    BY <2>1 DEF ContentsOK, Slot
<1>3. /\ RB_CAPACITY \in Nat \ {0}
      /\ head \in 0 .. RB_CAPACITY - 1 /\ tail \in 0 .. RB_CAPACITY - 1
      /\ Stored \in 1 .. RB_CAPACITY - 1
      /\ head' = head /\ data' = data /\ out' = data[tail]
      /\ tail' = (tail + 1) % RB_CAPACITY
  BY InvFacts, EmptyAndFull DEF PopTaken
<1>4. Stored' = Stored - 1
  <2>1. tail' = IF tail + 1 = RB_CAPACITY THEN 0 ELSE tail + 1
    BY <1>3, NextIndex
  <2>2. head # tail
    BY DEF PopTaken, is_empty
  <2>3. QED
    BY <1>3, <2>1, <2>2 DEF Stored
<1>5. Contents # <<>>
  BY <1>1, <1>3
<1>6. /\ Tail(Contents) \in Seq(Value) /\ Len(Tail(Contents)) = Stored - 1
      /\ \A k \in 1 .. Stored - 1 : Tail(Contents)[k] = Contents[k + 1]
  BY <1>1, <1>5, HeadTailProperties
<1>7. out' = Head(Contents)
  <2>1. Slot(1) = tail
    <3>1. tail + (1 - 1) = tail /\ tail % RB_CAPACITY = tail
      BY <1>3, WrapOnce
    <3>2. QED
      BY <3>1 DEF Slot
  <2>2. Contents[1] = data[tail]
    BY <1>1, <1>3, <2>1
  <2>3. QED
    BY <1>1, <1>3, <1>5, <2>2
<1>8. ASSUME NEW k \in 1 .. Stored - 1 PROVE Contents'[k] = Tail(Contents)[k]
  <2>1. /\ k - 1 \in 0 .. RB_CAPACITY - 1 /\ k \in 1 .. Stored'
        /\ k + 1 \in 1 .. Stored /\ tail + (k - 1) + 1 = tail + ((k + 1) - 1)
    BY <1>3, <1>4
  <2>2. (tail' + (k - 1)) % RB_CAPACITY = (tail + (k - 1) + 1) % RB_CAPACITY
    BY <1>3, <2>1, SumOfNext
  <2>3. (tail' + (k - 1)) % RB_CAPACITY = Slot(k + 1)
    BY <2>1, <2>2 DEF Slot
  <2>4. QED
    BY <1>1, <1>2, <1>3, <1>6, <2>1, <2>3
<1>9. QED
  <2>1. Contents' = Tail(Contents)
    BY <1>2, <1>4, <1>6, <1>8, SeqEqual
  <2>2. QED
    BY <1>5, <1>7, <2>1

(* Every step of the ring is a step of the bounded FIFO with one place     *)
(* less than the array has slots, for every array size.                    *)
THEOREM UartRefinesFifo == Spec => ImplementsFifo
<1>1. Init => Fifo!Init
  <2> SUFFICES ASSUME Init PROVE Contents = <<>>
    BY DEF Init, Fifo!Init
  <2>1. Inv /\ Stored = 0
    BY InitInv DEF Init, Stored
  <2>2. QED
    BY <2>1, ContentsIsSeq DEF ContentsOK
<1>2. Inv /\ Inv' /\ [Next]_vars => [Fifo!Next]_(Fifo!vars)
  <2> SUFFICES ASSUME Inv, Inv', [Next]_vars
               PROVE  Fifo!Next \/ UNCHANGED <<Contents, out, answer>>
    BY DEF Fifo!vars
  <2>0. /\ RB_CAPACITY \in Nat \ {0} /\ Stored \in 0 .. RB_CAPACITY - 1
        /\ Len(Contents) = Stored
        /\ Stored = 0 <=> Contents = <<>>
        /\ is_empty <=> Stored = 0
        /\ is_full <=> Stored = RB_CAPACITY - 1
    BY ContentsIsSeq, InvFacts, EmptyAndFull DEF ContentsOK
  <2>1. ASSUME NEW v \in Value, PushStored(v) PROVE Fifo!Next
    <3>1. Len(Contents) < RB_CAPACITY - 1
      BY <2>0, <2>1 DEF PushStored
    <3>2. Contents' = Append(Contents, v)
      BY <2>1, PushAppends
    <3>3. Fifo!Push(v)
      BY <2>1, <3>1, <3>2 DEF PushStored, Fifo!Push
    <3>4. QED
      BY <3>3 DEF Fifo!Next
  <2>2. CASE PopTaken
    <3>1. Fifo!Pop
      BY <2>2, PopTakesHead DEF PopTaken, Fifo!Pop
    <3>2. QED
      BY <3>1 DEF Fifo!Next
  <2>3. CASE PushDropped
    <3>1. Contents' = Contents /\ (Len(Contents) < RB_CAPACITY - 1) = FALSE
      BY <2>0, <2>3 DEF PushDropped, Contents, Stored
    <3>2. answer' = <<"push", Len(Contents) < RB_CAPACITY - 1>> /\ UNCHANGED out
      BY <2>3, <3>1 DEF PushDropped
    <3>3. Fifo!Push(out)
      BY <3>1, <3>2 DEF Fifo!Push
    <3>4. QED
      BY <3>3 DEF Fifo!Next, Inv, TypeOK
  <2>4. CASE PopRefused
    <3>1. Fifo!Pop
      BY <2>0, <2>4 DEF PopRefused, Contents, Stored, Fifo!Pop
    <3>2. QED
      BY <3>1 DEF Fifo!Next
  <2>5. CASE NullArgument
    <3>1. Fifo!NullArgument
      BY <2>5 DEF NullArgument, Contents, Stored, Fifo!NullArgument
    <3>2. QED
      BY <3>1 DEF Fifo!Next
  <2>6. CASE Reinit
    <3>1. ContentsOK'
      BY ContentsIsSeq, PTL
    <3>2. Contents' = <<>>
      BY <2>6, <3>1 DEF Reinit, ContentsOK, Stored
    <3>3. Fifo!Reset
      BY <2>6, <3>2 DEF Reinit, Fifo!Reset
    <3>4. QED
      BY <3>3 DEF Fifo!Next
  <2>7. CASE UNCHANGED vars
    BY <2>7 DEF vars, Contents, Stored
  <2>8. QED
    BY <2>1, <2>2, <2>3, <2>4, <2>5, <2>6, <2>7 DEF Next
<1>3. Spec => []Inv
  BY InitInv, NextInv, PTL DEF Spec
<1>4. QED
  BY <1>1, <1>2, <1>3, PTL DEF Spec, ImplementsFifo, Fifo!Spec

-----------------------------------------------------------------------------
(* RingQueue: the index invariant, and that the ring implements the        *)
(* bounded FIFO.                                                           *)

QueueInv == Queue!TypeOK /\ Queue!CountTellsTail

LEMMA QueueInitInv == Queue!Init => QueueInv
<1> SUFFICES ASSUME Queue!Init PROVE QueueInv
  OBVIOUS
<1>1. QUEUE_CAPACITY \in Nat \ {0} /\ 0 % QUEUE_CAPACITY = 0
  BY QueueCapacityAssumption, WrapOnce DEF QueueCapacityAssumption
<1>2. QED
  BY <1>1 DEF Queue!Init, QueueInv, Queue!TypeOK, Queue!CountTellsTail, Queue!Index

LEMMA QueueNextInv == QueueInv /\ [Queue!Next]_(Queue!vars) => QueueInv'
<1> SUFFICES ASSUME QueueInv, [Queue!Next]_(Queue!vars) PROVE QueueInv'
  OBVIOUS
<1>0. /\ QUEUE_CAPACITY \in Nat \ {0}
      /\ q_head \in 0 .. QUEUE_CAPACITY - 1 /\ q_tail \in 0 .. QUEUE_CAPACITY - 1
      /\ q_count \in 0 .. QUEUE_CAPACITY
      /\ q_tail = (q_head + q_count) % QUEUE_CAPACITY
  BY QueueCapacityAssumption
     DEF QueueCapacityAssumption, QueueInv, Queue!TypeOK, Queue!CountTellsTail, Queue!Index
<1>1. ASSUME NEW v \in Value, Queue!PushStored(v) PROVE QueueInv'
  <2>1. q_count \in 0 .. QUEUE_CAPACITY - 1
    BY <1>0, <1>1 DEF Queue!PushStored, Queue!is_full
  <2>2. (q_tail + 1) % QUEUE_CAPACITY = (q_head + q_count + 1) % QUEUE_CAPACITY
    BY <1>0, <2>1, NextOfSum
  <2>3. (q_tail + 1) % QUEUE_CAPACITY \in Queue!Index
    BY <1>0, WrapInRange DEF Queue!Index
  <2>4. q_head + q_count' = q_head + q_count + 1 /\ q_count' \in 0 .. QUEUE_CAPACITY
    BY <1>0, <1>1, <2>1 DEF Queue!PushStored
  <2>5. Queue!TypeOK'
    BY <1>1, <2>3, <2>4 DEF Queue!PushStored, QueueInv, Queue!TypeOK
  <2>6. Queue!CountTellsTail'
    BY <1>1, <2>2, <2>4 DEF Queue!PushStored, Queue!CountTellsTail
  <2>7. QED
    BY <2>5, <2>6 DEF QueueInv
<1>2. CASE Queue!PopTaken
  <2>1. q_count - 1 \in 0 .. QUEUE_CAPACITY - 1
    BY <1>0, <1>2 DEF Queue!PopTaken, Queue!is_empty
  <2>2. (((q_head + 1) % QUEUE_CAPACITY) + (q_count - 1)) % QUEUE_CAPACITY
        = (q_head + (q_count - 1) + 1) % QUEUE_CAPACITY
    BY <1>0, <2>1, SumOfNext
  <2>3. q_head + (q_count - 1) + 1 = q_head + q_count
    BY <1>0
  <2>4. (q_head + 1) % QUEUE_CAPACITY \in Queue!Index
    BY <1>0, WrapInRange DEF Queue!Index
  <2>5. q_count' \in 0 .. QUEUE_CAPACITY
    BY <1>0, <1>2, <2>1 DEF Queue!PopTaken
  <2>6. q_data[q_head] \in Value
    BY <1>0 DEF QueueInv, Queue!TypeOK, Queue!Index
  <2>7. Queue!TypeOK'
    BY <1>2, <2>4, <2>5, <2>6 DEF Queue!PopTaken, QueueInv, Queue!TypeOK
  <2>8. Queue!CountTellsTail'
    BY <1>0, <1>2, <2>2, <2>3 DEF Queue!PopTaken, Queue!CountTellsTail
  <2>9. QED
    BY <2>7, <2>8 DEF QueueInv
<1>3. CASE Queue!PeekTaken
  BY <1>0, <1>3 DEF Queue!PeekTaken, QueueInv, Queue!TypeOK, Queue!CountTellsTail, Queue!Index
<1>4. CASE Queue!PushRefused \/ Queue!PopRefused \/ Queue!PeekRefused \/ Queue!NullArgument
  BY <1>4 DEF Queue!PushRefused, Queue!PopRefused, Queue!PeekRefused, Queue!NullArgument,
              QueueInv, Queue!TypeOK, Queue!CountTellsTail
<1>5. CASE Queue!Reinit
  <2>1. 0 % QUEUE_CAPACITY = 0
    BY <1>0, WrapOnce
  <2>2. QED
    BY <1>0, <1>5, <2>1 DEF Queue!Reinit, QueueInv, Queue!TypeOK, Queue!CountTellsTail, Queue!Index
<1>6. CASE UNCHANGED Queue!vars
  BY <1>6 DEF Queue!vars, QueueInv, Queue!TypeOK, Queue!CountTellsTail
<1>7. QED
  BY <1>1, <1>2, <1>3, <1>4, <1>5, <1>6 DEF Queue!Next, Queue!Push, Queue!Pop, Queue!Peek

(* The indices stay in the array and the count within the capacity. *)
THEOREM QueueTypeCorrect == Queue!Spec => []Queue!TypeOK
<1>1. QueueInv => Queue!TypeOK
  BY DEF QueueInv
<1>2. QED
  BY QueueInitInv, QueueNextInv, <1>1, PTL DEF Queue!Spec

(* The redundant field count agrees with the two indices in every state. *)
THEOREM CountTellsTailHolds == Queue!Spec => []Queue!CountTellsTail
<1>1. QueueInv => Queue!CountTellsTail
  BY DEF QueueInv
<1>2. QED
  BY QueueInitInv, QueueNextInv, <1>1, PTL DEF Queue!Spec

-----------------------------------------------------------------------------
(* Refinement *)

(* The slot that holds the k-th oldest value. *)
QueueSlot(k) == (q_head + (k - 1)) % QUEUE_CAPACITY

LEMMA QueueFacts ==
    ASSUME QueueInv
    PROVE  /\ QUEUE_CAPACITY \in Nat \ {0}
           /\ q_head \in 0 .. QUEUE_CAPACITY - 1 /\ q_tail \in 0 .. QUEUE_CAPACITY - 1
           /\ q_count \in 0 .. QUEUE_CAPACITY
           /\ q_tail = (q_head + q_count) % QUEUE_CAPACITY
           /\ q_data \in [0 .. QUEUE_CAPACITY - 1 -> Value]
  BY QueueCapacityAssumption
     DEF QueueCapacityAssumption, QueueInv, Queue!TypeOK, Queue!CountTellsTail, Queue!Index

QueueContentsOK ==
    /\ Queue!Contents \in Seq(Value)
    /\ Len(Queue!Contents) = q_count
    /\ q_count = 0 <=> Queue!Contents = <<>>
    /\ \A k \in 1 .. q_count : Queue!Contents[k] = q_data[QueueSlot(k)]

LEMMA QueueContentsIsSeq == QueueInv => QueueContentsOK
<1> SUFFICES ASSUME QueueInv PROVE QueueContentsOK
  OBVIOUS
<1>1. ASSUME NEW k \in 1 .. q_count
      PROVE  q_head + k - 1 = q_head + (k - 1) /\ q_data[QueueSlot(k)] \in Value
  <2>1. q_head + (k - 1) \in Nat /\ q_head + k - 1 = q_head + (k - 1)
    BY QueueFacts
  <2>2. QueueSlot(k) \in 0 .. QUEUE_CAPACITY - 1
    BY <2>1, QueueFacts, WrapInRange DEF QueueSlot
  <2>3. QED
    BY <2>1, <2>2, QueueFacts
<1>2. Queue!Contents = [k \in 1 .. q_count |-> q_data[QueueSlot(k)]]
  BY <1>1 DEF Queue!Contents, QueueSlot
<1>3. Queue!Contents \in [1 .. q_count -> Value]
  BY <1>1, <1>2
<1>4. q_count \in Nat
  BY QueueFacts
<1>5. Queue!Contents \in Seq(Value) /\ Len(Queue!Contents) = q_count
  BY <1>3, <1>4
<1>6. QED
  BY <1>2, <1>5, EmptySeq, LenProperties DEF QueueContentsOK

LEMMA QueueFirstSlot == ASSUME QueueInv PROVE QueueSlot(1) = q_head
<1>1. /\ q_head + (1 - 1) = q_head
      /\ QUEUE_CAPACITY \in Nat \ {0} /\ q_head \in 0 .. QUEUE_CAPACITY - 1
  BY QueueFacts
<1>2. q_head % QUEUE_CAPACITY = q_head
  BY <1>1, WrapOnce
<1>3. QED
  BY <1>1, <1>2 DEF QueueSlot

(* A stored value becomes the last of the contents. *)
LEMMA QueuePushAppends ==
    ASSUME QueueInv, QueueInv', NEW v \in Value, Queue!PushStored(v)
    PROVE  Queue!Contents' = Append(Queue!Contents, v)
<1>1. /\ Queue!Contents \in Seq(Value) /\ Len(Queue!Contents) = q_count
      /\ \A k \in 1 .. q_count : Queue!Contents[k] = q_data[QueueSlot(k)]
  BY QueueContentsIsSeq DEF QueueContentsOK
<1>2. /\ Queue!Contents' \in Seq(Value) /\ Len(Queue!Contents') = q_count'
      /\ \A k \in 1 .. q_count' :
            Queue!Contents'[k] = q_data'[(q_head' + (k - 1)) % QUEUE_CAPACITY]
  <2>1. QueueContentsOK'
    BY QueueContentsIsSeq, PTL
  <2>2. QED
    BY <2>1 DEF QueueContentsOK, QueueSlot
<1>3. /\ QUEUE_CAPACITY \in Nat \ {0}
      /\ q_head \in 0 .. QUEUE_CAPACITY - 1 /\ q_tail \in 0 .. QUEUE_CAPACITY - 1
      /\ q_tail = (q_head + q_count) % QUEUE_CAPACITY
      /\ q_data \in [0 .. QUEUE_CAPACITY - 1 -> Value]
      /\ q_count \in 0 .. QUEUE_CAPACITY - 1
      /\ q_count' = q_count + 1 /\ q_head' = q_head /\ q_data' = [q_data EXCEPT ![q_tail] = v]
  BY QueueFacts DEF Queue!PushStored, Queue!is_full
<1>4. /\ Append(Queue!Contents, v) \in Seq(Value)
      /\ Len(Append(Queue!Contents, v)) = q_count + 1
      /\ \A k \in 1 .. q_count : Append(Queue!Contents, v)[k] = Queue!Contents[k]
      /\ Append(Queue!Contents, v)[q_count + 1] = v
  BY <1>1, AppendProperties
<1>5. ASSUME NEW k \in 1 .. q_count PROVE Queue!Contents'[k] = Append(Queue!Contents, v)[k]
  <2>1. k - 1 \in 0 .. QUEUE_CAPACITY - 1 /\ k - 1 # q_count /\ k \in 1 .. q_count'
    BY <1>3
  <2>2. QueueSlot(k) # q_tail
    BY <1>3, <2>1, Apart DEF QueueSlot
  <2>3. QueueSlot(k) \in 0 .. QUEUE_CAPACITY - 1
    <3>1. q_head + (k - 1) \in Nat
      BY <1>3
    <3>2. QED
      BY <1>3, <3>1, WrapInRange DEF QueueSlot
  <2>4. (q_head' + (k - 1)) % QUEUE_CAPACITY = QueueSlot(k)
    BY <1>3 DEF QueueSlot
  <2>5. q_data'[QueueSlot(k)] = q_data[QueueSlot(k)]
    BY <1>3, <2>2, <2>3
  <2>6. QED
    BY <1>1, <1>2, <1>4, <2>1, <2>4, <2>5
<1>6. Queue!Contents'[q_count + 1] = v
  <2>1. q_count + 1 \in 1 .. q_count' /\ (q_count + 1) - 1 = q_count
    BY <1>3
  <2>2. (q_head' + ((q_count + 1) - 1)) % QUEUE_CAPACITY = q_tail
    BY <1>3, <2>1
  <2>3. Queue!Contents'[q_count + 1] = q_data'[q_tail]
    BY <1>2, <2>1, <2>2
  <2>4. QED
    BY <1>3, <2>3
<1>7. \A k \in 1 .. q_count + 1 : Queue!Contents'[k] = Append(Queue!Contents, v)[k]
  BY <1>3, <1>4, <1>5, <1>6
<1>8. QED
  BY <1>2, <1>3, <1>4, <1>7, SeqEqual

(* A pop returns the first of the contents and leaves the rest. *)
LEMMA QueuePopTakesHead ==
    ASSUME QueueInv, QueueInv', Queue!PopTaken
    PROVE  /\ Queue!Contents # <<>>
           /\ q_out' = Head(Queue!Contents)
           /\ Queue!Contents' = Tail(Queue!Contents)
<1>1. /\ Queue!Contents \in Seq(Value) /\ Len(Queue!Contents) = q_count
      /\ \A k \in 1 .. q_count : Queue!Contents[k] = q_data[QueueSlot(k)]
  BY QueueContentsIsSeq DEF QueueContentsOK
<1>2. /\ Queue!Contents' \in Seq(Value) /\ Len(Queue!Contents') = q_count'
      /\ \A k \in 1 .. q_count' :
            Queue!Contents'[k] = q_data'[(q_head' + (k - 1)) % QUEUE_CAPACITY]
  <2>1. QueueContentsOK'
    BY QueueContentsIsSeq, PTL
  <2>2. QED
    BY <2>1 DEF QueueContentsOK, QueueSlot
<1>3. /\ QUEUE_CAPACITY \in Nat \ {0}
      /\ q_head \in 0 .. QUEUE_CAPACITY - 1
      /\ q_count \in 1 .. QUEUE_CAPACITY
      /\ q_count' = q_count - 1 /\ q_data' = q_data /\ q_out' = q_data[q_head]
      /\ q_head' = (q_head + 1) % QUEUE_CAPACITY
  BY QueueFacts DEF Queue!PopTaken, Queue!is_empty
<1>4. Queue!Contents # <<>>
  BY <1>1, <1>3
<1>5. /\ Tail(Queue!Contents) \in Seq(Value) /\ Len(Tail(Queue!Contents)) = q_count - 1
      /\ \A k \in 1 .. q_count - 1 : Tail(Queue!Contents)[k] = Queue!Contents[k + 1]
  BY <1>1, <1>4, HeadTailProperties
<1>6. q_out' = Head(Queue!Contents)
  <2>1. Queue!Contents[1] = q_data[q_head]
    BY QueueFacts, QueueFirstSlot, <1>1, <1>3
  <2>2. QED
    BY <1>1, <1>3, <1>4, <2>1
<1>7. ASSUME NEW k \in 1 .. q_count - 1 PROVE Queue!Contents'[k] = Tail(Queue!Contents)[k]
  <2>1. /\ k - 1 \in 0 .. QUEUE_CAPACITY - 1 /\ k \in 1 .. q_count'
        /\ k + 1 \in 1 .. q_count /\ q_head + (k - 1) + 1 = q_head + ((k + 1) - 1)
    BY <1>3
  <2>2. (q_head' + (k - 1)) % QUEUE_CAPACITY = (q_head + (k - 1) + 1) % QUEUE_CAPACITY
    BY <1>3, <2>1, SumOfNext
  <2>3. (q_head' + (k - 1)) % QUEUE_CAPACITY = QueueSlot(k + 1)
    BY <2>1, <2>2 DEF QueueSlot
  <2>4. QED
    BY <1>1, <1>2, <1>3, <1>5, <2>1, <2>3
<1>8. Queue!Contents' = Tail(Queue!Contents)
  BY <1>2, <1>3, <1>5, <1>7, SeqEqual
<1>9. QED
  BY <1>4, <1>6, <1>8

(* Every step of the ring is a step of the bounded FIFO with the same      *)
(* answer, for every capacity: full and empty are told apart by the count, *)
(* no slot is wasted, and refused calls change nothing.                    *)
THEOREM QueueRefinesFifo == Queue!Spec => Queue!ImplementsFifo
<1>1. Queue!Init => Queue!Fifo!Init
  <2> SUFFICES ASSUME Queue!Init PROVE Queue!Contents = <<>>
    BY DEF Queue!Init, Queue!Fifo!Init
  <2>1. QueueInv
    BY QueueInitInv
  <2>2. QED
    BY <2>1, QueueContentsIsSeq DEF Queue!Init, QueueContentsOK
<1>2. QueueInv /\ QueueInv' /\ [Queue!Next]_(Queue!vars)
        => [Queue!Fifo!Next]_(Queue!Fifo!vars)
  <2> SUFFICES ASSUME QueueInv, QueueInv', [Queue!Next]_(Queue!vars)
               PROVE  Queue!Fifo!Next \/ UNCHANGED <<Queue!Contents, q_out, q_answer>>
    BY DEF Queue!Fifo!vars
  <2>0. /\ QUEUE_CAPACITY \in Nat \ {0}
        /\ Len(Queue!Contents) = q_count /\ q_count \in 0 .. QUEUE_CAPACITY
        /\ q_count = 0 <=> Queue!Contents = <<>>
        /\ Queue!Contents \in Seq(Value)
    BY QueueContentsIsSeq, QueueFacts DEF QueueContentsOK
  <2>1. ASSUME NEW v \in Value, Queue!PushStored(v) PROVE Queue!Fifo!Next
    <3>1. Len(Queue!Contents) < QUEUE_CAPACITY
      BY <2>0, <2>1 DEF Queue!PushStored, Queue!is_full
    <3>2. Queue!Contents' = Append(Queue!Contents, v)
      BY <2>1, QueuePushAppends
    <3>3. Queue!Fifo!Push(v)
      BY <2>1, <3>1, <3>2 DEF Queue!PushStored, Queue!Fifo!Push
    <3>4. QED
      BY <3>3 DEF Queue!Fifo!Next
  <2>2. CASE Queue!PopTaken
    <3>1. Queue!Fifo!Pop
      BY <2>2, QueuePopTakesHead DEF Queue!PopTaken, Queue!Fifo!Pop
    <3>2. QED
      BY <3>1 DEF Queue!Fifo!Next
  <2>3. CASE Queue!PeekTaken
    <3>1. Queue!Contents' = Queue!Contents
      BY <2>3 DEF Queue!PeekTaken, Queue!Contents
    <3>2. q_count # 0 /\ Head(Queue!Contents) = q_data[q_head]
      <4>1. q_count # 0 /\ 1 \in 1 .. q_count
        BY <2>0, <2>3 DEF Queue!PeekTaken, Queue!is_empty
      <4>2. Queue!Contents[1] = q_data[q_head]
        BY <4>1, QueueContentsIsSeq, QueueFirstSlot DEF QueueContentsOK
      <4>3. QED
        BY <2>0, <4>1, <4>2
    <3>3. Queue!Fifo!Peek
      BY <2>0, <2>3, <3>1, <3>2 DEF Queue!PeekTaken, Queue!Fifo!Peek
    <3>4. QED
      BY <3>3 DEF Queue!Fifo!Next
  <2>4. CASE Queue!PushRefused
    <3>1. Queue!Contents' = Queue!Contents /\ (Len(Queue!Contents) < QUEUE_CAPACITY) = FALSE
      BY <2>0, <2>4 DEF Queue!PushRefused, Queue!is_full, Queue!Contents
    <3>2. q_answer' = <<"push", Len(Queue!Contents) < QUEUE_CAPACITY>> /\ UNCHANGED q_out
      BY <2>4, <3>1 DEF Queue!PushRefused
    <3>3. Queue!Fifo!Push(q_out)
      BY <3>1, <3>2 DEF Queue!Fifo!Push
    <3>4. QED
      BY <3>3 DEF Queue!Fifo!Next, QueueInv, Queue!TypeOK
  <2>5. CASE Queue!PopRefused
    <3>1. Queue!Fifo!Pop
      BY <2>0, <2>5 DEF Queue!PopRefused, Queue!is_empty, Queue!Contents, Queue!Fifo!Pop
    <3>2. QED
      BY <3>1 DEF Queue!Fifo!Next
  <2>6. CASE Queue!PeekRefused
    <3>1. Queue!Fifo!Peek
      BY <2>0, <2>6 DEF Queue!PeekRefused, Queue!is_empty, Queue!Contents, Queue!Fifo!Peek
    <3>2. QED
      BY <3>1 DEF Queue!Fifo!Next
  <2>7. CASE Queue!NullArgument
    <3>1. Queue!Fifo!NullArgument
      BY <2>7 DEF Queue!NullArgument, Queue!Contents, Queue!Fifo!NullArgument
    <3>2. QED
      BY <3>1 DEF Queue!Fifo!Next
  <2>8. CASE Queue!Reinit
    <3>1. QueueContentsOK'
      BY QueueContentsIsSeq, PTL
    <3>2. Queue!Contents' = <<>>
      BY <2>8, <3>1 DEF Queue!Reinit, QueueContentsOK
    <3>3. Queue!Fifo!Reset
      BY <2>8, <3>2 DEF Queue!Reinit, Queue!Fifo!Reset
    <3>4. QED
      BY <3>3 DEF Queue!Fifo!Next
  <2>9. CASE UNCHANGED Queue!vars
    BY <2>9 DEF Queue!vars, Queue!Contents
  <2>10. QED
    BY <2>1, <2>2, <2>3, <2>4, <2>5, <2>6, <2>7, <2>8, <2>9
       DEF Queue!Next, Queue!Push, Queue!Pop, Queue!Peek
<1>3. Queue!Spec => []QueueInv
  BY QueueInitInv, QueueNextInv, PTL DEF Queue!Spec
<1>4. QED
  BY <1>1, <1>2, <1>3, PTL DEF Queue!Spec, Queue!ImplementsFifo, Queue!Fifo!Spec

-----------------------------------------------------------------------------
(* AckTracker.  The thread inside holds the mutex, and a receiver that is  *)
(* about to accept has seen the wait for its own number, which nobody can  *)
(* end before it.  Only inside start() can the number that is compared not *)
(* be the one that is awaited.                                             *)

TrackerLabels == {"out", "start", "started", "ack", "accept", "query"}

TrackerTyping == /\ t_mutex_ \in Tracker!Threads \cup {Nobody}
                 /\ t_pc \in [Tracker!Threads -> TrackerLabels]
                 /\ t_seq \in [Tracker!Threads -> {1, 2}]

TrackerLocking ==
    \A t \in Tracker!Threads :
        /\ t_pc[t] # "out" => t_mutex_ = t
        /\ t_pc[t] = "started" => t_expected_seq_ = t_seq[t]
        /\ t_pc[t] = "accept" => t_waiting_ /\ t_awaited = <<t_seq[t]>>

TrackerNumber ==
    t_waiting_ => \/ t_awaited = <<t_expected_seq_>>
                  \/ t_awaited # <<>> /\ \E t \in Tracker!Threads : t_pc[t] = "started"

TrackerCount == IF t_waiting_ THEN t_winners = <<>> ELSE t_winners = t_awaited

TrackerInv == TrackerTyping /\ TrackerLocking /\ TrackerNumber /\ TrackerCount

LEMMA TrackerInitInv == Tracker!Init => TrackerInv
  BY DEF Tracker!Init, TrackerInv, TrackerTyping, TrackerLocking, TrackerNumber,
         TrackerCount, TrackerLabels

LEMMA TrackerNextInv == TrackerInv /\ [Tracker!Next]_(Tracker!vars) => TrackerInv'
<1> SUFFICES ASSUME TrackerInv, [Tracker!Next]_(Tracker!vars) PROVE TrackerInv'
  OBVIOUS
<1>0. Nobody \notin Tracker!Threads
  BY ContainerAssumption DEF ContainerAssumption, Tracker!ConstantsOK
<1> USE DEF TrackerInv, TrackerTyping, TrackerLocking, TrackerNumber, TrackerCount,
            TrackerLabels, Tracker!Goto, Tracker!Unlock, Tracker!Lock
<1>1. ASSUME NEW t \in Tracker!Threads, NEW l \in {"start", "ack", "query"},
             Tracker!Enter(t, l)
      PROVE  TrackerInv'
  <2>1. /\ t_pc[t] = "out" /\ t_mutex_ = Nobody /\ t_mutex_' = t
        /\ t_pc' = [t_pc EXCEPT ![t] = l]
        /\ UNCHANGED <<t_waiting_, t_expected_seq_, t_awaited, t_winners>>
    BY <1>1 DEF Tracker!Enter
  <2>2. \A u \in Tracker!Threads : t_pc[u] = "out"
    BY <1>0, <2>1
  <2>3. PICK s \in {1, 2} : t_seq' = [t_seq EXCEPT ![t] = s]
    BY <1>1 DEF Tracker!Enter
  <2>4. TrackerTyping' /\ TrackerCount'
    BY <2>1, <2>3
  <2>5. \A u \in Tracker!Threads : /\ t_pc'[u] # "out" => u = t
                                    /\ t_pc'[u] \notin {"started", "accept"}
    BY <2>1, <2>2
  <2>6. TrackerLocking'
    BY <2>1, <2>5
  <2>7. TrackerNumber'
    BY <2>1, <2>2
  <2>8. QED
    BY <2>4, <2>6, <2>7
<1>2. ASSUME NEW t \in Tracker!Threads, Tracker!StartSeq(t) PROVE TrackerInv'
  BY <1>0, <1>2 DEF Tracker!StartSeq
<1>3. ASSUME NEW t \in Tracker!Threads, Tracker!StartWaiting(t) PROVE TrackerInv'
  BY <1>0, <1>3 DEF Tracker!StartWaiting
<1>4. ASSUME NEW t \in Tracker!Threads, Tracker!AckRefuse(t) PROVE TrackerInv'
  BY <1>0, <1>4 DEF Tracker!AckRefuse
<1>5. ASSUME NEW t \in Tracker!Threads, Tracker!AckTest(t) PROVE TrackerInv'
  BY <1>0, <1>5 DEF Tracker!AckTest, Tracker!IsAwaited
<1>6. ASSUME NEW t \in Tracker!Threads, Tracker!AckAccept(t) PROVE TrackerInv'
  BY <1>0, <1>6 DEF Tracker!AckAccept
<1>7. ASSUME NEW t \in Tracker!Threads, Tracker!is_waiting(t) PROVE TrackerInv'
  BY <1>0, <1>7 DEF Tracker!is_waiting
<1>8. CASE UNCHANGED Tracker!vars
  BY <1>8 DEF Tracker!vars
<1>9. QED
  <2> HIDE DEF TrackerInv
  <2>1. ASSUME NEW t \in Senders, Tracker!start(t) PROVE TrackerInv'
    BY <1>1, <1>2, <1>3, <2>1 DEF Tracker!start, Tracker!Threads
  <2>2. ASSUME NEW t \in Receivers, Tracker!on_ack(t) PROVE TrackerInv'
    BY <1>1, <1>4, <1>5, <1>6, <2>2 DEF Tracker!on_ack, Tracker!Threads
  <2>3. ASSUME NEW t \in Watchers, Tracker!Enter(t, "query") \/ Tracker!is_waiting(t)
        PROVE  TrackerInv'
    BY <1>1, <1>7, <2>3 DEF Tracker!Threads
  <2>4. QED
    BY <1>8, <2>1, <2>2, <2>3 DEF Tracker!Next

(* Every wait ends by exactly one ACK, and by one with the number that was *)
(* started, however many threads send and receive.                         *)
THEOREM TrackerIsRight == Tracker!Spec => []Tracker!WaitEndsByOneAck
<1>1. TrackerInv => Tracker!WaitEndsByOneAck
  BY DEF TrackerInv, TrackerCount, Tracker!WaitEndsByOneAck
<1>2. QED
  BY TrackerInitInv, TrackerNextInv, <1>1, PTL DEF Tracker!Spec

-----------------------------------------------------------------------------
(* SensorRing *)

LEMMA SensorConstants ==
    SENSOR_RING_CAPACITY \in Nat \ {0} /\ Zero \in Sample
  BY ContainerAssumption DEF ContainerAssumption, Sensor!ConstantsOK

(* One lap back at most. *)
LEMMA BackOnce ==
    \A n, a, d \in Nat : n > 0 /\ a < n /\ d <= n
                         => (a - d) % n = IF d <= a THEN a - d ELSE a - d + n
<1> SUFFICES ASSUME NEW n \in Nat, NEW a \in Nat, NEW d \in Nat, n > 0, a < n, d <= n
             PROVE  (a - d) % n = IF d <= a THEN a - d ELSE a - d + n
  OBVIOUS
<1>1. CASE d <= a
  BY <1>1
<1>2. CASE a < d
  <2> DEFINE b == d - a
  <2>1. b \in Nat /\ 0 < b /\ b <= n /\ a - d = -b
    BY <1>2
  <2> HIDE DEF b
  <2>2. (-b) % n = n - b
    BY <2>1
  <2>3. QED
    BY <1>2, <2>1, <2>2 DEF b
<1>3. QED
  BY <1>1, <1>2

LEMMA SensorInit == Sensor!Init => Sensor!TypeOK
  BY SensorConstants DEF Sensor!Init, Sensor!TypeOK, Sensor!Index

LEMMA SensorNext ==
    Sensor!TypeOK /\ [Sensor!Next]_(Sensor!vars) => Sensor!TypeOK'
<1> SUFFICES ASSUME Sensor!TypeOK, [Sensor!Next]_(Sensor!vars) PROVE Sensor!TypeOK'
  OBVIOUS
<1> USE SensorConstants DEF Sensor!TypeOK, Sensor!Index
<1>1. CASE Sensor!ring_buffer_init
  BY <1>1 DEF Sensor!ring_buffer_init
<1>2. CASE Sensor!NullArgument
  BY <1>2 DEF Sensor!NullArgument
<1>3. ASSUME NEW sample \in Sample, Sensor!ring_buffer_push(sample)
      PROVE  Sensor!TypeOK'
  <2>1. (s_write_index + 1) % SENSOR_RING_CAPACITY \in 0 .. SENSOR_RING_CAPACITY - 1
    BY WrapInRange
  <2>2. QED
    BY <1>3, <2>1 DEF Sensor!ring_buffer_push, Sensor!Counted
<1>4. ASSUME NEW i \in 0 .. SENSOR_RING_CAPACITY, Sensor!GetFound(i)
      PROVE  Sensor!TypeOK'
  <2>1. Sensor!oldest_index \in Nat
    <3>1. s_write_index + SENSOR_RING_CAPACITY - s_count \in Nat
      OBVIOUS
    <3>2. QED
      BY <3>1, WrapInRange DEF Sensor!oldest_index
  <2>2. Sensor!physical_index(i) \in 0 .. SENSOR_RING_CAPACITY - 1
    BY <2>1, WrapInRange DEF Sensor!physical_index
  <2>3. QED
    BY <1>4, <2>2 DEF Sensor!GetFound
<1>5. ASSUME NEW i \in 0 .. SENSOR_RING_CAPACITY, Sensor!GetRefused(i)
      PROVE  Sensor!TypeOK'
  BY <1>5 DEF Sensor!GetRefused
<1>6. CASE UNCHANGED Sensor!vars
  BY <1>6 DEF Sensor!vars
<1>7. QED
  BY <1>1, <1>2, <1>3, <1>4, <1>5, <1>6 DEF Sensor!Next

(* The index never leaves the array, nor does a logical index it is asked. *)
THEOREM SensorTypeCorrect == Sensor!Spec => []Sensor!TypeOK
  BY SensorInit, SensorNext, PTL DEF Sensor!Spec

(* The slot written d samples ago, w being the write index. *)
Ago(w, d) == (w - d) % SENSOR_RING_CAPACITY

LEMMA SensorSlots ==
    ASSUME Sensor!TypeOK
    PROVE  /\ \A d \in 1 .. SENSOR_RING_CAPACITY :
                 /\ Ago(s_write_index, d) = IF d <= s_write_index THEN s_write_index - d
                                    ELSE s_write_index - d + SENSOR_RING_CAPACITY
                 /\ Ago(s_write_index, d) \in 0 .. SENSOR_RING_CAPACITY - 1
           /\ (s_write_index + 1) % SENSOR_RING_CAPACITY
                 = IF s_write_index + 1 < SENSOR_RING_CAPACITY THEN s_write_index + 1 ELSE 0
<1>0. /\ SENSOR_RING_CAPACITY \in Nat \ {0}
      /\ s_write_index \in Nat /\ s_write_index < SENSOR_RING_CAPACITY
  BY SensorConstants DEF Sensor!TypeOK, Sensor!Index
<1>1. ASSUME NEW d \in 1 .. SENSOR_RING_CAPACITY
      PROVE  Ago(s_write_index, d) = IF d <= s_write_index THEN s_write_index - d
                             ELSE s_write_index - d + SENSOR_RING_CAPACITY
  BY <1>0, BackOnce DEF Ago
<1>2. ASSUME NEW d \in 1 .. SENSOR_RING_CAPACITY
      PROVE  Ago(s_write_index, d) \in 0 .. SENSOR_RING_CAPACITY - 1
  BY <1>0, <1>1
<1>3. (s_write_index + 1) % SENSOR_RING_CAPACITY
        = IF s_write_index + 1 < SENSOR_RING_CAPACITY THEN s_write_index + 1
          ELSE s_write_index + 1 - SENSOR_RING_CAPACITY
  BY <1>0, WrapOnce
<1>4. QED
  BY <1>0, <1>1, <1>2, <1>3

(* The k-th oldest sample was written s_count + 1 - k samples ago. *)
SensorContentsOK ==
    /\ Sensor!Contents \in Seq(Sample)
    /\ Len(Sensor!Contents) = s_count
    /\ \A k \in 1 .. s_count :
          Sensor!Contents[k] = s_items[Ago(s_write_index, s_count + 1 - k)]

LEMMA SensorContents == Sensor!TypeOK => SensorContentsOK
<1> SUFFICES ASSUME Sensor!TypeOK PROVE SensorContentsOK
  OBVIOUS
<1>0. /\ SENSOR_RING_CAPACITY \in Nat \ {0} /\ s_count \in 0 .. SENSOR_RING_CAPACITY
      /\ s_items \in [0 .. SENSOR_RING_CAPACITY - 1 -> Sample]
  BY SensorConstants DEF Sensor!TypeOK, Sensor!Index
<1>1. ASSUME NEW k \in 1 .. s_count
      PROVE  s_items[Ago(s_write_index, s_count + 1 - k)] \in Sample
  <2>1. s_count + 1 - k \in 1 .. SENSOR_RING_CAPACITY
    BY <1>0
  <2>2. Ago(s_write_index, s_count + 1 - k) \in 0 .. SENSOR_RING_CAPACITY - 1
    BY <2>1, SensorSlots
  <2>3. QED
    BY <1>0, <2>2
<1>2. Sensor!Contents
        = [k \in 1 .. s_count |-> s_items[Ago(s_write_index, s_count + 1 - k)]]
  BY DEF Sensor!Contents, Ago
<1>3. Sensor!Contents \in [1 .. s_count -> Sample] /\ s_count \in Nat
  BY <1>0, <1>1, <1>2
<1>4. Sensor!Contents \in Seq(Sample) /\ Len(Sensor!Contents) = s_count
  BY <1>3
<1>5. QED
  BY <1>2, <1>4 DEF SensorContentsOK

(* A push makes every sample one older, and the slot it overwrites is the  *)
(* oldest one's when the ring is full.                                     *)
LEMMA SensorPushSlots ==
    ASSUME Sensor!TypeOK, Sensor!TypeOK', NEW sample \in Sample,
           Sensor!ring_buffer_push(sample)
    PROVE  /\ Ago(s_write_index', 1) = s_write_index
           /\ s_items'[s_write_index] = sample
           /\ \A d \in 1 .. SENSOR_RING_CAPACITY - 1 :
                 /\ Ago(s_write_index', d + 1) = Ago(s_write_index, d)
                 /\ s_items'[Ago(s_write_index, d)] = s_items[Ago(s_write_index, d)]
<1>0. /\ SENSOR_RING_CAPACITY \in Nat \ {0}
      /\ s_write_index \in 0 .. SENSOR_RING_CAPACITY - 1
      /\ s_items \in [0 .. SENSOR_RING_CAPACITY - 1 -> Sample]
      /\ s_write_index' \in 0 .. SENSOR_RING_CAPACITY - 1
      /\ s_items' = [s_items EXCEPT ![s_write_index] = sample]
      /\ s_write_index' = (s_write_index + 1) % SENSOR_RING_CAPACITY
  BY SensorConstants DEF Sensor!TypeOK, Sensor!Index, Sensor!ring_buffer_push
<1>1. /\ \A d \in 1 .. SENSOR_RING_CAPACITY :
            /\ Ago(s_write_index, d) = IF d <= s_write_index THEN s_write_index - d
                               ELSE s_write_index - d + SENSOR_RING_CAPACITY
            /\ Ago(s_write_index, d) \in 0 .. SENSOR_RING_CAPACITY - 1
      /\ s_write_index' = IF s_write_index + 1 < SENSOR_RING_CAPACITY
                          THEN s_write_index + 1 ELSE 0
  BY <1>0, SensorSlots
<1>2. \A d \in 1 .. SENSOR_RING_CAPACITY :
         Ago(s_write_index', d) = IF d <= s_write_index' THEN s_write_index' - d
                          ELSE s_write_index' - d + SENSOR_RING_CAPACITY
  <2>1. ASSUME NEW d \in 1 .. SENSOR_RING_CAPACITY
        PROVE  (s_write_index' - d) % SENSOR_RING_CAPACITY
                 = IF d <= s_write_index' THEN s_write_index' - d
                   ELSE s_write_index' - d + SENSOR_RING_CAPACITY
    BY <1>0, BackOnce
  <2>2. QED
    BY <2>1 DEF Ago
<1>3. Ago(s_write_index', 1) = s_write_index
  <2>1. 1 \in 1 .. SENSOR_RING_CAPACITY /\ SENSOR_RING_CAPACITY \in Nat
        /\ s_write_index \in 0 .. SENSOR_RING_CAPACITY - 1
    BY <1>0
  <2>2. Ago(s_write_index', 1) = IF 1 <= s_write_index' THEN s_write_index' - 1
                                 ELSE s_write_index' - 1 + SENSOR_RING_CAPACITY
    BY <1>2, <2>1
  <2>3. s_write_index' = IF s_write_index + 1 < SENSOR_RING_CAPACITY
                         THEN s_write_index + 1 ELSE 0
    BY <1>1
  <2>4. QED
    BY <2>1, <2>2, <2>3
<1>4. ASSUME NEW d \in 1 .. SENSOR_RING_CAPACITY - 1
      PROVE  /\ Ago(s_write_index', d + 1) = Ago(s_write_index, d)
             /\ s_items'[Ago(s_write_index, d)] = s_items[Ago(s_write_index, d)]
  <2>1. d \in 1 .. SENSOR_RING_CAPACITY /\ d + 1 \in 1 .. SENSOR_RING_CAPACITY
    BY <1>0
  <2>2. Ago(s_write_index', d + 1) = Ago(s_write_index, d)
    <3>1. /\ SENSOR_RING_CAPACITY \in Nat
          /\ s_write_index \in 0 .. SENSOR_RING_CAPACITY - 1
          /\ s_write_index' = IF s_write_index + 1 < SENSOR_RING_CAPACITY
                              THEN s_write_index + 1 ELSE 0
      BY <1>0, <1>1
    <3>2. Ago(s_write_index', d + 1)
            = IF d + 1 <= s_write_index' THEN s_write_index' - (d + 1)
              ELSE s_write_index' - (d + 1) + SENSOR_RING_CAPACITY
      BY <1>2, <2>1
    <3>3. Ago(s_write_index, d) = IF d <= s_write_index THEN s_write_index - d
                                  ELSE s_write_index - d + SENSOR_RING_CAPACITY
      BY <1>1, <2>1
    <3>4. QED
      BY <2>1, <3>1, <3>2, <3>3
  <2>3. /\ Ago(s_write_index, d) # s_write_index
        /\ Ago(s_write_index, d) \in 0 .. SENSOR_RING_CAPACITY - 1
    BY <1>0, <1>1, <1>4, <2>1
  <2>4. QED
    BY <1>0, <2>2, <2>3
<1>5. QED
  BY <1>0, <1>3, <1>4

LEMMA SensorPushSlides ==
    ASSUME Sensor!TypeOK, Sensor!TypeOK', NEW sample \in Sample,
           Sensor!ring_buffer_push(sample)
    PROVE  Sensor!Contents' = IF s_count < SENSOR_RING_CAPACITY
                              THEN Append(Sensor!Contents, sample)
                              ELSE Append(Tail(Sensor!Contents), sample)
<1> DEFINE C == Sensor!Contents
           n == SENSOR_RING_CAPACITY
<1>0. n \in Nat \ {0} /\ s_count \in 0 .. n
  BY SensorConstants DEF Sensor!TypeOK
<1>1. /\ C \in Seq(Sample) /\ Len(C) = s_count
      /\ \A k \in 1 .. s_count : C[k] = s_items[Ago(s_write_index, s_count + 1 - k)]
  BY SensorContents DEF SensorContentsOK
<1>2. /\ C' \in Seq(Sample) /\ Len(C') = s_count'
      /\ \A k \in 1 .. s_count' :
            C'[k] = s_items'[Ago(s_write_index', s_count' + 1 - k)]
  <2>1. SensorContentsOK'
    BY SensorContents, PTL
  <2>2. QED
    BY <2>1 DEF SensorContentsOK, Ago
<1>3. s_count' = IF s_count < n THEN s_count + 1 ELSE s_count
  BY DEF Sensor!ring_buffer_push, Sensor!Counted
<1>4. /\ Ago(s_write_index', 1) = s_write_index
      /\ s_items'[s_write_index] = sample
      /\ \A d \in 1 .. n - 1 :
            /\ Ago(s_write_index', d + 1) = Ago(s_write_index, d)
            /\ s_items'[Ago(s_write_index, d)] = s_items[Ago(s_write_index, d)]
  BY SensorPushSlots
(* The newest sample, and the ones before it. *)
<1>5. C'[s_count'] = sample
  <2>1. s_count' \in 1 .. s_count' /\ s_count' + 1 - s_count' = 1
    BY <1>0, <1>3
  <2>2. QED
    BY <1>2, <1>4, <2>1
<1>6. ASSUME NEW k \in 1 .. s_count' - 1
      PROVE  C'[k] = s_items[Ago(s_write_index, s_count' - k)]
  <2> DEFINE d == s_count' - k
  <2>1. d \in 1 .. n - 1 /\ k \in 1 .. s_count' /\ s_count' + 1 - k = d + 1
    BY <1>0, <1>3
  <2> HIDE DEF d
  <2>2. C'[k] = s_items'[Ago(s_write_index', d + 1)]
    BY <1>2, <2>1
  <2>3. C'[k] = s_items[Ago(s_write_index, d)]
    BY <1>4, <2>1, <2>2
  <2>4. QED
    BY <2>3 DEF d
<1> HIDE DEF C
<1>7. CASE s_count < n
  <2> DEFINE A == Append(C, sample)
  <2>1. /\ A \in Seq(Sample) /\ Len(A) = s_count + 1
        /\ \A k \in 1 .. s_count : A[k] = C[k]
        /\ A[s_count + 1] = sample
    BY <1>1, AppendProperties
  <2> HIDE DEF A
  <2>2. s_count' = s_count + 1
    BY <1>3, <1>7
  <2>3. ASSUME NEW k \in 1 .. s_count PROVE C'[k] = A[k]
    <3>1. k \in 1 .. s_count' - 1 /\ s_count' - k = s_count + 1 - k
      BY <1>0, <2>2
    <3>2. C'[k] = s_items[Ago(s_write_index, s_count + 1 - k)]
      BY <1>6, <3>1
    <3>3. QED
      BY <1>1, <2>1, <3>2
  <2>4. \A k \in 1 .. s_count + 1 : C'[k] = A[k]
    BY <1>0, <1>5, <2>1, <2>2, <2>3
  <2>5. C' = A
    BY <1>2, <2>1, <2>2, <2>4, SeqEqual
  <2>6. QED
    BY <1>7, <2>5 DEF A, C
<1>8. CASE s_count = n
  <2> DEFINE R == Tail(C)
             A == Append(R, sample)
  <2>1. /\ R \in Seq(Sample) /\ Len(R) = n - 1
        /\ \A k \in 1 .. n - 1 : R[k] = C[k + 1]
    BY <1>0, <1>1, <1>8, HeadTailProperties
  <2> HIDE DEF R
  <2>2. /\ A \in Seq(Sample) /\ Len(A) = n
        /\ \A k \in 1 .. n - 1 : A[k] = R[k]
        /\ A[n] = sample
    BY <1>0, <2>1, AppendProperties
  <2> HIDE DEF A
  <2>3. s_count' = n
    BY <1>0, <1>3, <1>8
  <2>4. ASSUME NEW k \in 1 .. n - 1 PROVE C'[k] = A[k]
    <3>1. k + 1 \in 1 .. s_count /\ s_count + 1 - (k + 1) = n - k
      BY <1>0, <1>8
    <3>2. C[k + 1] = s_items[Ago(s_write_index, n - k)]
      BY <1>1, <3>1
    <3>3. QED
      BY <1>6, <2>1, <2>2, <2>3, <3>2
  <2>5. \A k \in 1 .. n : C'[k] = A[k]
    BY <1>0, <1>5, <2>2, <2>3, <2>4
  <2>6. C' = A
    BY <1>2, <2>2, <2>3, <2>5, SeqEqual
  <2>7. QED
    BY <1>0, <1>8, <2>6 DEF A, R, C
<1>9. QED
  BY <1>0, <1>7, <1>8

(* The index the code computes is the slot of the sample of that age. *)
LEMMA SensorGetSlot ==
    ASSUME Sensor!TypeOK, NEW i \in Nat, i < s_count
    PROVE  Sensor!physical_index(i) = Ago(s_write_index, s_count - i)
<1> DEFINE n == SENSOR_RING_CAPACITY
           w == s_write_index
           o == Sensor!oldest_index
           d == s_count - i
<1>0. n \in Nat \ {0} /\ s_count \in 0 .. n /\ w \in 0 .. n - 1 /\ d \in 1 .. n
  BY SensorConstants DEF Sensor!TypeOK, Sensor!Index
<1>1. o = IF w + n - s_count < n THEN w + n - s_count ELSE w - s_count
  <2>1. w + n - s_count \in Nat /\ w + n - s_count < n + n
    BY <1>0
  <2>2. o = IF w + n - s_count < n THEN w + n - s_count ELSE w + n - s_count - n
    BY <1>0, <2>1, WrapOnce DEF Sensor!oldest_index
  <2>3. QED
    BY <1>0, <2>2
<1>2. o \in 0 .. n - 1
  BY <1>0, <1>1
<1>3. Sensor!physical_index(i) = IF o + i < n THEN o + i ELSE o + i - n
  <2> HIDE DEF o
  <2>1. i \in 0 .. n - 1 /\ n \in Nat \ {0}
    BY <1>0
  <2>2. (o + i) % n = IF o + i < n THEN o + i ELSE o + i - n
    BY <1>2, <2>1, WrapSum
  <2>3. QED
    BY <2>2 DEF Sensor!physical_index, o
<1>4. Ago(s_write_index, d) = IF d <= w THEN w - d ELSE w - d + n
  <2> HIDE DEF d
  <2>1. QED
    BY <1>0, SensorSlots
<1>5. Sensor!physical_index(i) = IF d <= w THEN w - d ELSE w - d + n
  <2> HIDE DEF o
  <2>1. QED
    BY <1>0, <1>1, <1>3
<1>6. QED
  BY <1>4, <1>5

LEMMA SensorSteps ==
    ASSUME Sensor!TypeOK, Sensor!TypeOK', [Sensor!Next]_(Sensor!vars)
    PROVE  [Sensor!Window!Next]_(Sensor!Window!vars)
<1> SUFFICES Sensor!Window!Next \/ UNCHANGED <<Sensor!Contents, s_output, s_answer>>
  BY DEF Sensor!Window!vars
<1>0. /\ SENSOR_RING_CAPACITY \in Nat \ {0} /\ s_count \in 0 .. SENSOR_RING_CAPACITY
      /\ Len(Sensor!Contents) = s_count /\ Sensor!Contents \in Seq(Sample)
      /\ \A k \in 1 .. s_count :
            Sensor!Contents[k] = s_items[Ago(s_write_index, s_count + 1 - k)]
  BY SensorConstants, SensorContents DEF SensorContentsOK, Sensor!TypeOK
<1>1. CASE Sensor!ring_buffer_init
  <2>1. SensorContentsOK' /\ s_count' = 0
    BY <1>1, SensorContents, PTL DEF Sensor!ring_buffer_init
  <2>2. Sensor!Contents' = <<>>
    BY <2>1, EmptySeq DEF SensorContentsOK
  <2>3. Sensor!Window!Reset
    BY <1>1, <2>2 DEF Sensor!ring_buffer_init, Sensor!Window!Reset
  <2>4. QED
    BY <2>3 DEF Sensor!Window!Next
<1>2. CASE Sensor!NullArgument
  <2>1. Sensor!Window!NullArgument
    BY <1>2 DEF Sensor!NullArgument, Sensor!Contents, Sensor!Window!NullArgument
  <2>2. QED
    BY <2>1 DEF Sensor!Window!Next
<1>3. ASSUME NEW sample \in Sample, Sensor!ring_buffer_push(sample)
      PROVE  Sensor!Window!Next
  <2>1. Sensor!Window!Push(sample)
    BY <1>0, <1>3, SensorPushSlides DEF Sensor!ring_buffer_push, Sensor!Window!Push
  <2>2. QED
    BY <2>1 DEF Sensor!Window!Next
<1>4. ASSUME NEW i \in 0 .. SENSOR_RING_CAPACITY, Sensor!GetFound(i)
      PROVE  Sensor!Window!Next
  <2>1. i + 1 \in 1 .. s_count /\ s_count + 1 - (i + 1) = s_count - i /\ i < s_count
    BY <1>0, <1>4 DEF Sensor!GetFound
  <2>2. s_output' = s_items[Ago(s_write_index, s_count - i)]
    BY <1>4, <2>1, SensorGetSlot DEF Sensor!GetFound
  <2>3. s_output' = Sensor!Contents[i + 1]
    BY <1>0, <2>1, <2>2
  <2>4. Sensor!Contents' = Sensor!Contents /\ (i < Len(Sensor!Contents)) = TRUE
    BY <1>0, <1>4, <2>1 DEF Sensor!GetFound, Sensor!Contents
  <2>5. s_answer' = <<"get", i, i < Len(Sensor!Contents)>>
    BY <1>4, <2>4 DEF Sensor!GetFound
  <2>6. Sensor!Window!Get(i)
    BY <2>3, <2>4, <2>5 DEF Sensor!Window!Get
  <2>7. QED
    BY <2>6 DEF Sensor!Window!Next
<1>5. ASSUME NEW i \in 0 .. SENSOR_RING_CAPACITY, Sensor!GetRefused(i)
      PROVE  Sensor!Window!Next
  <2>1. Sensor!Contents' = Sensor!Contents /\ (i < Len(Sensor!Contents)) = FALSE
    BY <1>0, <1>5 DEF Sensor!GetRefused, Sensor!Contents
  <2>2. s_answer' = <<"get", i, i < Len(Sensor!Contents)>> /\ s_output' = s_output
    BY <1>5, <2>1 DEF Sensor!GetRefused
  <2>3. Sensor!Window!Get(i)
    BY <2>1, <2>2 DEF Sensor!Window!Get
  <2>4. QED
    BY <2>3 DEF Sensor!Window!Next
<1>6. CASE UNCHANGED Sensor!vars
  BY <1>6 DEF Sensor!vars, Sensor!Contents
<1>7. QED
  BY <1>1, <1>2, <1>3, <1>4, <1>5, <1>6 DEF Sensor!Next

(* The overwriting ring implements the window on the last samples.         *)
THEOREM SensorIsWindow == Sensor!Spec => Sensor!ImplementsWindow
<1>1. Sensor!Init => Sensor!Window!Init
  <2> SUFFICES ASSUME Sensor!Init PROVE Sensor!Contents = <<>>
    BY DEF Sensor!Init, Sensor!Window!Init
  <2>1. SensorContentsOK /\ s_count = 0
    BY SensorInit, SensorContents DEF Sensor!Init
  <2>2. QED
    BY <2>1, EmptySeq DEF SensorContentsOK
<1>2. QED
  BY SensorInit, SensorNext, SensorSteps, <1>1, PTL
     DEF Sensor!Spec, Sensor!ImplementsWindow, Sensor!Window!Spec

-----------------------------------------------------------------------------
(* The queue and the stack on an array (queue_array.c, stack_array.c) *)

(* Neither wraps: both indices are places of the array or its end.         *)
ArrayInv == /\ k_kind \in {"queue", "stack"}
            /\ k_data \in [0 .. MAX - 1 -> Value]
            /\ k_front \in 0 .. MAX /\ k_rear \in 0 .. MAX /\ k_front <= k_rear
            /\ k_kind = "stack" => k_front = 0

LEMMA ArrayInit == Array!Init => ArrayInv
  BY ContainerAssumption DEF Array!Init, ArrayInv

LEMMA ArrayNext == ArrayInv /\ [Array!Next]_(Array!vars) => ArrayInv'
<1> SUFFICES ASSUME ArrayInv, [Array!Next]_(Array!vars) PROVE ArrayInv'
  OBVIOUS
<1> USE ContainerAssumption DEF ArrayInv
<1>1. ASSUME NEW v \in Value, Array!Stored(v) PROVE ArrayInv'
  BY <1>1 DEF Array!Stored, Array!isFull
<1>2. CASE Array!QueueTaken
  BY <1>2 DEF Array!QueueTaken, Array!isEmpty
<1>3. CASE Array!StackTaken
  BY <1>3 DEF Array!StackTaken, Array!isEmpty
<1>4. CASE \/ Array!StoreRefused \/ Array!TakeRefused \/ Array!StackPeeked
           \/ Array!CircularTaken \/ UNCHANGED Array!vars
  BY <1>4 DEF Array!StoreRefused, Array!TakeRefused, Array!StackPeeked,
              Array!CircularTaken, Array!vars
<1>5. QED
  BY <1>1, <1>2, <1>3, <1>4 DEF Array!Next

(* What is held is what lies between the two indices.                      *)
ArrayContentsOK ==
    /\ Array!Count = k_rear - k_front
    /\ Array!Contents \in Seq(Value) /\ Len(Array!Contents) = k_rear - k_front
    /\ \A k \in 1 .. k_rear - k_front :
          Array!Contents[k] = k_data[k_front + k - 1]

LEMMA ArrayContents == ArrayInv => ArrayContentsOK
<1> SUFFICES ASSUME ArrayInv PROVE ArrayContentsOK
  OBVIOUS
<1>0. /\ MAX \in Nat /\ MAX > 0 /\ k_front \in Nat /\ k_rear \in Nat
      /\ k_front <= k_rear /\ k_rear <= MAX
      /\ k_data \in [0 .. MAX - 1 -> Value]
  BY ContainerAssumption DEF ArrayInv
<1>1. Array!Count = k_rear - k_front /\ k_rear - k_front \in Nat
  BY <1>0 DEF ArrayInv, Array!Count
<1>2. ASSUME NEW k \in 1 .. k_rear - k_front
      PROVE  /\ (k_front + k - 1) % MAX = k_front + k - 1
             /\ k_front + k - 1 \in 0 .. MAX - 1
  <2>1. PICK a \in Nat : a = k_front + k - 1
    BY <1>0
  <2>2. a < MAX
    BY <1>0, <2>1
  <2>3. a % MAX = a
    BY <1>0, <2>2
  <2>4. QED
    BY <1>0, <2>1, <2>2, <2>3
<1>3. Array!Contents
        = [k \in 1 .. k_rear - k_front |-> k_data[(k_front + k - 1) % MAX]]
  BY <1>1 DEF Array!Contents
<1>4. /\ Array!Contents \in [1 .. k_rear - k_front -> Value]
      /\ \A k \in 1 .. k_rear - k_front :
            Array!Contents[k] = k_data[k_front + k - 1]
  BY <1>0, <1>2, <1>3
<1>5. Array!Contents \in Seq(Value) /\ Len(Array!Contents) = k_rear - k_front
  BY <1>1, <1>4
<1>6. QED
  BY <1>1, <1>4, <1>5 DEF ArrayContentsOK

(* The value pushed is behind everything that was there.                   *)
LEMMA ArrayPush ==
    ASSUME ArrayInv, ArrayContentsOK, ArrayContentsOK', NEW v \in Value, Array!Stored(v)
    PROVE  Array!Contents' = Append(Array!Contents, v)
<1> DEFINE n == k_rear - k_front
           C == Array!Contents
           D == Array!Contents'
<1>0. /\ MAX \in Nat /\ k_front \in Nat /\ k_rear \in Nat /\ k_front <= k_rear
      /\ k_rear < MAX /\ n \in Nat /\ k_data \in [0 .. MAX - 1 -> Value]
      /\ k_front' = k_front /\ k_rear' = k_rear + 1
      /\ k_data' = [k_data EXCEPT ![k_rear] = v]
  BY ContainerAssumption DEF ArrayInv, Array!Stored, Array!isFull
<1>1. /\ Array!Count = n /\ C \in Seq(Value) /\ Len(C) = n
      /\ \A k \in 1 .. n : C[k] = k_data[k_front + k - 1]
  BY DEF ArrayContentsOK
<1>2. /\ Array!Count' = n + 1 /\ D \in Seq(Value) /\ Len(D) = n + 1
      /\ \A k \in 1 .. n + 1 : D[k] = k_data'[k_front + k - 1]
  BY <1>0 DEF ArrayContentsOK
<1>3. ASSUME NEW k \in 1 .. n PROVE D[k] = C[k]
  <2>1. k_front + k - 1 \in 0 .. MAX - 1 /\ k_front + k - 1 # k_rear
    BY <1>0
  <2>2. k_data'[k_front + k - 1] = k_data[k_front + k - 1]
    BY <1>0, <2>1
  <2>3. QED
    BY <1>0, <1>1, <1>2, <2>2
<1>4. D[n + 1] = v
  <2>1. k_front + (n + 1) - 1 = k_rear /\ k_rear \in 0 .. MAX - 1 /\ n + 1 \in 1 .. n + 1
    BY <1>0
  <2>2. QED
    BY <1>0, <1>2, <2>1
<1> HIDE DEF C, D, n
<1>5. /\ Append(C, v) \in Seq(Value) /\ Len(Append(C, v)) = n + 1
      /\ \A k \in 1 .. n : Append(C, v)[k] = C[k]
      /\ Append(C, v)[n + 1] = v
  BY <1>1, AppendProperties
<1>6. \A k \in 1 .. n + 1 : D[k] = Append(C, v)[k]
  BY <1>0, <1>3, <1>4, <1>5
<1>7. D = Append(C, v)
  BY <1>2, <1>5, <1>6, SeqEqual
<1>8. QED
  BY <1>7 DEF C, D

(* The queue gives back what is in front.                                  *)
LEMMA ArrayTake ==
    ASSUME ArrayInv, ArrayContentsOK, ArrayContentsOK', Array!QueueTaken
    PROVE  Array!Contents = <<k_val'>> \o Array!Contents'
<1> DEFINE n == k_rear - k_front
           C == Array!Contents
           D == Array!Contents'
           H == <<k_val'>>
<1>0. /\ k_front \in Nat /\ k_rear \in Nat /\ n \in Nat \ {0}
      /\ k_front < MAX /\ k_data \in [0 .. MAX - 1 -> Value] /\ MAX \in Nat
      /\ k_front' = k_front + 1 /\ k_rear' = k_rear
      /\ k_data' = k_data /\ k_val' = k_data[k_front] /\ k_val' \in Value
  BY ContainerAssumption DEF ArrayInv, Array!QueueTaken, Array!isEmpty
<1>1. /\ C \in Seq(Value) /\ Len(C) = n
      /\ \A k \in 1 .. n : C[k] = k_data[k_front + k - 1]
  BY DEF ArrayContentsOK
<1>2. /\ D \in Seq(Value) /\ Len(D) = n - 1
      /\ \A k \in 1 .. n - 1 : D[k] = k_data[k_front + 1 + k - 1]
  BY <1>0 DEF ArrayContentsOK
<1>3. H \in Seq(Value) /\ Len(H) = 1 /\ H[1] = k_data[k_front]
  BY <1>0
<1>4. ASSUME NEW k \in 1 .. n PROVE C[k] = IF k <= 1 THEN H[k] ELSE D[k - 1]
  <2>1. CASE k = 1
    <3>1. C[k] = k_data[k_front]
      BY <1>0, <1>1, <2>1
    <3>2. QED
      BY <1>3, <2>1, <3>1
  <2>2. CASE k # 1
    <3>1. k - 1 \in 1 .. n - 1 /\ k_front + 1 + (k - 1) - 1 = k_front + k - 1
      BY <1>0, <2>2
    <3>2. QED
      BY <1>0, <1>1, <1>2, <2>2, <3>1
  <2>3. QED
    BY <2>1, <2>2
<1> HIDE DEF C, D, H, n
<1>5. /\ H \o D \in Seq(Value) /\ Len(H \o D) = n
      /\ \A k \in 1 .. n : (H \o D)[k] = IF k <= 1 THEN H[k] ELSE D[k - 1]
  <2>1. Len(H) + Len(D) = n
    BY <1>0, <1>2, <1>3
  <2>2. /\ H \o D \in Seq(Value) /\ Len(H \o D) = Len(H) + Len(D)
        /\ \A k \in 1 .. Len(H) + Len(D) :
              (H \o D)[k] = IF k <= Len(H) THEN H[k] ELSE D[k - Len(H)]
    BY <1>2, <1>3, ConcatProperties
  <2>3. QED
    BY <1>3, <2>1, <2>2
<1>6. C = H \o D
  BY <1>1, <1>4, <1>5, SeqEqual
<1>7. QED
  BY <1>6 DEF C, D, H

(* The stack gives back what is on top.                                    *)
LEMMA ArrayPop ==
    ASSUME ArrayInv, ArrayContentsOK, ArrayContentsOK', Array!StackTaken
    PROVE  Array!Contents = Append(Array!Contents', k_val')
<1> DEFINE n == k_rear
           C == Array!Contents
           D == Array!Contents'
           x == k_val'
<1>0. /\ k_front = 0 /\ n \in Nat \ {0} /\ n <= MAX /\ MAX \in Nat
      /\ k_data \in [0 .. MAX - 1 -> Value]
      /\ k_front' = 0 /\ k_rear' = n - 1
      /\ k_data' = k_data /\ x = k_data[n - 1] /\ x \in Value
  BY ContainerAssumption DEF ArrayInv, Array!StackTaken, Array!isEmpty
<1>1. /\ C \in Seq(Value) /\ Len(C) = n
      /\ \A k \in 1 .. n : C[k] = k_data[k - 1]
  BY <1>0 DEF ArrayContentsOK
<1>2. /\ D \in Seq(Value) /\ Len(D) = n - 1
      /\ \A k \in 1 .. n - 1 : D[k] = k_data[k - 1]
  BY <1>0 DEF ArrayContentsOK
<1>3. C[n] = x
  BY <1>0, <1>1
<1> HIDE DEF C, D, x, n
<1>4. /\ Append(D, x) \in Seq(Value) /\ Len(Append(D, x)) = n
      /\ \A k \in 1 .. n - 1 : Append(D, x)[k] = D[k]
      /\ Append(D, x)[n] = x
  BY <1>0, <1>2, AppendProperties
<1>5. \A k \in 1 .. n : C[k] = Append(D, x)[k]
  BY <1>0, <1>1, <1>2, <1>3, <1>4
<1>6. C = Append(D, x)
  BY <1>1, <1>4, <1>5, SeqEqual
<1>7. QED
  BY <1>6 DEF C, D, x

(* What each call does to the contents, told apart by its answer.          *)
LEMMA ArrayCalls ==
    ASSUME ArrayInv, ArrayInv', ArrayContentsOK, ArrayContentsOK', Array!Next
    PROVE  Array!CallKeepsOrder
<1>1. ASSUME NEW v \in Value, Array!Stored(v) PROVE Array!CallKeepsOrder
  <2>1. k_answer' = <<"push", TRUE, v>>
    BY <1>1 DEF Array!Stored
  <2>2. k_answer'[1] = "push" /\ k_answer'[2] /\ k_answer'[3] = v
    BY <2>1
  <2>3. k_answer' \notin {<<"pop", TRUE>>, <<"peek", TRUE>>, <<"push", FALSE>>}
    BY <2>1
  <2>4. Array!Contents' = Append(Array!Contents, k_answer'[3])
    BY <1>1, <2>2, ArrayPush
  <2>5. QED
    BY <2>2, <2>3, <2>4 DEF Array!CallKeepsOrder
<1>2. CASE Array!StoreRefused
  <2>1. k_answer' = <<"push", FALSE>> /\ Array!Count = MAX - k_front
    BY <1>2 DEF Array!StoreRefused, Array!isFull, ArrayInv, ArrayContentsOK
  <2>2. ~k_answer'[2]
    BY <2>1
  <2>3. QED
    BY <2>1, <2>2 DEF Array!CallKeepsOrder
<1>3. CASE Array!TakeRefused
  <2>1. k_answer' \in {<<"pop", FALSE>>, <<"peek", FALSE>>}
    BY <1>3 DEF Array!TakeRefused
  <2>2. Array!Contents = <<>>
    <3>1. Len(Array!Contents) = 0 /\ Array!Contents \in Seq(Value)
      BY <1>3 DEF Array!TakeRefused, Array!isEmpty, ArrayInv, ArrayContentsOK
    <3>2. QED
      BY <3>1, EmptySeq
  <2>3. CASE k_answer' = <<"pop", FALSE>>
    BY <2>2, <2>3 DEF Array!CallKeepsOrder
  <2>4. CASE k_answer' = <<"peek", FALSE>>
    BY <2>2, <2>4 DEF Array!CallKeepsOrder
  <2>5. QED
    BY <2>1, <2>3, <2>4
<1>4. CASE Array!QueueTaken
  <2>1. k_answer' = <<"pop", TRUE>> /\ k_kind # "stack"
    BY <1>4 DEF Array!QueueTaken
  <2>2. QED
    BY <1>4, <2>1, ArrayTake DEF Array!CallKeepsOrder
<1>5. CASE Array!StackTaken
  <2>1. k_answer' = <<"pop", TRUE>> /\ k_kind = "stack"
    BY <1>5 DEF Array!StackTaken
  <2>2. QED
    BY <1>5, <2>1, ArrayPop DEF Array!CallKeepsOrder
<1>6. CASE Array!StackPeeked
  <2>1. k_answer' = <<"peek", TRUE>> /\ Array!Contents' = Array!Contents
    BY <1>6 DEF Array!StackPeeked, Array!Contents, Array!Count
  <2>2. k_rear \in Nat \ {0} /\ k_front = 0 /\ k_val' = k_data[k_rear - 1]
    BY <1>6 DEF Array!StackPeeked, Array!isEmpty, ArrayInv
  <2>3. k_val' = Array!Contents[Array!Count]
    BY <2>2 DEF ArrayContentsOK
  <2>4. QED
    BY <2>1, <2>3 DEF Array!CallKeepsOrder
<1>7. QED
  BY <1>1, <1>2, <1>3, <1>4, <1>5, <1>6
     DEF Array!Next, Array!CircularTaken, ArrayInv

(* The array queue gives back its oldest value and the stack its youngest. *)
THEOREM ArrayKeepsOrder == Array!Spec => Array!KeepsOrder
<1>1. ArrayInv /\ ArrayInv' /\ [Array!Next]_(Array!vars)
        => [Array!CallKeepsOrder]_(Array!vars)
  BY ArrayContents, ArrayCalls, PTL
<1>2. QED
  BY ArrayInit, ArrayNext, <1>1, PTL DEF Array!Spec, Array!KeepsOrder

-----------------------------------------------------------------------------
(* A vector of records with distinct numbers is a table.  The vector is    *)
(* given by its length n, the numbers K[i] in it and their data D[i].      *)

DifferentNumbers(n, K) == \A i, j \in 1 .. n : K[i] = K[j] => i = j

Tabulates(t, n, K, D) ==
    /\ t = [s \in {K[i] : i \in 1 .. n} |-> t[s]]
    /\ \A i \in 1 .. n : t[K[i]] = D[i]

IsInserted(u, t, k, d) ==
    u = [j \in DOMAIN t \cup {k} |-> IF j = k THEN d ELSE t[j]]

IsUpdated(u, t, k, d) == u = [t EXCEPT ![k] = d]

IsErased(u, t, k) == u = [x \in DOMAIN t \ {k} |-> t[x]]

LEMMA TableSize ==
    ASSUME NEW t, NEW n \in Nat, NEW K, NEW D, Tabulates(t, n, K, D),
           DifferentNumbers(n, K)
    PROVE  IsFiniteSet(DOMAIN t) /\ Cardinality(DOMAIN t) = n
<1> DEFINE f == [i \in 1 .. n |-> K[i]]
<1>1. DOMAIN t = {K[i] : i \in 1 .. n}
  BY DEF Tabulates
<1>2. f \in Bijection(1 .. n, DOMAIN t)
  <2>1. f \in [1 .. n -> DOMAIN t]
    BY <1>1
  <2>2. \A i, j \in 1 .. n : f[i] = f[j] => i = j
    BY DEF DifferentNumbers
  <2>3. \A s \in DOMAIN t : \E i \in 1 .. n : f[i] = s
    BY <1>1
  <2> HIDE DEF f
  <2>4. f \in Injection(1 .. n, DOMAIN t)
    BY <2>1, <2>2 DEF Injection, IsInjective
  <2>5. f \in Surjection(1 .. n, DOMAIN t)
    BY <2>1, <2>3 DEF Surjection
  <2>6. QED
    BY <2>4, <2>5 DEF Bijection
<1> HIDE DEF f
<1>3. IsFiniteSet(1 .. n) /\ Cardinality(1 .. n) = n
  <2>1. 1 \in Int /\ n \in Int /\ (IF 1 > n THEN 0 ELSE n - 1 + 1) = n
    OBVIOUS
  <2>2. QED
    BY <2>1, FS_Interval
<1>4. QED
  BY <1>2, <1>3, FS_Bijection DEF ExistsBijection

(* The numbers stay different when a new one is added or one is taken out. *)
LEMMA AddedNumber ==
    ASSUME NEW n \in Nat, NEW K, NEW K2, DifferentNumbers(n, K),
           \A i \in 1 .. n : K2[i] = K[i] /\ K[i] # K2[n + 1]
    PROVE  DifferentNumbers(n + 1, K2)
<1>1. \A i \in 1 .. n + 1 : i \in 1 .. n \/ i = n + 1
  OBVIOUS
<1>2. QED
  BY <1>1 DEF DifferentNumbers

IsWithout(K2, n, K, p) ==
    \A i \in 1 .. n - 1 : K2[i] = IF i < p THEN K[i] ELSE K[i + 1]

LEMMA TakenNumber ==
    ASSUME NEW n \in Nat, NEW K, NEW K2, DifferentNumbers(n, K), NEW p \in 1 .. n,
           IsWithout(K2, n, K, p)
    PROVE  DifferentNumbers(n - 1, K2)
<1> DEFINE From(i) == IF i < p THEN i ELSE i + 1
<1>1. \A i \in 1 .. n - 1 : From(i) \in 1 .. n /\ K2[i] = K[From(i)]
  BY DEF IsWithout
<1>2. \A i, j \in 1 .. n - 1 : From(i) = From(j) => i = j
  OBVIOUS
<1> HIDE DEF From
<1>3. QED
  BY <1>1, <1>2 DEF DifferentNumbers

(* push_back of a number that is not there. *)
LEMMA TableInsert ==
    ASSUME NEW t, NEW u, NEW n \in Nat, NEW K, NEW D, NEW K2, NEW D2,
           Tabulates(t, n, K, D), Tabulates(u, n + 1, K2, D2),
           \A i \in 1 .. n : K2[i] = K[i] /\ D2[i] = D[i]
    PROVE  IsInserted(u, t, K2[n + 1], D2[n + 1])
<1> DEFINE S == DOMAIN t \cup {K2[n + 1]}
<1>0. \A i \in 1 .. n + 1 : i \in 1 .. n \/ i = n + 1
  OBVIOUS
<1>1. /\ DOMAIN t = {K[i] : i \in 1 .. n} /\ u = [s \in DOMAIN u |-> u[s]]
      /\ DOMAIN u = {K2[i] : i \in 1 .. n + 1}
      /\ \A i \in 1 .. n : t[K[i]] = D[i]
      /\ \A i \in 1 .. n + 1 : u[K2[i]] = D2[i]
  BY DEF Tabulates
<1>3. DOMAIN u = S
  BY <1>0, <1>1
<1>4. ASSUME NEW j \in S
      PROVE  u[j] = IF j = K2[n + 1] THEN D2[n + 1] ELSE t[j]
  <2>1. CASE j = K2[n + 1]
    BY <1>1, <2>1
  <2>2. CASE j # K2[n + 1]
    <3>1. PICK i \in 1 .. n : j = K[i]
      BY <1>1, <2>2
    <3>2. u[j] = D2[i] /\ t[j] = D[i] /\ D2[i] = D[i]
      BY <1>1, <3>1
    <3>3. QED
      BY <2>2, <3>2
  <2>3. QED
    BY <2>1, <2>2
<1> HIDE DEF S
<1>5. u = [j \in S |-> IF j = K2[n + 1] THEN D2[n + 1] ELSE t[j]]
  BY <1>1, <1>3, <1>4
<1>6. QED
  BY <1>5 DEF S, IsInserted

(* Writing the data of the record at p. *)
LEMMA TableUpdate ==
    ASSUME NEW t, NEW u, NEW n \in Nat, NEW K, NEW D, NEW D2, NEW p \in 1 .. n,
           Tabulates(t, n, K, D), DifferentNumbers(n, K), Tabulates(u, n, K, D2),
           \A i \in 1 .. n : i # p => D2[i] = D[i]
    PROVE  IsUpdated(u, t, K[p], D2[p])
<1>1. /\ t = [s \in DOMAIN t |-> t[s]] /\ u = [s \in DOMAIN u |-> u[s]]
      /\ DOMAIN t = {K[i] : i \in 1 .. n} /\ DOMAIN u = DOMAIN t
      /\ \A i \in 1 .. n : t[K[i]] = D[i]
      /\ \A i \in 1 .. n : u[K[i]] = D2[i]
  BY DEF Tabulates
<1>2. ASSUME NEW s \in DOMAIN t PROVE u[s] = IF s = K[p] THEN D2[p] ELSE t[s]
  <2>1. PICK i \in 1 .. n : s = K[i]
    BY <1>1
  <2>2. u[s] = D2[i] /\ t[s] = D[i] /\ (s = K[p] => i = p)
    BY <1>1, <2>1 DEF DifferentNumbers
  <2>3. QED
    BY <2>1, <2>2
<1>3. QED
  BY <1>1, <1>2 DEF IsUpdated

(* Erasing the record at p. *)
LEMMA TableErase ==
    ASSUME NEW t, NEW u, NEW n \in Nat, NEW K, NEW D, NEW K2, NEW D2,
           NEW p \in 1 .. n, Tabulates(t, n, K, D), DifferentNumbers(n, K),
           Tabulates(u, n - 1, K2, D2),
           IsWithout(K2, n, K, p), IsWithout(D2, n, D, p)
    PROVE  IsErased(u, t, K[p])
<1> DEFINE From(i) == IF i < p THEN i ELSE i + 1
<1>0. \A i \in 1 .. n - 1 : /\ From(i) \in 1 .. n /\ From(i) # p
                            /\ K2[i] = K[From(i)] /\ D2[i] = D[From(i)]
  BY DEF IsWithout
<1>1. /\ DOMAIN t = {K[i] : i \in 1 .. n} /\ u = [s \in DOMAIN u |-> u[s]]
      /\ DOMAIN u = {K2[i] : i \in 1 .. n - 1}
      /\ \A i \in 1 .. n : t[K[i]] = D[i]
      /\ \A i \in 1 .. n - 1 : u[K2[i]] = D2[i]
  BY DEF Tabulates
<1>3. \A m \in 1 .. n : m # p => \E i \in 1 .. n - 1 : From(i) = m
  <2>1. ASSUME NEW m \in 1 .. n, m # p PROVE \E i \in 1 .. n - 1 : From(i) = m
    <3>1. CASE m < p
      <4>1. m \in 1 .. n - 1 /\ From(m) = m
        BY <3>1
      <4>2. QED
        BY <4>1
    <3>2. CASE m > p
      <4>1. m - 1 \in 1 .. n - 1 /\ From(m - 1) = m
        BY <3>2
      <4>2. QED
        BY <4>1
    <3>3. QED
      BY <2>1, <3>1, <3>2
  <2>2. QED
    BY <2>1
<1> HIDE DEF From
<1>5. DOMAIN u = DOMAIN t \ {K[p]}
  <2>1. ASSUME NEW s \in DOMAIN u PROVE s \in DOMAIN t \ {K[p]}
    <3>1. PICK i \in 1 .. n - 1 : s = K2[i]
      BY <1>1
    <3>2. s = K[From(i)] /\ From(i) \in 1 .. n /\ From(i) # p
      BY <1>0, <3>1
    <3>3. QED
      BY <1>1, <3>2 DEF DifferentNumbers
  <2>2. ASSUME NEW s \in DOMAIN t, s # K[p] PROVE s \in DOMAIN u
    <3>1. PICK m \in 1 .. n : s = K[m]
      BY <1>1
    <3>2. PICK i \in 1 .. n - 1 : From(i) = m
      BY <1>3, <2>2, <3>1
    <3>3. QED
      BY <1>0, <1>1, <3>1, <3>2
  <2>3. QED
    BY <2>1, <2>2
<1>6. ASSUME NEW s \in DOMAIN u PROVE u[s] = t[s]
  <2>1. PICK i \in 1 .. n - 1 : s = K2[i]
    BY <1>1
  <2>2. u[s] = D2[i] /\ s = K[From(i)] /\ From(i) \in 1 .. n
    BY <1>0, <1>1, <2>1
  <2>3. t[s] = D[From(i)]
    BY <1>1, <2>2
  <2>4. QED
    BY <1>0, <2>1, <2>2, <2>3
<1>7. QED
  BY <1>1, <1>5, <1>6 DEF IsErased

Without(s, i) == SubSeq(s, 1, i - 1) \o SubSeq(s, i + 1, Len(s))

(* What is left of a sequence without its element number i. *)
LEMMA WithoutProperties ==
    ASSUME NEW S, NEW s \in Seq(S), NEW i \in 1 .. Len(s)
    PROVE  /\ Without(s, i) \in Seq(S)
           /\ Len(Without(s, i)) = Len(s) - 1
           /\ \A j \in 1 .. Len(s) - 1 :
                 Without(s, i)[j] = IF j < i THEN s[j] ELSE s[j + 1]
<1> DEFINE front == SubSeq(s, 1, i - 1)
           back == SubSeq(s, i + 1, Len(s))
           all == front \o back
<1>0. i \in Nat /\ 1 <= i /\ i <= Len(s) /\ Len(s) \in Nat
  BY LenProperties
<1>1. /\ front \in Seq(S) /\ Len(front) = i - 1
      /\ \A j \in 1 .. i - 1 : front[j] = s[j]
  <2>1. 1 .. i - 1 \subseteq 1 .. Len(s) /\ i - 1 \in Int /\ 1 \in Int
    BY <1>0
  <2>2. \A j \in 1 .. i - 1 : s[j] \in S
    BY <1>0, ElementOfSeq
  <2>3. QED
    BY <1>0
<1>2. /\ back \in Seq(S) /\ Len(back) = Len(s) - i
      /\ \A j \in 1 .. Len(s) - i : back[j] = s[i + j]
  BY <1>0
<1>3. Without(s, i) = all
  BY DEF Without
<1> HIDE DEF front, back
<1>4. /\ all \in Seq(S) /\ Len(all) = Len(front) + Len(back)
      /\ \A j \in 1 .. Len(front) + Len(back) :
            all[j] = IF j <= Len(front) THEN front[j] ELSE back[j - Len(front)]
  BY <1>1, <1>2, ConcatProperties
<1>5. Len(front) + Len(back) = Len(s) - 1
  BY <1>0, <1>1, <1>2
<1> HIDE DEF all
<1>6. ASSUME NEW j \in 1 .. Len(s) - 1
      PROVE  all[j] = IF j < i THEN s[j] ELSE s[j + 1]
  <2>1. all[j] = IF j <= i - 1 THEN front[j] ELSE back[j - (i - 1)]
    BY <1>1, <1>4, <1>5
  <2>2. CASE j < i
    BY <1>0, <1>1, <2>1, <2>2
  <2>3. CASE j >= i
    <3>1. j - (i - 1) \in 1 .. Len(s) - i /\ i + (j - (i - 1)) = j + 1
      BY <1>0, <2>3
    <3>2. all[j] = back[j - (i - 1)]
      BY <1>0, <2>1, <2>3
    <3>3. back[j - (i - 1)] = s[j + 1]
      BY <1>2, <3>1
    <3>4. QED
      BY <1>0, <2>3, <3>2, <3>3
  <2>4. QED
    BY <1>0, <2>2, <2>3
<1>7. QED
  BY <1>3, <1>4, <1>5, <1>6

-----------------------------------------------------------------------------
(* The ACK table (day12/ack_table.cpp) *)

AckEntry == [seq : Numbers, state : Acks!AckState]

AckNumbers(e) == [i \in 1 .. Len(e) |-> e[i].seq]
AckStates(e) == [i \in 1 .. Len(e) |-> e[i].state]

(* No number is in the vector twice: insert is the only call that adds an  *)
(* entry, and it looks first.                                              *)
AckInv == /\ a_entries \in Seq(AckEntry)
          /\ DifferentNumbers(Len(a_entries), AckNumbers(a_entries))

AckLookup ==
    /\ Len(a_entries) \in Nat
    /\ \A i \in 1 .. Len(a_entries) : /\ a_entries[i] \in AckEntry
                                      /\ Acks!First(a_entries[i].seq) = i
    /\ \A s \in Numbers :
          /\ Acks!Known(s) <=> \E i \in 1 .. Len(a_entries) : a_entries[i].seq = s
          /\ Acks!Known(s) => /\ Acks!First(s) \in 1 .. Len(a_entries)
                              /\ a_entries[Acks!First(s)].seq = s
          /\ Acks!Known(s) <=> s \in DOMAIN Acks!Records
          /\ Acks!Known(s) => Acks!Records[s] = a_entries[Acks!First(s)].state
    /\ Tabulates(Acks!Records, Len(a_entries), AckNumbers(a_entries),
                 AckStates(a_entries))

LEMMA AckLooksUp == AckInv => AckLookup
<1> SUFFICES ASSUME AckInv PROVE AckLookup
  OBVIOUS
<1> DEFINE n == Len(a_entries)
<1>0. /\ n \in Nat /\ DOMAIN a_entries = 1 .. n
      /\ \A i \in 1 .. n : a_entries[i] \in AckEntry
      /\ \A i, j \in 1 .. n : a_entries[i].seq = a_entries[j].seq => i = j
  <2>1. /\ n \in Nat /\ DOMAIN a_entries = 1 .. n
        /\ \A i \in 1 .. n : a_entries[i] \in AckEntry
    BY LenProperties, ElementOfSeq DEF AckInv
  <2>2. QED
    BY <2>1 DEF AckInv, DifferentNumbers, AckNumbers
<1>1. ASSUME NEW i \in 1 .. n PROVE Acks!First(a_entries[i].seq) = i
  <2> DEFINE P == Acks!Positions(a_entries[i].seq)
  <2>1. P = {i}
    BY <1>0 DEF Acks!Positions
  <2>2. Acks!First(a_entries[i].seq) = CHOOSE k \in P : \A j \in P : k <= j
    BY DEF Acks!First
  <2> HIDE DEF P
  <2>3. QED
    BY <2>1, <2>2
<1>2. ASSUME NEW s \in Numbers
      PROVE  /\ Acks!Known(s) <=> \E i \in 1 .. n : a_entries[i].seq = s
             /\ Acks!Known(s) => /\ Acks!First(s) \in 1 .. n
                                 /\ a_entries[Acks!First(s)].seq = s
  <2>1. Acks!Known(s) <=> \E i \in 1 .. n : a_entries[i].seq = s
    BY <1>0 DEF Acks!Known, Acks!Positions
  <2>2. QED
    BY <1>1, <2>1
<1>3. /\ Acks!Records = [s \in {a_entries[i].seq : i \in 1 .. n} |->
                           a_entries[Acks!First(s)].state]
      /\ DOMAIN Acks!Records = {a_entries[i].seq : i \in 1 .. n}
  BY <1>0 DEF Acks!Records
<1>4. ASSUME NEW s \in Numbers
      PROVE  /\ Acks!Known(s) <=> s \in DOMAIN Acks!Records
             /\ Acks!Known(s) => Acks!Records[s] = a_entries[Acks!First(s)].state
  BY <1>2, <1>3
<1>5. Tabulates(Acks!Records, n, AckNumbers(a_entries), AckStates(a_entries))
  <2>1. \A i \in 1 .. n : /\ AckNumbers(a_entries)[i] = a_entries[i].seq
                          /\ AckStates(a_entries)[i] = a_entries[i].state
    BY DEF AckNumbers, AckStates
  <2>2. {a_entries[i].seq : i \in 1 .. n} = {AckNumbers(a_entries)[i] : i \in 1 .. n}
    BY <2>1
  <2>3. \A i \in 1 .. n : Acks!Records[a_entries[i].seq] = a_entries[i].state
    BY <1>1, <1>3
  <2> HIDE DEF n
  <2>4. Acks!Records = [s \in {AckNumbers(a_entries)[i] : i \in 1 .. n} |->
                          Acks!Records[s]]
    BY <1>3, <2>2
  <2>5. QED
    BY <2>1, <2>3, <2>4 DEF Tabulates
<1>6. QED
  BY <1>0, <1>1, <1>2, <1>4, <1>5 DEF AckLookup

(* The vector after each of the calls that change it.                      *)
LEMMA AckAppended ==
    ASSUME AckInv, AckLookup, NEW s \in Numbers, NEW a \in Acks!AckState,
           Acks!Inserted(s, a)
    PROVE  /\ a_entries' \in Seq(AckEntry) /\ Len(a_entries') = Len(a_entries) + 1
           /\ \A i \in 1 .. Len(a_entries) :
                 /\ AckNumbers(a_entries')[i] = AckNumbers(a_entries)[i]
                 /\ AckNumbers(a_entries)[i] # s
                 /\ AckStates(a_entries')[i] = AckStates(a_entries)[i]
           /\ AckNumbers(a_entries')[Len(a_entries) + 1] = s
           /\ AckStates(a_entries')[Len(a_entries) + 1] = a
<1> DEFINE r == [seq |-> s, state |-> a]
           n == Len(a_entries)
<1>0. r \in AckEntry /\ r.seq = s /\ r.state = a /\ a_entries \in Seq(AckEntry)
      /\ n \in Nat
  BY DEF AckEntry, AckInv, AckLookup
<1>1. a_entries' = Append(a_entries, r)
  BY DEF Acks!Inserted
<1> HIDE DEF r
<1>2. /\ a_entries' \in Seq(AckEntry) /\ Len(a_entries') = n + 1
      /\ \A i \in 1 .. n : a_entries'[i] = a_entries[i]
      /\ a_entries'[n + 1] = r
  BY <1>0, <1>1, AppendProperties
<1>3. \A i \in 1 .. n : a_entries[i].seq # s
  BY DEF AckLookup, Acks!Inserted
<1> HIDE DEF n
<1>4. \A i \in 1 .. n : i \in 1 .. n + 1
  BY <1>0
<1>5. n + 1 \in 1 .. n + 1
  BY <1>0
<1>6. QED
  BY <1>0, <1>2, <1>3, <1>4, <1>5 DEF AckNumbers, AckStates, n

LEMMA AckWritten ==
    ASSUME AckInv, AckLookup, NEW s \in Numbers, NEW a \in Acks!AckState,
           Acks!Updated(s, a)
    PROVE  /\ a_entries' \in Seq(AckEntry) /\ Len(a_entries') = Len(a_entries)
           /\ AckNumbers(a_entries') = AckNumbers(a_entries)
           /\ AckStates(a_entries')[Acks!First(s)] = a
           /\ \A i \in 1 .. Len(a_entries) :
                 i # Acks!First(s) => AckStates(a_entries')[i] = AckStates(a_entries)[i]
<1> DEFINE n == Len(a_entries)
<1>0. /\ a_entries \in [1 .. n -> AckEntry] /\ n \in Nat /\ Acks!First(s) \in 1 .. n
      /\ a_entries' = [a_entries EXCEPT ![Acks!First(s)].state = a]
  BY LenProperties DEF AckInv, AckLookup, Acks!Updated
<1> HIDE DEF n
<1>1. PICK p \in 1 .. n : p = Acks!First(s)
  BY <1>0
<1>2. /\ a_entries' \in [1 .. n -> AckEntry]
      /\ \A i \in 1 .. n : /\ a_entries'[i].seq = a_entries[i].seq
                           /\ i # p => a_entries'[i].state = a_entries[i].state
      /\ a_entries'[p].state = a
  BY <1>0, <1>1 DEF AckEntry
<1>3. a_entries' \in Seq(AckEntry) /\ Len(a_entries') = n
  BY <1>0, <1>2
<1>4. QED
  BY <1>1, <1>2, <1>3 DEF AckNumbers, AckStates, n

LEMMA AckTaken ==
    ASSUME AckInv, AckLookup, NEW s \in Numbers, Acks!Erased(s)
    PROVE  /\ a_entries' \in Seq(AckEntry) /\ Len(a_entries') = Len(a_entries) - 1
           /\ Acks!First(s) \in 1 .. Len(a_entries)
           /\ AckNumbers(a_entries)[Acks!First(s)] = s
           /\ IsWithout(AckNumbers(a_entries'), Len(a_entries),
                        AckNumbers(a_entries), Acks!First(s))
           /\ IsWithout(AckStates(a_entries'), Len(a_entries),
                        AckStates(a_entries), Acks!First(s))
<1> DEFINE n == Len(a_entries)
<1>0. /\ a_entries \in Seq(AckEntry) /\ n \in Nat /\ Acks!First(s) \in 1 .. n
      /\ a_entries[Acks!First(s)].seq = s
      /\ a_entries' = Without(a_entries, Acks!First(s))
  BY DEF AckInv, AckLookup, Acks!Erased, Acks!RemoveAt, Without
<1>1. PICK p \in 1 .. n : p = Acks!First(s)
  BY <1>0
<1>2. /\ a_entries' \in Seq(AckEntry) /\ Len(a_entries') = n - 1
      /\ \A j \in 1 .. n - 1 :
            a_entries'[j] = IF j < p THEN a_entries[j] ELSE a_entries[j + 1]
  BY <1>0, <1>1, WithoutProperties
<1> HIDE DEF n
<1>3. ASSUME NEW i \in 1 .. n - 1
      PROVE  /\ AckNumbers(a_entries')[i] = IF i < p THEN AckNumbers(a_entries)[i]
                                                     ELSE AckNumbers(a_entries)[i + 1]
             /\ AckStates(a_entries')[i] = IF i < p THEN AckStates(a_entries)[i]
                                                    ELSE AckStates(a_entries)[i + 1]
  <2>1. i \in 1 .. n /\ i + 1 \in 1 .. n
    BY <1>0
  <2>2. QED
    BY <1>2, <2>1 DEF AckNumbers, AckStates, n
<1>4. AckNumbers(a_entries)[Acks!First(s)] = s
  BY <1>0 DEF AckNumbers, n
<1>5. QED
  BY <1>0, <1>1, <1>2, <1>3, <1>4 DEF n, IsWithout

LEMMA AckInit == Acks!Init => AckInv
<1> SUFFICES ASSUME Acks!Init PROVE AckInv
  OBVIOUS
<1>1. a_entries = <<>> /\ a_entries \in Seq(AckEntry) /\ Len(a_entries) = 0
  BY EmptySeq DEF Acks!Init
<1>2. QED
  BY <1>1 DEF AckInv, DifferentNumbers

LEMMA AckNext == AckInv /\ [Acks!Next]_(Acks!vars) => AckInv'
<1> SUFFICES ASSUME AckInv, [Acks!Next]_(Acks!vars) PROVE AckInv'
  OBVIOUS
<1>0. AckLookup /\ Len(a_entries) \in Nat
  BY AckLooksUp DEF AckLookup
<1>1. ASSUME NEW s \in Numbers, NEW a \in Acks!AckState, Acks!Inserted(s, a)
      PROVE  AckInv'
  <2>1. DifferentNumbers(Len(a_entries), AckNumbers(a_entries))
    BY DEF AckInv
  <2>2. DifferentNumbers(Len(a_entries) + 1, AckNumbers(a_entries'))
    BY <1>0, <1>1, <2>1, AckAppended, AddedNumber
  <2>3. QED
    BY <1>0, <1>1, <2>2, AckAppended DEF AckInv
<1>2. ASSUME NEW s \in Numbers, NEW a \in Acks!AckState, Acks!Updated(s, a)
      PROVE  AckInv'
  BY <1>0, <1>2, AckWritten DEF AckInv
<1>3. ASSUME NEW s \in Numbers, Acks!Erased(s)
      PROVE  AckInv'
  <2>1. DifferentNumbers(Len(a_entries), AckNumbers(a_entries))
    BY DEF AckInv
  <2>2. DifferentNumbers(Len(a_entries) - 1, AckNumbers(a_entries'))
    <3> DEFINE n == Len(a_entries)
               K == AckNumbers(a_entries)
               K2 == AckNumbers(a_entries')
    <3>1. PICK p \in 1 .. n :
             IsWithout(K2, n, K, p)
      BY <1>0, <1>3, AckTaken
    <3>2. n \in Nat /\ DifferentNumbers(n, K)
      BY <1>0, <2>1
    <3> HIDE DEF n, K, K2
    <3>3. DifferentNumbers(n - 1, K2)
      BY <3>1, <3>2, TakenNumber
    <3>4. QED
      BY <3>3 DEF n, K2
  <2>3. QED
    BY <1>0, <1>3, <2>2, AckTaken DEF AckInv
<1>4. CASE UNCHANGED a_entries
  BY <1>4 DEF AckInv
<1>5. QED
  BY <1>1, <1>2, <1>3, <1>4
     DEF Acks!Next, Acks!NotInserted, Acks!Found, Acks!Missing, Acks!vars

LEMMA AckSteps ==
    ASSUME AckInv, AckLookup, AckLookup', [Acks!Next]_(Acks!vars)
    PROVE  [Acks!Table!Next]_(Acks!Table!vars)
<1> SUFFICES Acks!Table!Next \/ UNCHANGED <<Acks!Records, a_state, a_answer>>
  BY DEF Acks!Table!vars
<1> DEFINE R == Acks!Records
           n == Len(a_entries)
<1>0. /\ n \in Nat /\ R = [x \in DOMAIN R |-> R[x]]
      /\ DifferentNumbers(n, AckNumbers(a_entries))
      /\ Tabulates(R, n, AckNumbers(a_entries), AckStates(a_entries))
      /\ Tabulates(R', Len(a_entries'), AckNumbers(a_entries'), AckStates(a_entries'))
  BY DEF AckInv, AckLookup, Tabulates
<1>1. \A s \in Numbers : Acks!Known(s) <=> Acks!Table!Present(s)
  BY DEF AckLookup, Acks!Table!Present
<1>2. Acks!Table!Free <=> ~Acks!Full
  <2>1. Cardinality(DOMAIN R) = n
    BY <1>0, TableSize
  <2>2. QED
    BY <1>0, <2>1, ContainerAssumption
       DEF Acks!Table!Free, Acks!Full, Cardinality, Acks!Table!Cardinality
<1>3. UNCHANGED a_entries => UNCHANGED R
  BY DEF Acks!Records, Acks!First, Acks!Positions
<1>4. ASSUME NEW s \in Numbers, NEW a \in Acks!AckState, Acks!Inserted(s, a)
      PROVE  Acks!Table!Insert(s, a)
  <2>1. IsInserted(R', R, s, a)
    <3> DEFINE K == AckNumbers(a_entries)
               D == AckStates(a_entries)
               K2 == AckNumbers(a_entries')
               D2 == AckStates(a_entries')
    <3>1. /\ \A i \in 1 .. n : K2[i] = K[i] /\ D2[i] = D[i]
          /\ K2[n + 1] = s /\ D2[n + 1] = a
          /\ Tabulates(R', n + 1, K2, D2)
      BY <1>0, <1>4, AckAppended
    <3>2. n \in Nat /\ Tabulates(R, n, K, D)
      BY <1>0
    <3> HIDE DEF n, K, D, K2, D2, R
    <3>3. IsInserted(R', R, K2[n + 1], D2[n + 1])
      BY <3>1, <3>2, TableInsert
    <3>4. QED
      BY <3>1, <3>3
  <2>2. ~Acks!Table!Present(s) /\ Acks!Table!Free
    BY <1>1, <1>2, <1>4 DEF Acks!Inserted
  <2>3. /\ a_answer' = <<"insert", s, TRUE>> /\ UNCHANGED a_state
    BY <1>4 DEF Acks!Inserted
  <2>4. QED
    BY <2>1, <2>2, <2>3 DEF Acks!Table!Insert, IsInserted
<1>5. ASSUME NEW s \in Numbers, Acks!NotInserted(s)
      PROVE  \E a \in Acks!AckState : Acks!Table!Insert(s, a)
  <2>1. "Waiting" \in Acks!AckState
    BY DEF Acks!AckState
  <2>2. ~(~Acks!Table!Present(s) /\ Acks!Table!Free)
    BY <1>1, <1>2, <1>5 DEF Acks!NotInserted
  <2>3. UNCHANGED R /\ a_answer' = <<"insert", s, FALSE>> /\ UNCHANGED a_state
    BY <1>3, <1>5 DEF Acks!NotInserted
  <2>4. Acks!Table!Insert(s, "Waiting")
    BY <2>2, <2>3 DEF Acks!Table!Insert
  <2>5. QED
    BY <2>1, <2>4
<1>6. ASSUME NEW s \in Numbers, NEW a \in Acks!AckState, Acks!Updated(s, a)
      PROVE  Acks!Table!Update(s, a)
  <2>1. PICK p \in 1 .. n : p = Acks!First(s) /\ a_entries[p].seq = s
    BY <1>6 DEF AckLookup, Acks!Updated
  <2>2. IsUpdated(R', R, s, a)
    <3> DEFINE K == AckNumbers(a_entries)
               D == AckStates(a_entries)
               D2 == AckStates(a_entries')
    <3>1. /\ \A i \in 1 .. n : i # p => D2[i] = D[i]
          /\ D2[p] = a /\ Tabulates(R', n, K, D2)
      BY <1>0, <1>6, <2>1, AckWritten
    <3>2. n \in Nat /\ Tabulates(R, n, K, D) /\ DifferentNumbers(n, K) /\ K[p] = s
      BY <1>0, <2>1 DEF AckNumbers
    <3> HIDE DEF n, K, D, D2, R
    <3>3. IsUpdated(R', R, K[p], D2[p])
      BY <3>1, <3>2, TableUpdate
    <3>4. QED
      BY <3>1, <3>2, <3>3
  <2>3. /\ Acks!Table!Present(s) /\ UNCHANGED a_state
        /\ a_answer' = <<"update", s, TRUE>>
    BY <1>1, <1>6 DEF Acks!Updated
  <2>4. QED
    BY <2>2, <2>3 DEF Acks!Table!Update, IsUpdated
<1>7. ASSUME NEW s \in Numbers, Acks!Found(s) PROVE Acks!Table!Find(s)
  BY <1>1, <1>3, <1>7 DEF AckLookup, Acks!Found, Acks!Table!Find
<1>8. ASSUME NEW s \in Numbers, Acks!Erased(s) PROVE Acks!Table!Erase(s)
  <2>1. PICK p \in 1 .. n : p = Acks!First(s) /\ AckNumbers(a_entries)[p] = s
    BY <1>8, AckTaken
  <2>2. IsErased(R', R, s)
    <3> DEFINE K == AckNumbers(a_entries)
               D == AckStates(a_entries)
               K2 == AckNumbers(a_entries')
               D2 == AckStates(a_entries')
    <3>1. /\ IsWithout(K2, n, K, p) /\ IsWithout(D2, n, D, p)
          /\ Tabulates(R', n - 1, K2, D2)
      BY <1>0, <1>8, <2>1, AckTaken
    <3>2. n \in Nat /\ Tabulates(R, n, K, D) /\ DifferentNumbers(n, K) /\ K[p] = s
      BY <1>0, <2>1
    <3> HIDE DEF n, K, D, K2, D2, R
    <3>3. IsErased(R', R, K[p])
      BY <3>1, <3>2, TableErase
    <3>4. QED
      BY <3>2, <3>3
  <2>3. /\ Acks!Table!Present(s) /\ UNCHANGED a_state
        /\ a_answer' = <<"erase", s, TRUE>>
    BY <1>1, <1>8 DEF Acks!Erased
  <2>4. QED
    BY <2>2, <2>3 DEF Acks!Table!Erase, Acks!Table!Restrict, IsErased
<1>9. ASSUME NEW s \in Numbers, Acks!Missing(s) PROVE Acks!Table!Next
  <2>1. ~Acks!Table!Present(s) /\ UNCHANGED R /\ UNCHANGED a_state
    BY <1>1, <1>3, <1>9 DEF Acks!Missing
  <2>2. s \notin DOMAIN R /\ Acks!Table!Present(s) = FALSE
    BY <2>1 DEF Acks!Table!Present
  <2>3. CASE a_answer' = <<"update", s, FALSE>>
    <3>1. "Waiting" \in Acks!AckState
      BY DEF Acks!AckState
    <3>2. Acks!Table!Update(s, "Waiting")
      BY <2>1, <2>2, <2>3 DEF Acks!Table!Update
    <3>3. QED
      BY <3>1, <3>2 DEF Acks!Table!Next
  <2>4. CASE a_answer' = <<"find", s, FALSE>>
    <3>1. Acks!Table!Find(s)
      BY <2>1, <2>2, <2>4 DEF Acks!Table!Find
    <3>2. QED
      BY <3>1 DEF Acks!Table!Next
  <2>5. CASE a_answer' = <<"erase", s, FALSE>>
    <3>1. DOMAIN R \ {s} = DOMAIN R
      BY <2>2
    <3> HIDE DEF R
    <3>2. R' = [x \in DOMAIN R \ {s} |-> R[x]]
      BY <1>0, <2>1, <3>1
    <3>3. Acks!Table!Erase(s)
      BY <2>1, <2>2, <2>5, <3>2 DEF Acks!Table!Erase, Acks!Table!Restrict, R
    <3>4. QED
      BY <3>3 DEF Acks!Table!Next
  <2>6. QED
    BY <1>9, <2>3, <2>4, <2>5 DEF Acks!Missing
<1>10. CASE UNCHANGED Acks!vars
  BY <1>3, <1>10 DEF Acks!vars
<1>11. QED
  BY <1>4, <1>5, <1>6, <1>7, <1>8, <1>9, <1>10 DEF Acks!Next, Acks!Table!Next

(* Whatever was inserted and erased, in any order, the vector of entries   *)
(* implements the table of at most capacity_ records.                      *)
THEOREM AckRefinesTable == Acks!Spec => Acks!ImplementsTable
<1>1. Acks!Init => Acks!Table!Init
  <2> SUFFICES ASSUME Acks!Init PROVE Acks!Records = << >>
    BY DEF Acks!Init, Acks!Table!Init
  <2>1. DOMAIN a_entries = {}
    BY DEF Acks!Init
  <2>2. Acks!Records = [s \in {} |-> a_entries[Acks!First(s)].state]
    BY <2>1 DEF Acks!Records
  <2>3. QED
    BY <2>2
<1>2. AckInv /\ AckInv' /\ [Acks!Next]_(Acks!vars)
        => [Acks!Table!Next]_(Acks!Table!vars)
  BY AckLooksUp, AckSteps, PTL
<1>3. QED
  BY AckInit, AckNext, <1>1, <1>2, PTL
     DEF Acks!Spec, Acks!ImplementsTable, Acks!Table!Spec

-----------------------------------------------------------------------------
(* The list of pending commands (cpp/day21_pending_commands.cpp) *)

Command == [sequence : Numbers, name : Name]

Sequences(e) == [i \in 1 .. Len(e) |-> e[i].sequence]
Names(e) == [i \in 1 .. Len(e) |-> e[i].name]

(* No number is in the vector twice: add is the only call that adds a      *)
(* command, and it looks first.                                            *)
PendingInv == /\ p_commands \in Seq(Command) /\ p_copy \in Name
              /\ DifferentNumbers(Len(p_commands), Sequences(p_commands))

PendingLookup ==
    /\ Len(p_commands) \in Nat
    /\ \A i \in 1 .. Len(p_commands) : p_commands[i] \in Command
    /\ \A s \in Numbers :
          /\ PendingList!find_if(s) = 0
                <=> \A i \in 1 .. Len(p_commands) : p_commands[i].sequence # s
          /\ PendingList!find_if(s) = 0 <=> s \notin DOMAIN PendingList!Records
          /\ PendingList!find_if(s) # 0 =>
                /\ PendingList!find_if(s) \in 1 .. Len(p_commands)
                /\ p_commands[PendingList!find_if(s)].sequence = s
                /\ PendingList!Records[s] = p_commands[PendingList!find_if(s)].name
    /\ Tabulates(PendingList!Records, Len(p_commands), Sequences(p_commands),
                 Names(p_commands))

LEMMA PendingLooksUp == PendingInv => PendingLookup
<1> SUFFICES ASSUME PendingInv PROVE PendingLookup
  OBVIOUS
<1> DEFINE n == Len(p_commands)
<1>0. /\ n \in Nat /\ DOMAIN p_commands = 1 .. n
      /\ \A i \in 1 .. n : p_commands[i] \in Command
      /\ \A i, j \in 1 .. n : p_commands[i].sequence = p_commands[j].sequence => i = j
  <2>1. /\ n \in Nat /\ DOMAIN p_commands = 1 .. n
        /\ \A i \in 1 .. n : p_commands[i] \in Command
    BY LenProperties, ElementOfSeq DEF PendingInv
  <2>2. QED
    BY <2>1 DEF PendingInv, DifferentNumbers, Sequences
<1>1. ASSUME NEW s \in Numbers
      PROVE  /\ PendingList!find_if(s) = 0
                   <=> \A i \in 1 .. n : p_commands[i].sequence # s
             /\ PendingList!find_if(s) # 0 =>
                   /\ PendingList!find_if(s) \in 1 .. n
                   /\ p_commands[PendingList!find_if(s)].sequence = s
  <2> DEFINE I == {i \in 1 .. n : p_commands[i].sequence = s}
             least == CHOOSE x \in I : \A y \in I : x <= y
  <2>1. PendingList!find_if(s) = IF I # {} THEN least ELSE 0
    BY DEF PendingList!find_if, PendingList!SelectInSeq, PendingList!Matches,
           PendingList!Min
  <2>2. ASSUME NEW i \in I PROVE least = i
    <3>1. I = {i}
      BY <1>0
    <3> HIDE DEF I
    <3>2. QED
      BY <3>1
  <2>3. I \subseteq 1 .. n /\ 0 \notin I
    BY <1>0
  <2> HIDE DEF least
  <2>4. QED
    BY <2>1, <2>2, <2>3
<1> DEFINE V == PendingList!Range(p_commands)
           S == {c.sequence : c \in V}
           Chosen(s) == CHOOSE c \in V : c.sequence = s
<1>2. V = {p_commands[i] : i \in 1 .. n}
  BY <1>0 DEF PendingList!Range
<1>3. /\ PendingList!Records = [s \in S |-> Chosen(s).name]
      /\ S = {p_commands[i].sequence : i \in 1 .. n}
      /\ \A s \in S : Chosen(s) \in V /\ Chosen(s).sequence = s
  <2>1. PendingList!Records = [s \in S |-> Chosen(s).name]
    BY DEF PendingList!Records
  <2>2. S = {p_commands[i].sequence : i \in 1 .. n}
    BY <1>2
  <2>3. ASSUME NEW s \in S PROVE Chosen(s) \in V /\ Chosen(s).sequence = s
    <3>1. \E c \in V : c.sequence = s
      OBVIOUS
    <3> HIDE DEF V
    <3>2. QED
      BY <3>1
  <2>4. QED
    BY <2>1, <2>2, <2>3
<1> HIDE DEF V, S, Chosen
<1>4. ASSUME NEW i \in 1 .. n
      PROVE  PendingList!Records[p_commands[i].sequence] = p_commands[i].name
  <2>1. p_commands[i].sequence \in S
    BY <1>3
  <2>2. Chosen(p_commands[i].sequence) = p_commands[i]
    BY <1>0, <1>2, <1>3, <2>1
  <2>3. QED
    BY <1>3, <2>1, <2>2
<1>5. Tabulates(PendingList!Records, n, Sequences(p_commands), Names(p_commands))
  <2>1. \A i \in 1 .. n : /\ Sequences(p_commands)[i] = p_commands[i].sequence
                          /\ Names(p_commands)[i] = p_commands[i].name
    BY DEF Sequences, Names
  <2>2. {p_commands[i].sequence : i \in 1 .. n}
          = {Sequences(p_commands)[i] : i \in 1 .. n}
    BY <2>1
  <2>3. \A i \in 1 .. n :
           PendingList!Records[p_commands[i].sequence] = p_commands[i].name
    BY <1>4
  <2> HIDE DEF n
  <2>4. PendingList!Records = [s \in {Sequences(p_commands)[i] : i \in 1 .. n} |->
                          PendingList!Records[s]]
    BY <1>3, <2>2
  <2>5. QED
    BY <2>1, <2>3, <2>4 DEF Tabulates
<1>6. ASSUME NEW s \in Numbers
      PROVE  /\ PendingList!find_if(s) = 0 <=> s \notin DOMAIN PendingList!Records
             /\ PendingList!find_if(s) # 0 =>
                   PendingList!Records[s] = p_commands[PendingList!find_if(s)].name
  <2>1. DOMAIN PendingList!Records = {p_commands[i].sequence : i \in 1 .. n}
    BY <1>3
  <2>2. PendingList!find_if(s) = 0 <=> s \notin DOMAIN PendingList!Records
    BY <1>1, <2>1
  <2>3. ASSUME PendingList!find_if(s) # 0
        PROVE  PendingList!Records[s] = p_commands[PendingList!find_if(s)].name
    <3>1. /\ PendingList!find_if(s) \in 1 .. n
          /\ p_commands[PendingList!find_if(s)].sequence = s
      BY <1>1, <2>3
    <3>2. QED
      BY <1>4, <3>1
  <2>4. QED
    BY <2>2, <2>3
<1>7. QED
  BY <1>0, <1>1, <1>5, <1>6 DEF PendingLookup

(* The vector after each of the calls that change it.                      *)
LEMMA PendingAppended ==
    ASSUME PendingInv, PendingLookup, NEW s \in Numbers, NEW a \in Name,
           PendingList!Added(s, a)
    PROVE  /\ p_commands' \in Seq(Command) /\ Len(p_commands') = Len(p_commands) + 1
           /\ \A i \in 1 .. Len(p_commands) :
                 /\ Sequences(p_commands')[i] = Sequences(p_commands)[i]
                 /\ Sequences(p_commands)[i] # s
                 /\ Names(p_commands')[i] = Names(p_commands)[i]
           /\ Sequences(p_commands')[Len(p_commands) + 1] = s
           /\ Names(p_commands')[Len(p_commands) + 1] = a
<1> DEFINE r == [sequence |-> s, name |-> a]
           n == Len(p_commands)
<1>0. r \in Command /\ r.sequence = s /\ r.name = a /\ p_commands \in Seq(Command)
      /\ n \in Nat
  BY DEF Command, PendingInv, PendingLookup
<1>1. p_commands' = Append(p_commands, r)
  BY DEF PendingList!Added
<1> HIDE DEF r
<1>2. /\ p_commands' \in Seq(Command) /\ Len(p_commands') = n + 1
      /\ \A i \in 1 .. n : p_commands'[i] = p_commands[i]
      /\ p_commands'[n + 1] = r
  BY <1>0, <1>1, AppendProperties
<1>3. \A i \in 1 .. n : p_commands[i].sequence # s
  BY DEF PendingLookup, PendingList!Added
<1> HIDE DEF n
<1>4. \A i \in 1 .. n : i \in 1 .. n + 1
  BY <1>0
<1>5. n + 1 \in 1 .. n + 1
  BY <1>0
<1>6. QED
  BY <1>0, <1>2, <1>3, <1>4, <1>5 DEF Sequences, Names, n

LEMMA PendingTaken ==
    ASSUME PendingInv, PendingLookup, NEW s \in Numbers, PendingList!Removed(s)
    PROVE  /\ p_commands' \in Seq(Command) /\ Len(p_commands') = Len(p_commands) - 1
           /\ PendingList!find_if(s) \in 1 .. Len(p_commands)
           /\ Sequences(p_commands)[PendingList!find_if(s)] = s
           /\ IsWithout(Sequences(p_commands'), Len(p_commands),
                        Sequences(p_commands), PendingList!find_if(s))
           /\ IsWithout(Names(p_commands'), Len(p_commands),
                        Names(p_commands), PendingList!find_if(s))
<1> DEFINE n == Len(p_commands)
<1>0. /\ p_commands \in Seq(Command) /\ n \in Nat /\ PendingList!find_if(s) \in 1 .. n
      /\ p_commands[PendingList!find_if(s)].sequence = s
      /\ p_commands' = Without(p_commands, PendingList!find_if(s))
  BY DEF PendingInv, PendingLookup, PendingList!Removed, PendingList!RemoveAt, Without
<1>1. PICK p \in 1 .. n : p = PendingList!find_if(s)
  BY <1>0
<1>2. /\ p_commands' \in Seq(Command) /\ Len(p_commands') = n - 1
      /\ \A j \in 1 .. n - 1 :
            p_commands'[j] = IF j < p THEN p_commands[j] ELSE p_commands[j + 1]
  BY <1>0, <1>1, WithoutProperties
<1> HIDE DEF n
<1>3. ASSUME NEW i \in 1 .. n - 1
      PROVE  /\ Sequences(p_commands')[i] = IF i < p THEN Sequences(p_commands)[i]
                                                     ELSE Sequences(p_commands)[i + 1]
             /\ Names(p_commands')[i] = IF i < p THEN Names(p_commands)[i]
                                                    ELSE Names(p_commands)[i + 1]
  <2>1. i \in 1 .. n /\ i + 1 \in 1 .. n
    BY <1>0
  <2>2. QED
    BY <1>2, <2>1 DEF Sequences, Names, n
<1>4. Sequences(p_commands)[PendingList!find_if(s)] = s
  BY <1>0 DEF Sequences, n
<1>5. QED
  BY <1>0, <1>1, <1>2, <1>3, <1>4 DEF n, IsWithout

LEMMA PendingInit == PendingList!Init => PendingInv
<1> SUFFICES ASSUME PendingList!Init PROVE PendingInv
  OBVIOUS
<1>1. p_commands = <<>> /\ p_commands \in Seq(Command) /\ Len(p_commands) = 0
  BY EmptySeq DEF PendingList!Init
<1>2. QED
  BY <1>1 DEF PendingInv, DifferentNumbers, PendingList!Init

LEMMA PendingNext ==
    PendingInv /\ [PendingList!Next]_(PendingList!vars) => PendingInv'
<1> SUFFICES ASSUME PendingInv, [PendingList!Next]_(PendingList!vars)
             PROVE  PendingInv'
  OBVIOUS
<1>0. PendingLookup /\ Len(p_commands) \in Nat
  BY PendingLooksUp DEF PendingLookup
<1>1. ASSUME NEW s \in Numbers, NEW a \in Name, PendingList!Added(s, a)
      PROVE  PendingInv'
  <2>1. DifferentNumbers(Len(p_commands), Sequences(p_commands))
    BY DEF PendingInv
  <2>2. DifferentNumbers(Len(p_commands) + 1, Sequences(p_commands'))
    BY <1>0, <1>1, <2>1, PendingAppended, AddedNumber
  <2>3. QED
    BY <1>0, <1>1, <2>2, PendingAppended DEF PendingInv, PendingList!Added
<1>2. ASSUME NEW s \in Numbers, PendingList!Found(s)
      PROVE  PendingInv'
  BY <1>0, <1>2 DEF PendingInv, PendingLookup, PendingList!Found, Command
<1>3. ASSUME NEW s \in Numbers, PendingList!Removed(s)
      PROVE  PendingInv'
  <2>1. DifferentNumbers(Len(p_commands), Sequences(p_commands))
    BY DEF PendingInv
  <2>2. DifferentNumbers(Len(p_commands) - 1, Sequences(p_commands'))
    <3> DEFINE n == Len(p_commands)
               K == Sequences(p_commands)
               K2 == Sequences(p_commands')
    <3>1. PICK p \in 1 .. n :
             IsWithout(K2, n, K, p)
      BY <1>0, <1>3, PendingTaken
    <3>2. n \in Nat /\ DifferentNumbers(n, K)
      BY <1>0, <2>1
    <3> HIDE DEF n, K, K2
    <3>3. DifferentNumbers(n - 1, K2)
      BY <3>1, <3>2, TakenNumber
    <3>4. QED
      BY <3>3 DEF n, K2
  <2>3. QED
    BY <1>0, <1>3, <2>2, PendingTaken DEF PendingInv, PendingList!Removed
<1>4. CASE UNCHANGED <<p_commands, p_copy>>
  BY <1>4 DEF PendingInv
<1>5. QED
  BY <1>1, <1>2, <1>3, <1>4
     DEF PendingList!Next, PendingList!NotAdded, PendingList!Missing, PendingList!vars

LEMMA PendingSteps ==
    ASSUME PendingInv, PendingLookup, PendingLookup',
           [PendingList!Next]_(PendingList!vars)
    PROVE  [PendingList!Table!Next]_(PendingList!Table!vars)
<1> SUFFICES \/ PendingList!Table!Next
             \/ UNCHANGED <<PendingList!Records, p_copy, p_answer>>
  BY DEF PendingList!Table!vars
<1> DEFINE R == PendingList!Records
           n == Len(p_commands)
<1>0. /\ n \in Nat /\ R = [x \in DOMAIN R |-> R[x]]
      /\ DifferentNumbers(n, Sequences(p_commands))
      /\ Tabulates(R, n, Sequences(p_commands), Names(p_commands))
      /\ Tabulates(R', Len(p_commands'), Sequences(p_commands'), Names(p_commands'))
  BY DEF PendingInv, PendingLookup, Tabulates
<1>1. \A s \in Numbers : PendingList!find_if(s) # 0 <=> PendingList!Table!Present(s)
  BY DEF PendingLookup, PendingList!Table!Present
<1>2. ASSUME NEW s \in Numbers, ~PendingList!Table!Present(s)
      PROVE  PendingList!Table!Free
  <2> DEFINE S == DOMAIN R
  <2>1. Sequences(p_commands) \in [1 .. n -> Numbers]
    BY DEF PendingLookup, Command, Sequences
  <2>2. S \in SUBSET Numbers /\ s \notin S
    BY <1>0, <1>2, <2>1 DEF Tabulates, PendingList!Table!Present
  <2> HIDE DEF S
  <2>3. IsFiniteSet(Numbers)
    BY ContainerAssumption
  <2>4. /\ Cardinality(S) <= Cardinality(Numbers)
        /\ Cardinality(S) = Cardinality(Numbers) => S = Numbers
    BY <2>2, <2>3, FS_Subset
  <2>5. Cardinality(S) \in Nat /\ Cardinality(Numbers) \in Nat
    BY <2>2, <2>3, FS_Subset, FS_CardinalityType
  <2>6. Cardinality(S) < Cardinality(Numbers)
    BY <2>2, <2>4, <2>5
  <2>7. QED
    BY <2>6 DEF PendingList!Table!Free, Cardinality, PendingList!Cardinality,
                PendingList!Table!Cardinality, S
<1>3. UNCHANGED p_commands => UNCHANGED R
  BY DEF PendingList!Records
<1>4. ASSUME NEW s \in Numbers, NEW a \in Name, PendingList!Added(s, a)
      PROVE  PendingList!Table!Insert(s, a)
  <2>1. IsInserted(R', R, s, a)
    <3> DEFINE K == Sequences(p_commands)
               D == Names(p_commands)
               K2 == Sequences(p_commands')
               D2 == Names(p_commands')
    <3>1. /\ \A i \in 1 .. n : K2[i] = K[i] /\ D2[i] = D[i]
          /\ K2[n + 1] = s /\ D2[n + 1] = a
          /\ Tabulates(R', n + 1, K2, D2)
      BY <1>0, <1>4, PendingAppended
    <3>2. n \in Nat /\ Tabulates(R, n, K, D)
      BY <1>0
    <3> HIDE DEF n, K, D, K2, D2, R
    <3>3. IsInserted(R', R, K2[n + 1], D2[n + 1])
      BY <3>1, <3>2, TableInsert
    <3>4. QED
      BY <3>1, <3>3
  <2>2. ~PendingList!Table!Present(s) /\ PendingList!Table!Free
    BY <1>1, <1>2, <1>4 DEF PendingList!Added
  <2>3. /\ p_answer' = <<"insert", s, TRUE>> /\ UNCHANGED p_copy
    BY <1>4 DEF PendingList!Added
  <2>4. QED
    BY <2>1, <2>2, <2>3 DEF PendingList!Table!Insert, IsInserted
<1>5. ASSUME NEW s \in Numbers, PendingList!NotAdded(s)
      PROVE  PendingList!Table!Insert(s, p_copy)
  <2>1. PendingList!Table!Present(s)
    BY <1>1, <1>5 DEF PendingList!NotAdded
  <2>2. UNCHANGED R /\ p_answer' = <<"insert", s, FALSE>> /\ UNCHANGED p_copy
    BY <1>3, <1>5 DEF PendingList!NotAdded
  <2>3. QED
    BY <2>1, <2>2 DEF PendingList!Table!Insert
<1>6. p_copy \in Name
  BY DEF PendingInv
<1>7. ASSUME NEW s \in Numbers, PendingList!Found(s) PROVE PendingList!Table!Find(s)
  BY <1>1, <1>3, <1>7 DEF PendingLookup, PendingList!Found, PendingList!Table!Find
<1>8. ASSUME NEW s \in Numbers, PendingList!Removed(s)
      PROVE  PendingList!Table!Erase(s)
  <2>1. PICK p \in 1 .. n : p = PendingList!find_if(s) /\ Sequences(p_commands)[p] = s
    BY <1>8, PendingTaken
  <2>2. IsErased(R', R, s)
    <3> DEFINE K == Sequences(p_commands)
               D == Names(p_commands)
               K2 == Sequences(p_commands')
               D2 == Names(p_commands')
    <3>1. /\ IsWithout(K2, n, K, p) /\ IsWithout(D2, n, D, p)
          /\ Tabulates(R', n - 1, K2, D2)
      BY <1>0, <1>8, <2>1, PendingTaken
    <3>2. n \in Nat /\ Tabulates(R, n, K, D) /\ DifferentNumbers(n, K) /\ K[p] = s
      BY <1>0, <2>1
    <3> HIDE DEF n, K, D, K2, D2, R
    <3>3. IsErased(R', R, K[p])
      BY <3>1, <3>2, TableErase
    <3>4. QED
      BY <3>2, <3>3
  <2>3. /\ PendingList!Table!Present(s) /\ UNCHANGED p_copy
        /\ p_answer' = <<"erase", s, TRUE>>
    BY <1>1, <1>8 DEF PendingList!Removed
  <2>4. QED
    BY <2>2, <2>3 DEF PendingList!Table!Erase, PendingList!Table!Restrict, IsErased
<1>9. ASSUME NEW s \in Numbers, PendingList!Missing(s) PROVE PendingList!Table!Next
  <2>1. ~PendingList!Table!Present(s) /\ UNCHANGED R /\ UNCHANGED p_copy
    BY <1>1, <1>3, <1>9 DEF PendingList!Missing
  <2>2. s \notin DOMAIN R /\ PendingList!Table!Present(s) = FALSE
    BY <2>1 DEF PendingList!Table!Present
  <2>4. CASE p_answer' = <<"find", s, FALSE>>
    <3>1. PendingList!Table!Find(s)
      BY <2>1, <2>2, <2>4 DEF PendingList!Table!Find
    <3>2. QED
      BY <3>1 DEF PendingList!Table!Next
  <2>5. CASE p_answer' = <<"erase", s, FALSE>>
    <3>1. DOMAIN R \ {s} = DOMAIN R
      BY <2>2
    <3> HIDE DEF R
    <3>2. R' = [x \in DOMAIN R \ {s} |-> R[x]]
      BY <1>0, <2>1, <3>1
    <3>3. PendingList!Table!Erase(s)
      BY <2>1, <2>2, <2>5, <3>2
         DEF PendingList!Table!Erase, PendingList!Table!Restrict, R
    <3>4. QED
      BY <3>3 DEF PendingList!Table!Next
  <2>6. QED
    BY <1>9, <2>4, <2>5 DEF PendingList!Missing
<1>10. CASE UNCHANGED PendingList!vars
  BY <1>3, <1>10 DEF PendingList!vars
<1>11. QED
  BY <1>4, <1>5, <1>6, <1>7, <1>8, <1>9, <1>10
     DEF PendingList!Next, PendingList!Table!Next

(* The vector of commands implements a table with room for every number.   *)
THEOREM PendingRefinesTable == PendingList!Spec => PendingList!ImplementsTable
<1>1. PendingList!Init => PendingList!Table!Init
  <2> SUFFICES ASSUME PendingList!Init PROVE PendingList!Records = << >>
    BY DEF PendingList!Init, PendingList!Table!Init
  <2>1. DOMAIN p_commands = {}
    BY DEF PendingList!Init
  <2>2. PendingList!Range(p_commands) = {}
    BY <2>1 DEF PendingList!Range
  <2> DEFINE S == {c.sequence : c \in PendingList!Range(p_commands)}
             D(s) == (CHOOSE c \in PendingList!Range(p_commands) : c.sequence = s).name
  <2>3. PendingList!Records = [s \in S |-> D(s)] /\ S = {}
    BY <2>2 DEF PendingList!Records
  <2> HIDE DEF S, D
  <2>4. QED
    BY <2>3
<1>2. PendingInv /\ PendingInv' /\ [PendingList!Next]_(PendingList!vars)
        => [PendingList!Table!Next]_(PendingList!Table!vars)
  BY PendingLooksUp, PendingSteps, PTL
<1>3. QED
  BY PendingInit, PendingNext, <1>1, <1>2, PTL
     DEF PendingList!Spec, PendingList!ImplementsTable, PendingList!Table!Spec

-----------------------------------------------------------------------------
(* Sequences of nodes, each with its address in the field `at` *)

Place(s, i) == IF i \in 1 .. Len(s) THEN s[i].at ELSE NULL
Ats(s, k) == {s[i].at : i \in k .. Len(s)}
Distinct(s) == \A i, j \in 1 .. Len(s) : s[i].at = s[j].at => i = j

ListNode == [at : Addr, data : Data]

(* A new first element shifts the others. *)
LEMMA Prepended ==
    ASSUME NEW S, NEW s \in Seq(S), NEW x \in S
    PROVE  /\ <<x>> \o s \in Seq(S) /\ Len(<<x>> \o s) = Len(s) + 1
           /\ (<<x>> \o s)[1] = x
           /\ \A i \in 1 .. Len(s) : (<<x>> \o s)[i + 1] = s[i]
<1>1. <<x>> \in Seq(S) /\ Len(<<x>>) = 1 /\ <<x>>[1] = x
  OBVIOUS
<1> DEFINE f == <<x>>
<1>2. f \in Seq(S) /\ Len(f) = 1 /\ f[1] = x /\ Len(s) \in Nat
  BY <1>1, LenProperties
<1> HIDE DEF f
<1>3. /\ f \o s \in Seq(S) /\ Len(f \o s) = Len(f) + Len(s)
      /\ \A i \in 1 .. Len(f) + Len(s) :
            (f \o s)[i] = IF i <= Len(f) THEN f[i] ELSE s[i - Len(f)]
  BY <1>2, ConcatProperties
<1>4. (f \o s)[1] = x
  BY <1>2, <1>3
<1>5. ASSUME NEW i \in 1 .. Len(s) PROVE (f \o s)[i + 1] = s[i]
  <2>1. i + 1 \in 1 .. Len(f) + Len(s) /\ ~(i + 1 <= Len(f)) /\ (i + 1) - Len(f) = i
    BY <1>2
  <2>2. QED
    BY <1>3, <2>1
<1>6. QED
  BY <1>2, <1>3, <1>4, <1>5 DEF f

(* A new last element leaves the others in their places. *)
LEMMA Appended ==
    ASSUME NEW S, NEW s \in Seq(S), NEW x \in S
    PROVE  /\ Append(s, x) \in Seq(S) /\ Len(Append(s, x)) = Len(s) + 1
           /\ Append(s, x)[Len(s) + 1] = x
           /\ \A i \in 1 .. Len(s) : Append(s, x)[i] = s[i]
  OBVIOUS

(* Without its first element a sequence is shifted back. *)
LEMMA Beheaded ==
    ASSUME NEW S, NEW s \in Seq(S), Len(s) # 0
    PROVE  /\ Tail(s) \in Seq(S) /\ Len(Tail(s)) = Len(s) - 1
           /\ \A i \in 1 .. Len(s) - 1 : Tail(s)[i] = s[i + 1]
<1>1. s # <<>>
  OBVIOUS
<1>2. QED
  BY <1>1, HeadTailProperties

LEMMA Turned ==
    ASSUME NEW S, NEW s \in Seq(S)
    PROVE  LET t == [i \in 1 .. Len(s) |-> s[Len(s) + 1 - i]]
           IN  /\ t \in Seq(S) /\ Len(t) = Len(s)
               /\ \A i \in 1 .. Len(s) : t[i] = s[Len(s) + 1 - i]
<1> DEFINE n == Len(s)
           t == [i \in 1 .. n |-> s[n + 1 - i]]
<1>1. n \in Nat
  BY LenProperties
<1>2. \A i \in 1 .. n : s[n + 1 - i] \in S
  BY <1>1, ElementOfSeq
<1> HIDE DEF n
<1>3. t \in Seq(S) /\ Len(t) = n /\ \A i \in 1 .. n : t[i] = s[n + 1 - i]
  BY <1>1, <1>2
<1>4. QED
  BY <1>3 DEF n

(* NULL is the place of no node. *)
LEMMA Places ==
    ASSUME NEW S, NEW s \in Seq(S), \A x \in S : x.at \in Addr
    PROVE  /\ Len(s) \in Nat
           /\ \A i \in 1 .. Len(s) : /\ Place(s, i) = s[i].at
                                     /\ s[i] \in S /\ s[i].at \in Addr /\ s[i].at # NULL
           /\ \A i : i \notin 1 .. Len(s) => Place(s, i) = NULL
           /\ \A i : Place(s, i) # NULL => i \in 1 .. Len(s)
<1>1. Len(s) \in Nat /\ \A i \in 1 .. Len(s) : s[i] \in S
  BY LenProperties, ElementOfSeq
<1>2. NULL \notin Addr
  BY HeapAssumption DEF List!ConstantsOK
<1>3. QED
  BY <1>1, <1>2 DEF Place

IsPrepended(t, s, x) ==
    /\ Distinct(t) /\ Ats(t, 1) = Ats(s, 1) \cup {x.at}
    /\ Len(t) = Len(s) + 1 /\ Len(s) \in Nat /\ t[1] = x
    /\ \A i \in 2 .. Len(s) + 1 : i - 1 \in 1 .. Len(s) /\ t[i] = s[i - 1]
    /\ Place(t, 1) = x.at
    /\ \A i \in 2 .. Len(s) + 2 : Place(t, i) = Place(s, i - 1)

IsAppended(t, s, x) ==
    /\ Distinct(t) /\ Ats(t, 1) = Ats(s, 1) \cup {x.at}
    /\ Len(t) = Len(s) + 1 /\ Len(s) \in Nat
    /\ t[Len(s) + 1] = x /\ \A i \in 1 .. Len(s) : t[i] = s[i]
    /\ Place(t, Len(s) + 1) = x.at /\ Place(t, Len(s) + 2) = NULL
    /\ \A i \in 0 .. Len(s) : Place(t, i) = Place(s, i)

IsBeheaded(t, s) ==
    /\ Distinct(t) /\ Ats(t, 1) = Ats(s, 1) \ {s[1].at}
    /\ Len(t) = Len(s) - 1 /\ Len(s) \in Nat
    /\ \A i \in 1 .. Len(t) : i + 1 \in 1 .. Len(s) /\ t[i] = s[i + 1]
    /\ \A i \in 1 .. Len(s) : Place(t, i) = Place(s, i + 1)

IsRemoved(t, s, p) ==
    /\ Distinct(t) /\ Ats(t, 1) = Ats(s, 1) \ {s[p].at}
    /\ Len(t) = Len(s) - 1 /\ Len(s) \in Nat
    /\ \A i \in 1 .. Len(t) : /\ i < p => i \in 1 .. Len(s) /\ t[i] = s[i]
                              /\ i >= p => i + 1 \in 1 .. Len(s) /\ t[i] = s[i + 1]
    /\ \A i \in 0 .. Len(s) : /\ i < p => Place(t, i) = Place(s, i)
                              /\ i >= p => Place(t, i) = Place(s, i + 1)

IsTurned(t, s) ==
    /\ Distinct(t) /\ Ats(t, 1) = Ats(s, 1)
    /\ Len(t) = Len(s) /\ Len(s) \in Nat
    /\ \A i \in 1 .. Len(s) : Len(s) + 1 - i \in 1 .. Len(s) /\ t[i] = s[Len(s) + 1 - i]
    /\ \A i \in 0 .. Len(s) + 1 : Place(t, i) = Place(s, Len(s) + 1 - i)

LEMMA PrependedNodes ==
    ASSUME NEW S, NEW s \in Seq(S), NEW x \in S, NEW t, t = <<x>> \o s,
           Distinct(s), x.at \notin Ats(s, 1)
    PROVE  t \in Seq(S) /\ IsPrepended(t, s, x)
<1>1. /\ t \in Seq(S) /\ Len(t) = Len(s) + 1 /\ Len(s) \in Nat /\ t[1] = x
      /\ \A i \in 1 .. Len(s) : t[i + 1] = s[i]
  BY Prepended, LenProperties
<1>2. \A i \in 2 .. Len(s) + 1 : i - 1 \in 1 .. Len(s) /\ t[i] = s[i - 1]
  BY <1>1
<1>3. \A i \in 1 .. Len(s) : s[i].at # x.at
  BY DEF Ats
<1>4. Distinct(t)
  BY <1>1, <1>2, <1>3 DEF Distinct
<1>5. ASSUME NEW e PROVE e \in Ats(t, 1) <=> e \in Ats(s, 1) \cup {x.at}
  <2>1. ASSUME NEW i \in 1 .. Len(t), e = t[i].at PROVE e \in Ats(s, 1) \cup {x.at}
    BY <1>1, <1>2, <2>1 DEF Ats
  <2>2. ASSUME NEW i \in 1 .. Len(s), e = s[i].at PROVE e \in Ats(t, 1)
    <3>1. i + 1 \in 1 .. Len(t) /\ e = t[i + 1].at
      BY <1>1, <2>2
    <3>2. QED
      BY <3>1 DEF Ats
  <2>3. x.at \in Ats(t, 1)
    <3>1. 1 \in 1 .. Len(t) /\ x.at = t[1].at
      BY <1>1
    <3>2. QED
      BY <3>1 DEF Ats
  <2>4. QED
    BY <2>1, <2>2, <2>3 DEF Ats
<1>6. QED
  BY <1>1, <1>2, <1>4, <1>5 DEF Place, IsPrepended

LEMMA AppendedNodes ==
    ASSUME NEW S, NEW s \in Seq(S), NEW x \in S, NEW t, t = Append(s, x),
           Distinct(s), x.at \notin Ats(s, 1)
    PROVE  t \in Seq(S) /\ IsAppended(t, s, x)
<1>1. /\ t \in Seq(S) /\ Len(t) = Len(s) + 1 /\ Len(s) \in Nat
      /\ t[Len(s) + 1] = x /\ \A i \in 1 .. Len(s) : t[i] = s[i]
  BY Appended, LenProperties
<1>2. \A i \in 1 .. Len(s) : s[i].at # x.at
  BY DEF Ats
<1>3. Distinct(t)
  BY <1>1, <1>2 DEF Distinct
<1>4. ASSUME NEW e PROVE e \in Ats(t, 1) <=> e \in Ats(s, 1) \cup {x.at}
  <2>1. ASSUME NEW i \in 1 .. Len(t), e = t[i].at PROVE e \in Ats(s, 1) \cup {x.at}
    BY <1>1, <2>1 DEF Ats
  <2>2. ASSUME NEW i \in 1 .. Len(s), e = s[i].at PROVE e \in Ats(t, 1)
    <3>1. i \in 1 .. Len(t) /\ e = t[i].at
      BY <1>1, <2>2
    <3>2. QED
      BY <3>1 DEF Ats
  <2>3. x.at \in Ats(t, 1)
    <3>1. Len(s) + 1 \in 1 .. Len(t) /\ x.at = t[Len(s) + 1].at
      BY <1>1
    <3>2. QED
      BY <3>1 DEF Ats
  <2>4. QED
    BY <2>1, <2>2, <2>3 DEF Ats
<1>5. QED
  BY <1>1, <1>3, <1>4 DEF Place, IsAppended

LEMMA BeheadedNodes ==
    ASSUME NEW S, NEW s \in Seq(S), NEW t, t = Tail(s), Distinct(s), Len(s) # 0
    PROVE  t \in Seq(S) /\ IsBeheaded(t, s)
<1>1. /\ t \in Seq(S) /\ Len(t) = Len(s) - 1 /\ Len(s) \in Nat
      /\ \A i \in 1 .. Len(s) - 1 : t[i] = s[i + 1]
  BY Beheaded, LenProperties
<1>2. \A i \in 1 .. Len(t) : i + 1 \in 1 .. Len(s) /\ t[i] = s[i + 1]
  BY <1>1
<1>3. Distinct(t)
  <2> SUFFICES ASSUME NEW i \in 1 .. Len(t), NEW j \in 1 .. Len(t), t[i].at = t[j].at
               PROVE  i = j
    BY DEF Distinct
  <2>1. i + 1 = j + 1
    BY <1>2 DEF Distinct
  <2>2. QED
    BY <2>1
<1>4. ASSUME NEW e PROVE e \in Ats(t, 1) <=> e \in Ats(s, 1) \ {s[1].at}
  <2>1. ASSUME NEW i \in 1 .. Len(t), e = t[i].at PROVE e \in Ats(s, 1) \ {s[1].at}
    <3>1. i + 1 \in 1 .. Len(s) /\ e = s[i + 1].at /\ i + 1 # 1 /\ 1 \in 1 .. Len(s)
      BY <1>1, <1>2, <2>1
    <3>2. QED
      BY <3>1 DEF Ats, Distinct
  <2>2. ASSUME NEW i \in 1 .. Len(s), e = s[i].at, e # s[1].at PROVE e \in Ats(t, 1)
    <3>1. i - 1 \in 1 .. Len(t) /\ (i - 1) + 1 = i
      BY <1>1, <2>2
    <3>2. e = t[i - 1].at
      BY <1>2, <2>2, <3>1
    <3>3. QED
      BY <3>1, <3>2 DEF Ats
  <2>3. QED
    BY <2>1, <2>2 DEF Ats
<1>5. \A i \in 1 .. Len(s) : Place(t, i) = Place(s, i + 1)
  BY <1>1 DEF Place
<1>6. QED
  BY <1>1, <1>2, <1>3, <1>4, <1>5 DEF IsBeheaded

LEMMA RemovedNodes ==
    ASSUME NEW S, NEW s \in Seq(S), NEW p \in 1 .. Len(s), NEW t, t = Without(s, p), Distinct(s)
    PROVE  t \in Seq(S) /\ IsRemoved(t, s, p)
<1>1. /\ t \in Seq(S) /\ Len(t) = Len(s) - 1 /\ Len(s) \in Nat /\ p \in Nat
      /\ \A i \in 1 .. Len(s) - 1 : t[i] = IF i < p THEN s[i] ELSE s[i + 1]
  <2>1. /\ Without(s, p) \in Seq(S) /\ Len(Without(s, p)) = Len(s) - 1
        /\ \A i \in 1 .. Len(s) - 1 :
              Without(s, p)[i] = IF i < p THEN s[i] ELSE s[i + 1]
    BY WithoutProperties
  <2>2. Len(s) \in Nat
    BY LenProperties
  <2>3. QED
    BY <2>1, <2>2
<1>2. \A i \in 1 .. Len(t) : /\ i < p => i \in 1 .. Len(s) /\ t[i] = s[i]
                             /\ i >= p => i + 1 \in 1 .. Len(s) /\ t[i] = s[i + 1]
  BY <1>1
<1> DEFINE Was(i) == IF i < p THEN i ELSE i + 1
<1>3. \A i \in 1 .. Len(t) : /\ Was(i) \in 1 .. Len(s) /\ Was(i) # p /\ t[i] = s[Was(i)]
                             /\ \A j \in 1 .. Len(t) : Was(i) = Was(j) => i = j
  BY <1>1, <1>2
<1>4. \A k \in 1 .. Len(s) : k # p => \E i \in 1 .. Len(t) : Was(i) = k
  <2> SUFFICES ASSUME NEW k \in 1 .. Len(s), k # p
               PROVE  \E i \in 1 .. Len(t) : Was(i) = k
    OBVIOUS
  <2>1. CASE k < p
    BY <1>1, <2>1
  <2>2. CASE k > p
    <3>1. k - 1 \in 1 .. Len(t) /\ Was(k - 1) = k
      BY <1>1, <2>2
    <3>2. QED
      BY <3>1
  <2>3. QED
    BY <1>1, <2>1, <2>2
<1> HIDE DEF Was
<1>5. Distinct(t)
  <2> SUFFICES ASSUME NEW i \in 1 .. Len(t), NEW j \in 1 .. Len(t), t[i].at = t[j].at
               PROVE  i = j
    BY DEF Distinct
  <2>1. s[Was(i)].at = s[Was(j)].at
    BY <1>3
  <2>2. QED
    BY <1>3, <2>1 DEF Distinct
<1>6. ASSUME NEW e PROVE e \in Ats(t, 1) <=> e \in Ats(s, 1) \ {s[p].at}
  <2>1. ASSUME NEW i \in 1 .. Len(t), e = t[i].at PROVE e \in Ats(s, 1) \ {s[p].at}
    BY <1>3, <2>1 DEF Ats, Distinct
  <2>2. ASSUME NEW k \in 1 .. Len(s), e = s[k].at, e # s[p].at PROVE e \in Ats(t, 1)
    <3>1. PICK i \in 1 .. Len(t) : Was(i) = k
      BY <1>4, <2>2
    <3>2. QED
      BY <1>3, <2>2, <3>1 DEF Ats
  <2>3. QED
    BY <2>1, <2>2 DEF Ats
<1>7. \A i \in 0 .. Len(s) : /\ i < p => Place(t, i) = Place(s, i)
                             /\ i >= p => Place(t, i) = Place(s, i + 1)
  BY <1>1 DEF Place
<1>8. QED
  BY <1>1, <1>2, <1>5, <1>6, <1>7 DEF IsRemoved

LEMMA TurnedNodes ==
    ASSUME NEW S, NEW s \in Seq(S), NEW t, Distinct(s),
           t = [i \in 1 .. Len(s) |-> s[Len(s) + 1 - i]]
    PROVE  t \in Seq(S) /\ IsTurned(t, s)
<1>1. /\ t \in Seq(S) /\ Len(t) = Len(s) /\ Len(s) \in Nat
      /\ \A i \in 1 .. Len(s) : t[i] = s[Len(s) + 1 - i]
  BY Turned, LenProperties
<1>2. \A i \in 1 .. Len(s) : /\ Len(s) + 1 - i \in 1 .. Len(s) /\ t[i] = s[Len(s) + 1 - i]
                             /\ Len(s) + 1 - (Len(s) + 1 - i) = i
  BY <1>1
<1>3. Distinct(t)
  <2> SUFFICES ASSUME NEW i \in 1 .. Len(t), NEW j \in 1 .. Len(t), t[i].at = t[j].at
               PROVE  i = j
    BY DEF Distinct
  <2>1. Len(s) + 1 - i = Len(s) + 1 - j
    BY <1>1, <1>2 DEF Distinct
  <2>2. QED
    BY <1>1, <2>1
<1>4. ASSUME NEW e PROVE e \in Ats(t, 1) <=> e \in Ats(s, 1)
  <2>1. ASSUME NEW i \in 1 .. Len(t), e = t[i].at PROVE e \in Ats(s, 1)
    BY <1>1, <1>2, <2>1 DEF Ats
  <2>2. ASSUME NEW k \in 1 .. Len(s), e = s[k].at PROVE e \in Ats(t, 1)
    <3>1. e = t[Len(s) + 1 - k].at /\ Len(s) + 1 - k \in 1 .. Len(t)
      BY <1>1, <1>2, <2>2
    <3>2. QED
      BY <3>1 DEF Ats
  <2>3. QED
    BY <2>1, <2>2 DEF Ats
<1>5. \A i \in 0 .. Len(s) + 1 : Place(t, i) = Place(s, Len(s) + 1 - i)
  <2> SUFFICES ASSUME NEW i \in 0 .. Len(s) + 1 PROVE Place(t, i) = Place(s, Len(s) + 1 - i)
    OBVIOUS
  <2>1. i \in 1 .. Len(t) <=> Len(s) + 1 - i \in 1 .. Len(s)
    BY <1>1
  <2>2. QED
    BY <1>1, <1>2, <2>1 DEF Place
<1>6. QED
  BY <1>1, <1>2, <1>3, <1>4, <1>5 DEF IsTurned

Smaller == {ss \in Nat \X Nat : ss[1] < ss[2]}

(* A set of natural numbers that has an element has a least one. *)
LEMMA LeastOf ==
    ASSUME NEW T, T \subseteq Nat, T # {}
    PROVE  \E x \in T : \A y \in T : x <= y
<1>1. IsWellFoundedOn(Smaller, Nat)
  BY NatLessThanWellFounded DEF OpToRel, Smaller
<1>2. PICK x \in T : \A y \in T : ~(<<y, x>> \in Smaller)
  BY <1>1, WFMin
<1>3. ASSUME NEW y \in T PROVE x <= y
  <2>1. x \in Nat /\ y \in Nat
    OBVIOUS
  <2>2. ~(<<y, x>> \in Smaller)
    BY <1>2
  <2>3. ~(y < x)
    BY <2>1, <2>2 DEF Smaller
  <2>4. QED
    BY <2>1, <2>3
<1>4. QED
  BY <1>3

(* What is held and linked leads along a chain to its end. *)
LEMMA Reached ==
    ASSUME NEW S, NEW m \in Nat, NEW f, \A i \in 0 .. m - 1 : f[i] # NULL,
           m > 0 => f[0] \in S \cup {NULL},
           \A i \in 0 .. m - 2 : f[i] \in S => f[i + 1] \in S \cup {NULL}
    PROVE  \A i \in 0 .. m - 1 : f[i] \in S
<1> DEFINE T == {i \in 0 .. m - 1 : f[i] \notin S}
<1> SUFFICES ASSUME T # {} PROVE FALSE
  OBVIOUS
<1>0. T \subseteq Nat
  OBVIOUS
<1> HIDE DEF T
<1>1. PICK i \in T : \A j \in T : i <= j
  BY <1>0, LeastOf
<1> USE DEF T
<1>2. i \in 0 .. m - 1 /\ f[i] \notin S
  OBVIOUS
<1>3. i # 0
  BY <1>2
<1>4. i - 1 \in 0 .. m - 2 /\ i - 1 \in 0 .. m - 1 /\ (i - 1) + 1 = i /\ ~(i <= i - 1)
  BY <1>2, <1>3
<1>5. f[i - 1] \in S
  BY <1>1, <1>4
<1>6. QED
  BY <1>2, <1>4, <1>5

LEMMA PlacesWithin ==
    ASSUME NEW s \in Seq(ListNode)
    PROVE  /\ \A i : Place(s, i) \in Ats(s, 1) \cup {NULL}
           /\ \A k \in Nat, i \in Int : i >= k => Place(s, i) \in Ats(s, k) \cup {NULL}
<1>1. Len(s) \in Nat
  BY LenProperties
<1>2. \A i : Place(s, i) \in Ats(s, 1) \cup {NULL}
  BY <1>1 DEF Place, Ats
<1>3. ASSUME NEW k \in Nat, NEW i \in Int, i >= k
      PROVE  Place(s, i) \in Ats(s, k) \cup {NULL}
  <2>1. CASE i \in 1 .. Len(s)
    <3>1. i \in k .. Len(s)
      BY <1>1, <1>3, <2>1
    <3>2. QED
      BY <2>1, <3>1 DEF Place, Ats
  <2>2. CASE i \notin 1 .. Len(s)
    BY <2>2 DEF Place
  <2>3. QED
    BY <2>1, <2>2
<1>4. QED
  BY <1>2, <1>3

(* A set that has the node k of a chain and with each node its successor   *)
(* has all that follow.                                                    *)
LEMMA ChainReached ==
    ASSUME NEW s \in Seq(ListNode), NEW h, NEW S, NEW k \in 1 .. Len(s) + 1,
           \A i \in k .. Len(s) : h[s[i].at].next = Place(s, i + 1),
           \A a \in S : h[a].next \in S \cup {NULL}, Place(s, k) \in S \cup {NULL}
    PROVE  Ats(s, k) \subseteq S
<1>1. \A x \in ListNode : x.at \in Addr
  BY DEF ListNode
<1>2. Len(s) \in Nat /\ \A i \in 1 .. Len(s) : Place(s, i) = s[i].at /\ s[i].at # NULL
  BY <1>1, Places
<1> DEFINE m == Len(s) + 1 - k
           f == [i \in 0 .. m - 1 |-> Place(s, k + i)]
<1>3. /\ m \in Nat /\ \A i \in 0 .. m - 1 : k + i \in k .. Len(s) /\ k + i \in 1 .. Len(s)
      /\ \A i \in k .. Len(s) : i - k \in 0 .. m - 1 /\ k + (i - k) = i /\ i \in 1 .. Len(s)
  BY <1>2
<1> HIDE DEF m
<1>4. \A i \in 0 .. m - 2 : /\ i \in 0 .. m - 1 /\ i + 1 \in 0 .. m - 1
                            /\ k + (i + 1) = (k + i) + 1
  BY <1>2, <1>3
<1>5. \A i \in 0 .. m - 1 : f[i] # NULL
  BY <1>2, <1>3
<1>6. ASSUME m > 0 PROVE f[0] \in S \cup {NULL}
  <2>1. 0 \in 0 .. m - 1 /\ k + 0 = k
    BY <1>2, <1>3, <1>6
  <2>2. QED
    BY <2>1
<1>7. ASSUME NEW i \in 0 .. m - 2, f[i] \in S PROVE f[i + 1] \in S \cup {NULL}
  <2>1. /\ i \in 0 .. m - 1 /\ i + 1 \in 0 .. m - 1 /\ k + i \in k .. Len(s)
        /\ k + i \in 1 .. Len(s) /\ k + (i + 1) = (k + i) + 1
    BY <1>3, <1>4
  <2>2. f[i] = s[k + i].at /\ f[i + 1] = Place(s, (k + i) + 1)
    BY <1>2, <2>1
  <2>3. h[s[k + i].at].next = Place(s, (k + i) + 1)
    BY <2>1
  <2>4. QED
    BY <1>7, <2>2, <2>3
<1>8. \A i \in 0 .. m - 1 : f[i] \in S
  <2> HIDE DEF f
  <2>1. QED
    BY <1>3, <1>5, <1>6, <1>7, Reached
<1>9. ASSUME NEW i \in k .. Len(s) PROVE s[i].at \in S
  <2>1. i - k \in 0 .. m - 1 /\ f[i - k] = Place(s, i) /\ Place(s, i) = s[i].at
    BY <1>2, <1>3
  <2>2. QED
    BY <1>8, <2>1
<1>10. QED
  BY <1>9 DEF Ats

(* So it is on the turned side of a list, from the node k - 1 down. *)
LEMMA TurnedReached ==
    ASSUME NEW s \in Seq(ListNode), NEW h, NEW S, NEW k \in 1 .. Len(s) + 1,
           \A i \in 1 .. k - 1 : h[s[i].at].next = Place(s, i - 1),
           \A a \in S : h[a].next \in S \cup {NULL}, Place(s, k - 1) \in S \cup {NULL}
    PROVE  \A i \in 1 .. k - 1 : s[i].at \in S
<1>1. \A x \in ListNode : x.at \in Addr
  BY DEF ListNode
<1>2. Len(s) \in Nat /\ \A i \in 1 .. Len(s) : Place(s, i) = s[i].at /\ s[i].at # NULL
  BY <1>1, Places
<1> DEFINE m == k - 1
           f == [i \in 0 .. m - 1 |-> Place(s, m - i)]
<1>3. /\ m \in Nat /\ m = k - 1
      /\ \A i \in 0 .. m - 1 : m - i \in 1 .. k - 1 /\ m - i \in 1 .. Len(s)
      /\ \A i \in 1 .. k - 1 : m - i \in 0 .. m - 1 /\ m - (m - i) = i /\ i \in 1 .. Len(s)
  BY <1>2
<1> HIDE DEF m
<1>4. \A i \in 0 .. m - 2 : /\ i \in 0 .. m - 1 /\ i + 1 \in 0 .. m - 1
                            /\ m - (i + 1) = (m - i) - 1
  BY <1>3
<1>5. \A i \in 0 .. m - 1 : f[i] # NULL
  BY <1>2, <1>3
<1>6. ASSUME m > 0 PROVE f[0] \in S \cup {NULL}
  <2>1. 0 \in 0 .. m - 1 /\ m - 0 = k - 1
    BY <1>3, <1>6
  <2>2. QED
    BY <2>1
<1>7. ASSUME NEW i \in 0 .. m - 2, f[i] \in S PROVE f[i + 1] \in S \cup {NULL}
  <2>1. i \in 0 .. m - 1 /\ i + 1 \in 0 .. m - 1 /\ m - (i + 1) = (m - i) - 1
    BY <1>4
  <2>2. m - i \in 1 .. k - 1 /\ m - i \in 1 .. Len(s)
    BY <1>3, <2>1
  <2>3. f[i] = s[m - i].at /\ f[i + 1] = Place(s, (m - i) - 1)
    BY <1>2, <2>1, <2>2
  <2>4. h[s[m - i].at].next = Place(s, (m - i) - 1)
    BY <2>2
  <2>5. QED
    BY <1>7, <2>3, <2>4
<1>8. \A i \in 0 .. m - 1 : f[i] \in S
  <2> HIDE DEF f
  <2>1. QED
    BY <1>3, <1>5, <1>6, <1>7, Reached
<1>9. ASSUME NEW i \in 1 .. k - 1 PROVE s[i].at \in S
  <2>1. m - i \in 0 .. m - 1 /\ f[m - i] = Place(s, i) /\ Place(s, i) = s[i].at
    BY <1>2, <1>3
  <2>2. QED
    BY <1>8, <2>1
<1>10. QED
  BY <1>9

-----------------------------------------------------------------------------
(* The singly linked list (data-structure/linked_list*.c) *)

(* From the node k on, the heap holds the nodes of s, each with its successor. *)
Chained(h, s, k) ==
    \A i \in k .. Len(s) : h[s[i].at] = [data |-> s[i].data, next |-> Place(s, i + 1)]

(* The first k - 1 nodes of s are turned round. *)
HalfTurned(h, s, k) ==
    \A i \in 1 .. Len(s) :
        h[s[i].at] = [data |-> s[i].data,
                      next |-> Place(s, IF i < k THEN i - 1 ELSE i + 1)]

ListTyping == /\ l_contents \in Seq(ListNode) /\ Distinct(l_contents)
              /\ l_pc \in {"idle", "tail", "delete", "reverse", "free"}

(* The nodes of the whole list, and the one that is being inserted. *)
ListWhole == /\ DOMAIN l_heap = Ats(l_contents, 1)
                                \cup IF l_pc = "tail" THEN {l_arg.at} ELSE {}
             /\ l_head = Place(l_contents, 1)
             /\ l_pc # "reverse" => Chained(l_heap, l_contents, 1)

(* The loops stand before a node of the list, or after its last. *)
ListTail == /\ l_arg \in ListNode /\ l_arg.at \notin Ats(l_contents, 1)
            /\ l_heap[l_arg.at] = [data |-> l_arg.data, next |-> NULL]
            /\ \E k \in 1 .. Len(l_contents) : l_curr = Place(l_contents, k)

ListDelete == /\ Len(l_contents) > 0 /\ l_contents[1].data # l_arg
              /\ \E k \in 1 .. Len(l_contents) + 1 :
                    /\ l_curr = Place(l_contents, k) /\ l_prev = Place(l_contents, k - 1)
                    /\ \A i \in 1 .. k - 1 : l_contents[i].data # l_arg

ListReverse == \E k \in 1 .. Len(l_contents) + 1 :
                  /\ l_curr = Place(l_contents, k) /\ l_prev = Place(l_contents, k - 1)
                  /\ HalfTurned(l_heap, l_contents, k)

ListFree == \E k \in 1 .. Len(l_contents) + 1 :
               /\ l_curr = Place(l_contents, k)
               /\ DOMAIN l_heap = Ats(l_contents, k)
               /\ Chained(l_heap, l_contents, k)

ListInv == /\ ListTyping
           /\ l_pc # "free" => ListWhole
           /\ l_pc = "tail" => ListTail
           /\ l_pc = "delete" => ListDelete
           /\ l_pc = "reverse" => ListReverse
           /\ l_pc = "free" => ListFree

LEMMA ListInit == List!Init => ListInv
  BY DEF List!Init, ListInv, ListTyping, ListWhole, Distinct, Ats, Place, Chained

LEMMA ListPlaces ==
    ASSUME ListTyping
    PROVE  /\ Len(l_contents) \in Nat
           /\ \A i \in 1 .. Len(l_contents) :
                 /\ Place(l_contents, i) = l_contents[i].at
                 /\ l_contents[i] \in ListNode
                 /\ l_contents[i].at \in Addr /\ l_contents[i].at # NULL
           /\ \A i : i \notin 1 .. Len(l_contents) => Place(l_contents, i) = NULL
           /\ \A i : Place(l_contents, i) # NULL => i \in 1 .. Len(l_contents)
<1>1. l_contents \in Seq(ListNode) /\ \A x \in ListNode : x.at \in Addr
  BY DEF ListTyping, ListNode
<1>2. QED
  BY <1>1, Places

(* Outside the two loops that break the chain, a node leads to the next. *)
LEMMA ListLink ==
    ASSUME ListTyping, ListWhole, l_pc \notin {"reverse", "free"},
           NEW k \in 1 .. Len(l_contents), NEW a, a = Place(l_contents, k)
    PROVE  /\ a = l_contents[k].at /\ a \in DOMAIN l_heap
           /\ l_heap[a] = [data |-> l_contents[k].data, next |-> Place(l_contents, k + 1)]
           /\ l_heap[a].data = l_contents[k].data
           /\ l_heap[a].next = Place(l_contents, k + 1)
<1>1. a = l_contents[k].at
  BY ListPlaces
<1>2. a \in DOMAIN l_heap
  BY <1>1 DEF ListWhole, Ats
<1>3. l_heap[a] = [data |-> l_contents[k].data, next |-> Place(l_contents, k + 1)]
  BY <1>1 DEF ListWhole, Chained
<1>4. QED
  BY <1>1, <1>2, <1>3

LEMMA ListInsertHead ==
    ASSUME ListInv, NEW v \in Data, List!insertAtHead(v) PROVE ListInv'
<1> DEFINE n == Len(l_contents)
<1>1. PICK a \in Addr \ DOMAIN l_heap :
          /\ l_heap' = List!Allocated(a, [data |-> v, next |-> l_head])
          /\ l_head' = a
          /\ l_contents' = <<[at |-> a, data |-> v]>> \o l_contents
  BY DEF List!insertAtHead
<1>2. ListTyping /\ ListWhole /\ l_pc = "idle" /\ l_pc' = "idle"
  BY DEF ListInv, List!insertAtHead, List!locals
<1> DEFINE x == [at |-> a, data |-> v]
<1>3. x \in ListNode /\ x.at = a /\ x.data = v
  BY DEF ListNode
<1>4. DOMAIN l_heap = Ats(l_contents, 1) /\ Distinct(l_contents) /\ l_contents \in Seq(ListNode)
  BY <1>2 DEF ListWhole, ListTyping
<1>5. x.at \notin Ats(l_contents, 1) /\ l_contents' = <<x>> \o l_contents
  BY <1>1, <1>4
<1> HIDE DEF x
<1>6. /\ Distinct(l_contents') /\ Ats(l_contents', 1) = Ats(l_contents, 1) \cup {x.at}
      /\ l_contents' \in Seq(ListNode) /\ Len(l_contents') = n + 1 /\ n \in Nat
      /\ l_contents'[1] = x
      /\ \A i \in 2 .. n + 1 : i - 1 \in 1 .. n /\ l_contents'[i] = l_contents[i - 1]
      /\ Place(l_contents', 1) = x.at
      /\ \A i \in 2 .. n + 2 : Place(l_contents', i) = Place(l_contents, i - 1)
  <2>1. l_contents' \in Seq(ListNode) /\ IsPrepended(l_contents', l_contents, x)
    BY <1>3, <1>4, <1>5, PrependedNodes
  <2>2. QED
    BY <2>1 DEF IsPrepended
<1>7. /\ DOMAIN l_heap' = DOMAIN l_heap \cup {a}
      /\ l_heap'[a] = [data |-> v, next |-> l_head]
      /\ \A b \in DOMAIN l_heap : b # a => l_heap'[b] = l_heap[b]
  BY <1>1 DEF List!Allocated
<1>8. Chained(l_heap', l_contents', 1)
  <2> SUFFICES ASSUME NEW i \in 1 .. n + 1
               PROVE  l_heap'[l_contents'[i].at] = [data |-> l_contents'[i].data,
                                                    next |-> Place(l_contents', i + 1)]
    BY <1>6 DEF Chained
  <2>1. CASE i = 1
    <3>1. Place(l_contents', 2) = l_head
      BY <1>2, <1>6 DEF ListWhole
    <3>2. QED
      BY <1>3, <1>6, <1>7, <2>1, <3>1
  <2>2. CASE i > 1
    <3>1. i \in 2 .. n + 1 /\ i - 1 \in 1 .. n /\ i + 1 \in 2 .. n + 2
          /\ (i + 1) - 1 = i /\ (i - 1) + 1 = i
      BY <1>6, <2>2
    <3>2. l_heap[l_contents[i - 1].at] = [data |-> l_contents[i - 1].data,
                                          next |-> Place(l_contents, i)]
      BY <1>2, <3>1 DEF ListWhole, Chained
    <3>3. l_contents[i - 1].at \in DOMAIN l_heap /\ l_contents[i - 1].at # a
      BY <1>3, <1>4, <1>5, <3>1 DEF Ats
    <3>4. QED
      BY <1>6, <1>7, <3>1, <3>2, <3>3
  <2>3. QED
    BY <1>6, <2>1, <2>2
<1>9. QED
  BY <1>1, <1>2, <1>3, <1>4, <1>6, <1>7, <1>8 DEF ListInv, ListTyping, ListWhole

LEMMA ListInsertTail ==
    ASSUME ListInv, NEW v \in Data, List!insertAtTail(v) PROVE ListInv'
<1> DEFINE n == Len(l_contents)
<1>1. PICK a \in Addr \ DOMAIN l_heap :
          /\ l_heap' = List!Allocated(a, [data |-> v, next |-> NULL])
          /\ IF l_head = NULL
             THEN /\ l_pc = "idle" /\ l_head' = a
                  /\ l_contents' = <<[at |-> a, data |-> v]>>
                  /\ UNCHANGED List!locals
             ELSE /\ List!Enter("tail", [at |-> a, data |-> v])
                  /\ UNCHANGED <<l_head, l_contents>>
  BY DEF List!insertAtTail
<1>2. ListTyping /\ ListWhole /\ l_pc = "idle"
  BY <1>1 DEF ListInv, List!Enter
<1> DEFINE x == [at |-> a, data |-> v]
<1>3. x \in ListNode /\ x.at = a /\ x.data = v
  BY DEF ListNode
<1>4. DOMAIN l_heap = Ats(l_contents, 1) /\ Distinct(l_contents) /\ l_contents \in Seq(ListNode)
      /\ l_head = Place(l_contents, 1) /\ Chained(l_heap, l_contents, 1)
  BY <1>2 DEF ListWhole, ListTyping
<1>5. /\ DOMAIN l_heap' = DOMAIN l_heap \cup {a}
      /\ l_heap'[a] = [data |-> v, next |-> NULL]
      /\ \A b \in DOMAIN l_heap : b # a => l_heap'[b] = l_heap[b]
  BY <1>1 DEF List!Allocated
<1>6. x.at \notin Ats(l_contents, 1)
  BY <1>1, <1>4
<1>7. CASE l_head = NULL
  <2>1. n \in Nat /\ 1 \notin 1 .. n
    BY <1>2, <1>4, <1>7, ListPlaces
  <2>2. n = 0 /\ Ats(l_contents, 1) = {}
    BY <2>1 DEF Ats
  <2>3. l_contents' = <<x>> /\ l_head' = a /\ l_pc' = "idle"
    BY <1>1, <1>2, <1>7 DEF List!locals
  <2> HIDE DEF x
  <2>4. l_contents' \in Seq(ListNode) /\ Len(l_contents') = 1 /\ l_contents'[1] = x
    BY <1>3, <2>3
  <2>5. Distinct(l_contents') /\ Ats(l_contents', 1) = {x.at}
    BY <2>4 DEF Distinct, Ats
  <2>6. Place(l_contents', 1) = a /\ Place(l_contents', 2) = NULL
    BY <1>3, <2>4 DEF Place
  <2>7. Chained(l_heap', l_contents', 1)
    BY <1>3, <1>5, <2>4, <2>6 DEF Chained
  <2>8. DOMAIN l_heap' = Ats(l_contents', 1)
    BY <1>3, <1>4, <1>5, <2>2, <2>5
  <2>9. QED
    BY <2>3, <2>4, <2>5, <2>6, <2>7, <2>8 DEF ListInv, ListTyping, ListWhole
<1>8. CASE l_head # NULL
  <2>1. /\ l_pc' = "tail" /\ l_curr' = l_head /\ l_arg' = x
        /\ l_head' = l_head /\ l_contents' = l_contents
    BY <1>1, <1>8 DEF List!Enter
  <2> HIDE DEF x
  <2>2. 1 \in 1 .. n
    BY <1>2, <1>4, <1>8, ListPlaces
  <2>3. Chained(l_heap', l_contents, 1)
    <3> SUFFICES ASSUME NEW i \in 1 .. n
                 PROVE  l_heap'[l_contents[i].at] = l_heap[l_contents[i].at]
      BY <1>4 DEF Chained
    <3>1. l_contents[i].at \in DOMAIN l_heap /\ l_contents[i].at # a
      BY <1>3, <1>4, <1>6 DEF Ats
    <3>2. QED
      BY <1>5, <3>1
  <2>4. ListTail'
    BY <1>3, <1>4, <1>5, <1>6, <2>1, <2>2 DEF ListTail
  <2>5. QED
    BY <1>2, <1>3, <1>4, <1>5, <2>1, <2>3, <2>4 DEF ListInv, ListTyping, ListWhole
<1>9. QED
  BY <1>7, <1>8

LEMMA ListTailStep == ASSUME ListInv, List!TailStep PROVE ListInv'
<1> DEFINE n == Len(l_contents)
<1>1. ListTyping /\ ListWhole /\ ListTail /\ l_pc = "tail"
  BY DEF ListInv, List!TailStep
<1>2. PICK k \in 1 .. n : l_curr = Place(l_contents, k)
  BY <1>1 DEF ListTail
<1>3. l_heap[l_curr].next = Place(l_contents, k + 1)
  BY <1>1, <1>2, ListLink
<1>4. k + 1 \in 1 .. n /\ l_curr' = Place(l_contents, k + 1)
  BY <1>1, <1>3, ListPlaces DEF List!TailStep
<1>5. ListTail'
  BY <1>1, <1>4 DEF ListTail, List!TailStep
<1>6. QED
  BY <1>1, <1>5 DEF ListInv, ListTyping, ListWhole, List!TailStep

LEMMA ListTailEnd == ASSUME ListInv, List!TailEnd PROVE ListInv'
<1> DEFINE n == Len(l_contents)
<1>1. ListTyping /\ ListWhole /\ ListTail /\ l_pc = "tail"
  BY DEF ListInv, List!TailEnd
<1>2. PICK k \in 1 .. n : l_curr = Place(l_contents, k)
  BY <1>1 DEF ListTail
<1>3. n \in Nat /\ l_curr = l_contents[k].at
  BY <1>1, <1>2, ListPlaces
<1>4. /\ l_heap[l_curr] = [data |-> l_contents[k].data, next |-> Place(l_contents, k + 1)]
      /\ l_heap[l_curr].next = Place(l_contents, k + 1)
  BY <1>1, <1>2, ListLink
<1>5. k = n
  <2>1. Place(l_contents, k + 1) = NULL
    BY <1>4 DEF List!TailEnd
  <2>2. QED
    BY <1>1, <1>3, <2>1, ListPlaces
<1>6. /\ l_arg \in ListNode /\ l_arg.at \notin Ats(l_contents, 1)
      /\ l_heap[l_arg.at] = [data |-> l_arg.data, next |-> NULL]
      /\ DOMAIN l_heap = Ats(l_contents, 1) \cup {l_arg.at}
      /\ Distinct(l_contents) /\ l_contents \in Seq(ListNode)
      /\ l_contents' = Append(l_contents, l_arg)
      /\ l_heap' = [l_heap EXCEPT ![l_curr].next = l_arg.at]
      /\ l_head' = l_head /\ l_pc' = "idle"
  BY <1>1 DEF ListTail, ListWhole, ListTyping, List!TailEnd, List!Leave
<1>7. /\ Distinct(l_contents') /\ Ats(l_contents', 1) = Ats(l_contents, 1) \cup {l_arg.at}
      /\ l_contents' \in Seq(ListNode) /\ Len(l_contents') = n + 1
      /\ l_contents'[n + 1] = l_arg /\ \A i \in 1 .. n : l_contents'[i] = l_contents[i]
      /\ Place(l_contents', n + 1) = l_arg.at /\ Place(l_contents', n + 2) = NULL
      /\ \A i \in 0 .. n : Place(l_contents', i) = Place(l_contents, i)
  <2>1. l_contents' \in Seq(ListNode) /\ IsAppended(l_contents', l_contents, l_arg)
    BY <1>6, AppendedNodes
  <2>2. QED
    BY <2>1 DEF IsAppended
<1>8. /\ DOMAIN l_heap' = DOMAIN l_heap
      /\ l_heap'[l_curr] = [data |-> l_contents[n].data, next |-> l_arg.at]
      /\ \A b \in DOMAIN l_heap : b # l_curr => l_heap'[b] = l_heap[b]
  <2>1. l_curr \in DOMAIN l_heap
    BY <1>3, <1>6 DEF Ats
  <2>2. QED
    BY <1>4, <1>5, <1>6, <2>1
<1>9. Chained(l_heap', l_contents', 1)
  <2> SUFFICES ASSUME NEW i \in 1 .. n + 1
               PROVE  l_heap'[l_contents'[i].at] = [data |-> l_contents'[i].data,
                                                    next |-> Place(l_contents', i + 1)]
    BY <1>7 DEF Chained
  <2>1. CASE i = n + 1
    <3>1. l_arg.at # l_curr /\ l_arg.at \in DOMAIN l_heap
      BY <1>3, <1>6 DEF Ats
    <3>2. i + 1 = n + 2
      BY <1>3, <2>1
    <3>3. QED
      BY <1>6, <1>7, <1>8, <2>1, <3>1, <3>2
  <2>2. CASE i = n
    BY <1>3, <1>5, <1>7, <1>8, <2>2
  <2>3. CASE i < n
    <3>1. i \in 1 .. n /\ i + 1 \in 0 .. n /\ n \in 1 .. n
      BY <1>3, <2>3
    <3>2. l_contents[i].at # l_curr /\ l_contents[i].at \in DOMAIN l_heap
      BY <1>3, <1>5, <1>6, <2>3, <3>1 DEF Distinct, Ats
    <3>3. l_heap[l_contents[i].at] = [data |-> l_contents[i].data,
                                      next |-> Place(l_contents, i + 1)]
      BY <1>1, <3>1 DEF ListWhole, Chained
    <3>4. QED
      BY <1>7, <1>8, <3>1, <3>2, <3>3
  <2>4. QED
    BY <1>3, <2>1, <2>2, <2>3
<1>10. l_head' = Place(l_contents', 1)
  <2>1. 1 \in 0 .. n
    BY <1>3
  <2>2. QED
    BY <1>1, <1>6, <1>7, <2>1 DEF ListWhole
<1>11. QED
  BY <1>6, <1>7, <1>8, <1>9, <1>10 DEF ListInv, ListTyping, ListWhole

LEMMA ListDeleteHead ==
    ASSUME ListInv, NEW v \in Data, List!DeleteHead(v) PROVE ListInv'
<1> DEFINE n == Len(l_contents)
<1>1. ListTyping /\ ListWhole /\ l_pc = "idle" /\ l_pc' = "idle"
  BY DEF ListInv, List!DeleteHead, List!locals
<1>2. /\ l_head # NULL /\ l_head = Place(l_contents, 1)
      /\ l_head' = l_heap[l_head].next
      /\ l_heap' = List!Freed(l_head, l_heap) /\ l_contents' = Tail(l_contents)
  BY <1>1 DEF List!DeleteHead, ListWhole
<1>3. 1 \in 1 .. n /\ n \in Nat /\ n # 0
  BY <1>1, <1>2, ListPlaces
<1>4. l_head = l_contents[1].at /\ l_heap[l_head].next = Place(l_contents, 1 + 1)
  BY <1>1, <1>2, <1>3, ListLink
<1>5. l_contents' \in Seq(ListNode) /\ IsBeheaded(l_contents', l_contents)
  BY <1>1, <1>2, <1>3, BeheadedNodes DEF ListTyping
<1>6. /\ DOMAIN l_heap' = DOMAIN l_heap \ {l_head}
      /\ \A b \in DOMAIN l_heap : b # l_head => l_heap'[b] = l_heap[b]
  BY <1>2 DEF List!Freed, List!Restrict
<1>7. Chained(l_heap', l_contents', 1)
  <2> SUFFICES ASSUME NEW i \in 1 .. Len(l_contents')
               PROVE  l_heap'[l_contents'[i].at] = [data |-> l_contents'[i].data,
                                                    next |-> Place(l_contents', i + 1)]
    BY DEF Chained
  <2>1. /\ i + 1 \in 1 .. n /\ i + 1 # 1 /\ l_contents'[i] = l_contents[i + 1]
        /\ Place(l_contents', i + 1) = Place(l_contents, (i + 1) + 1)
    BY <1>3, <1>5 DEF IsBeheaded
  <2>2. /\ l_contents[i + 1].at \in DOMAIN l_heap
        /\ l_heap[l_contents[i + 1].at] = [data |-> l_contents[i + 1].data,
                                           next |-> Place(l_contents, (i + 1) + 1)]
    BY <1>1, <2>1, ListLink, ListPlaces
  <2>3. l_contents[i + 1].at # l_head
    BY <1>1, <1>3, <1>4, <2>1 DEF ListTyping, Distinct
  <2>4. QED
    BY <1>6, <2>1, <2>2, <2>3
<1>8. DOMAIN l_heap' = Ats(l_contents', 1)
  BY <1>1, <1>4, <1>5, <1>6 DEF IsBeheaded, ListWhole
<1>9. l_head' = Place(l_contents', 1)
  BY <1>2, <1>3, <1>4, <1>5 DEF IsBeheaded
<1>10. QED
  BY <1>1, <1>5, <1>7, <1>8, <1>9 DEF IsBeheaded, ListInv, ListTyping, ListWhole

LEMMA ListDeleteBegin ==
    ASSUME ListInv, NEW v \in Data, List!DeleteBegin(v) PROVE ListInv'
<1>1. /\ ListTyping /\ ListWhole /\ l_pc = "idle" /\ l_pc' = "delete"
      /\ l_curr' = l_head /\ l_prev' = NULL /\ l_arg' = v
      /\ l_head # NULL /\ l_heap[l_head].data # v
      /\ UNCHANGED <<l_heap, l_head, l_contents>>
  BY DEF ListInv, List!DeleteBegin, List!Enter
<1>2. l_head = Place(l_contents, 1)
  BY <1>1 DEF ListWhole
<1>3. 1 \in 1 .. Len(l_contents) /\ Len(l_contents) \in Nat
  BY <1>1, <1>2, ListPlaces
<1>4. l_contents[1].data # v
  BY <1>1, <1>2, <1>3, ListLink
<1>5. Place(l_contents, 1 - 1) = NULL
  BY <1>1, ListPlaces
<1>6. ListDelete'
  <2>1. 1 \in 1 .. Len(l_contents) + 1 /\ \A i \in 1 .. 1 - 1 : l_contents[i].data # v
    BY <1>3
  <2>2. QED
    BY <1>1, <1>2, <1>3, <1>4, <1>5, <2>1 DEF ListDelete
<1>7. QED
  BY <1>1, <1>6 DEF ListInv, ListTyping, ListWhole

LEMMA ListDeleteStep == ASSUME ListInv, List!DeleteStep PROVE ListInv'
<1> DEFINE n == Len(l_contents)
<1>1. /\ ListTyping /\ ListWhole /\ ListDelete /\ l_pc = "delete"
      /\ l_curr # NULL /\ l_heap[l_curr].data # l_arg
      /\ l_prev' = l_curr /\ l_curr' = l_heap[l_curr].next
      /\ UNCHANGED <<l_heap, l_head, l_pc, l_arg, l_contents>>
  BY DEF ListInv, List!DeleteStep
<1>2. PICK k \in 1 .. n + 1 :
          /\ l_curr = Place(l_contents, k)
          /\ \A i \in 1 .. k - 1 : l_contents[i].data # l_arg
  BY <1>1 DEF ListDelete
<1>3. k \in 1 .. n /\ n \in Nat
  BY <1>1, <1>2, ListPlaces
<1>4. l_heap[l_curr].data = l_contents[k].data /\ l_heap[l_curr].next = Place(l_contents, k + 1)
  BY <1>1, <1>2, <1>3, ListLink
<1>5. /\ k + 1 \in 1 .. n + 1 /\ (k + 1) - 1 = k
      /\ \A i \in 1 .. (k + 1) - 1 : l_contents[i].data # l_arg
  BY <1>1, <1>2, <1>3, <1>4
<1>6. ListDelete'
  BY <1>1, <1>2, <1>4, <1>5 DEF ListDelete
<1>7. QED
  BY <1>1, <1>6 DEF ListInv, ListTyping, ListWhole

(* What deleteNode unlinks is the first node that holds the value. *)
LEMMA ListWithout ==
    ASSUME NEW k \in 1 .. Len(l_contents), NEW v, l_contents[k].data = v,
           Len(l_contents) \in Nat, \A i \in 1 .. k - 1 : l_contents[i].data # v
    PROVE  List!Without(v) = Without(l_contents, k)
<1> DEFINE P(i) == /\ l_contents[i].data = v
                   /\ \A j \in 1 .. i - 1 : l_contents[j].data # v
<1>1. P(k)
  OBVIOUS
<1>2. ASSUME NEW i \in 1 .. Len(l_contents), P(i) PROVE i = k
  <2>1. CASE i < k
    BY <1>2, <2>1
  <2>2. CASE k < i
    BY <1>2, <2>2
  <2>3. QED
    BY <2>1, <2>2
<1> HIDE DEF P
<1>3. (CHOOSE i \in 1 .. Len(l_contents) : P(i)) = k
  BY <1>1, <1>2
<1>4. QED
  BY <1>3 DEF P, List!Without, Without

LEMMA ListDeleteFound == ASSUME ListInv, List!DeleteFound PROVE ListInv'
<1> DEFINE n == Len(l_contents)
<1>1. /\ ListTyping /\ ListWhole /\ ListDelete /\ l_pc = "delete" /\ l_pc' = "idle"
      /\ l_curr # NULL /\ l_heap[l_curr].data = l_arg
      /\ l_heap' = List!Freed(l_curr, [l_heap EXCEPT ![l_prev].next = l_heap[l_curr].next])
      /\ l_contents' = List!Without(l_arg)
      /\ UNCHANGED l_head
  BY DEF ListInv, List!DeleteFound, List!Leave
<1>2. PICK k \in 1 .. n + 1 :
          /\ l_curr = Place(l_contents, k) /\ l_prev = Place(l_contents, k - 1)
          /\ \A i \in 1 .. k - 1 : l_contents[i].data # l_arg
  BY <1>1 DEF ListDelete
<1>3. k \in 1 .. n /\ n \in Nat
  BY <1>1, <1>2, ListPlaces
<1>4. /\ l_curr = l_contents[k].at /\ l_curr \in DOMAIN l_heap
      /\ l_heap[l_curr].data = l_contents[k].data
      /\ l_heap[l_curr].next = Place(l_contents, k + 1)
  BY <1>1, <1>2, <1>3, ListLink
<1>5. k # 1
  BY <1>1, <1>4 DEF ListDelete
<1>6. k - 1 \in 1 .. n /\ (k - 1) + 1 = k
  BY <1>3, <1>5
<1>7. /\ l_prev = l_contents[k - 1].at /\ l_prev \in DOMAIN l_heap
      /\ l_heap[l_prev] = [data |-> l_contents[k - 1].data, next |-> Place(l_contents, (k - 1) + 1)]
  BY <1>1, <1>2, <1>6, ListLink
<1>8. l_prev # l_curr
  BY <1>1, <1>3, <1>4, <1>6, <1>7 DEF ListTyping, Distinct
<1>9. l_contents' = Without(l_contents, k)
  BY <1>1, <1>2, <1>3, <1>4, ListWithout
<1>10. l_contents' \in Seq(ListNode) /\ IsRemoved(l_contents', l_contents, k)
  BY <1>1, <1>3, <1>9, RemovedNodes DEF ListTyping
<1>11. /\ DOMAIN l_heap' = DOMAIN l_heap \ {l_curr}
       /\ l_heap'[l_prev] = [data |-> l_contents[k - 1].data, next |-> Place(l_contents, k + 1)]
       /\ \A b \in DOMAIN l_heap : b \notin {l_curr, l_prev} => l_heap'[b] = l_heap[b]
  BY <1>1, <1>4, <1>7, <1>8 DEF List!Freed, List!Restrict
<1>12. Chained(l_heap', l_contents', 1)
  <2> SUFFICES ASSUME NEW i \in 1 .. Len(l_contents')
               PROVE  l_heap'[l_contents'[i].at] = [data |-> l_contents'[i].data,
                                                    next |-> Place(l_contents', i + 1)]
    BY DEF Chained
  <2>0. i \in 1 .. n - 1 /\ i + 1 \in 0 .. n
    BY <1>3, <1>10 DEF IsRemoved
  <2>1. CASE i = k - 1
    <3>1. l_contents'[i] = l_contents[k - 1] /\ Place(l_contents', i + 1) = Place(l_contents, k + 1)
      BY <1>3, <1>6, <1>10, <2>0, <2>1 DEF IsRemoved
    <3>2. QED
      BY <1>7, <1>11, <3>1
  <2>2. CASE i < k - 1
    <3>1. /\ i \in 1 .. n /\ i # k /\ i # k - 1 /\ l_contents'[i] = l_contents[i]
          /\ Place(l_contents', i + 1) = Place(l_contents, i + 1)
      BY <1>3, <1>6, <1>10, <2>0, <2>2 DEF IsRemoved
    <3>2. /\ l_contents[i].at \in DOMAIN l_heap
          /\ l_heap[l_contents[i].at] = [data |-> l_contents[i].data,
                                         next |-> Place(l_contents, i + 1)]
      BY <1>1, <3>1, ListLink, ListPlaces
    <3>3. l_contents[i].at \notin {l_curr, l_prev}
      BY <1>1, <1>3, <1>4, <1>6, <1>7, <3>1 DEF ListTyping, Distinct
    <3>4. QED
      BY <1>11, <3>1, <3>2, <3>3
  <2>3. CASE i >= k
    <3>1. /\ i + 1 \in 1 .. n /\ i + 1 # k /\ i + 1 # k - 1 /\ l_contents'[i] = l_contents[i + 1]
          /\ Place(l_contents', i + 1) = Place(l_contents, (i + 1) + 1)
      BY <1>3, <1>6, <1>10, <2>0, <2>3 DEF IsRemoved
    <3>2. /\ l_contents[i + 1].at \in DOMAIN l_heap
          /\ l_heap[l_contents[i + 1].at] = [data |-> l_contents[i + 1].data,
                                             next |-> Place(l_contents, (i + 1) + 1)]
      BY <1>1, <3>1, ListLink, ListPlaces
    <3>3. l_contents[i + 1].at \notin {l_curr, l_prev}
      BY <1>1, <1>3, <1>4, <1>6, <1>7, <3>1 DEF ListTyping, Distinct
    <3>4. QED
      BY <1>11, <3>1, <3>2, <3>3
  <2>4. QED
    BY <1>3, <2>0, <2>1, <2>2, <2>3
<1>13. DOMAIN l_heap' = Ats(l_contents', 1)
  BY <1>1, <1>4, <1>10, <1>11 DEF IsRemoved, ListWhole
<1>14. l_head' = Place(l_contents', 1)
  <2>1. 1 \in 0 .. n /\ 1 < k
    BY <1>3, <1>5
  <2>2. QED
    BY <1>1, <1>10, <2>1 DEF IsRemoved, ListWhole
<1>15. QED
  BY <1>1, <1>10, <1>12, <1>13, <1>14 DEF IsRemoved, ListInv, ListTyping, ListWhole

LEMMA ListDeleteMissing == ASSUME ListInv, List!DeleteMissing PROVE ListInv'
  BY DEF List!DeleteMissing, List!Leave, ListInv, ListTyping, ListWhole

LEMMA ListReverseBegin == ASSUME ListInv, List!ReverseBegin PROVE ListInv'
<1> DEFINE n == Len(l_contents)
<1>1. /\ ListTyping /\ ListWhole /\ l_pc = "idle" /\ l_pc' = "reverse"
      /\ l_curr' = l_head /\ l_prev' = NULL
      /\ UNCHANGED <<l_heap, l_head, l_contents>>
  BY DEF ListInv, List!ReverseBegin, List!Enter
<1>2. n \in Nat /\ Place(l_contents, 1 - 1) = NULL /\ l_head = Place(l_contents, 1)
  BY <1>1, ListPlaces DEF ListWhole
<1>3. HalfTurned(l_heap, l_contents, 1)
  BY <1>1, <1>2 DEF ListWhole, Chained, HalfTurned
<1>4. ListReverse'
  <2>1. 1 \in 1 .. n + 1
    BY <1>2
  <2>2. QED
    BY <1>1, <1>2, <1>3, <2>1 DEF ListReverse
<1>5. QED
  BY <1>1, <1>4 DEF ListInv, ListTyping, ListWhole

LEMMA ListReverseStep == ASSUME ListInv, List!ReverseStep PROVE ListInv'
<1> DEFINE n == Len(l_contents)
<1>1. /\ ListTyping /\ ListWhole /\ ListReverse /\ l_pc = "reverse"
      /\ l_curr # NULL
      /\ l_heap' = [l_heap EXCEPT ![l_curr].next = l_prev]
      /\ l_prev' = l_curr /\ l_curr' = l_heap[l_curr].next
      /\ UNCHANGED <<l_head, l_pc, l_arg, l_contents>>
  BY DEF ListInv, List!ReverseStep
<1>2. PICK k \in 1 .. n + 1 :
          /\ l_curr = Place(l_contents, k) /\ l_prev = Place(l_contents, k - 1)
          /\ HalfTurned(l_heap, l_contents, k)
  BY <1>1 DEF ListReverse
<1>3. k \in 1 .. n /\ n \in Nat
  BY <1>1, <1>2, ListPlaces
<1>4. l_curr = l_contents[k].at /\ l_curr \in DOMAIN l_heap
  BY <1>1, <1>2, <1>3, ListPlaces DEF ListWhole, Ats
<1>5. l_heap[l_curr] = [data |-> l_contents[k].data, next |-> Place(l_contents, k + 1)]
  BY <1>2, <1>3, <1>4 DEF HalfTurned
<1>6. /\ DOMAIN l_heap' = DOMAIN l_heap
      /\ l_heap'[l_curr] = [data |-> l_contents[k].data, next |-> Place(l_contents, k - 1)]
      /\ \A b \in DOMAIN l_heap : b # l_curr => l_heap'[b] = l_heap[b]
  BY <1>1, <1>2, <1>4, <1>5
<1>7. l_curr' = Place(l_contents, k + 1)
  BY <1>1, <1>5
<1>8. HalfTurned(l_heap', l_contents, k + 1)
  <2> SUFFICES ASSUME NEW i \in 1 .. n
               PROVE  l_heap'[l_contents[i].at]
                        = [data |-> l_contents[i].data,
                           next |-> Place(l_contents, IF i < k + 1 THEN i - 1 ELSE i + 1)]
    BY DEF HalfTurned
  <2>1. CASE i = k
    BY <1>3, <1>4, <1>6, <2>1
  <2>2. CASE i # k
    <3>1. l_contents[i].at \in DOMAIN l_heap /\ l_contents[i].at # l_curr
      BY <1>1, <1>3, <1>4, <2>2 DEF ListWhole, Ats, ListTyping, Distinct
    <3>2. l_heap[l_contents[i].at]
            = [data |-> l_contents[i].data,
               next |-> Place(l_contents, IF i < k THEN i - 1 ELSE i + 1)]
      BY <1>2 DEF HalfTurned
    <3>3. i < k <=> i < k + 1
      BY <1>3, <2>2
    <3>4. QED
      BY <1>6, <3>1, <3>2, <3>3
  <2>3. QED
    BY <2>1, <2>2
<1>9. ListReverse'
  <2>1. k + 1 \in 1 .. n + 1 /\ (k + 1) - 1 = k
    BY <1>3
  <2>2. QED
    BY <1>1, <1>2, <1>7, <1>8, <2>1 DEF ListReverse
<1>10. QED
  BY <1>1, <1>6, <1>9 DEF ListInv, ListTyping, ListWhole

LEMMA ListReverseEnd == ASSUME ListInv, List!ReverseEnd PROVE ListInv'
<1> DEFINE n == Len(l_contents)
<1>1. /\ ListTyping /\ ListWhole /\ ListReverse /\ l_pc = "reverse" /\ l_pc' = "idle"
      /\ l_curr = NULL /\ l_head' = l_prev /\ l_heap' = l_heap
      /\ l_contents' = [i \in 1 .. n |-> l_contents[n + 1 - i]]
  BY DEF ListInv, List!ReverseEnd, List!Leave
<1>2. PICK k \in 1 .. n + 1 :
          /\ l_curr = Place(l_contents, k) /\ l_prev = Place(l_contents, k - 1)
          /\ HalfTurned(l_heap, l_contents, k)
  BY <1>1 DEF ListReverse
<1>3. k = n + 1 /\ n \in Nat /\ l_prev = Place(l_contents, n)
  <2>1. k \notin 1 .. n /\ n \in Nat
    BY <1>1, <1>2, ListPlaces
  <2>2. k = n + 1 /\ k - 1 = n
    BY <2>1
  <2>3. QED
    BY <1>2, <2>1, <2>2
<1>4. l_contents' \in Seq(ListNode) /\ IsTurned(l_contents', l_contents)
  BY <1>1, TurnedNodes DEF ListTyping
<1>5. Chained(l_heap', l_contents', 1)
  <2> SUFFICES ASSUME NEW i \in 1 .. n
               PROVE  l_heap[l_contents'[i].at] = [data |-> l_contents'[i].data,
                                                   next |-> Place(l_contents', i + 1)]
    BY <1>1, <1>4 DEF Chained, IsTurned
  <2>1. /\ n + 1 - i \in 1 .. n /\ l_contents'[i] = l_contents[n + 1 - i]
        /\ Place(l_contents', i + 1) = Place(l_contents, n + 1 - (i + 1))
        /\ n + 1 - (i + 1) = (n + 1 - i) - 1 /\ n + 1 - i < k
    BY <1>3, <1>4 DEF IsTurned
  <2>2. l_heap[l_contents[n + 1 - i].at] = [data |-> l_contents[n + 1 - i].data,
                                            next |-> Place(l_contents, (n + 1 - i) - 1)]
    BY <1>2, <2>1 DEF HalfTurned
  <2>3. QED
    BY <2>1, <2>2
<1>6. l_head' = Place(l_contents', 1)
  <2>1. 1 \in 0 .. n + 1 /\ n + 1 - 1 = n
    BY <1>3
  <2>2. Place(l_contents', 1) = Place(l_contents, n + 1 - 1)
    BY <1>4, <2>1 DEF IsTurned
  <2>3. QED
    BY <1>1, <1>3, <2>1, <2>2
<1>7. QED
  BY <1>1, <1>4, <1>5, <1>6 DEF IsTurned, ListInv, ListTyping, ListWhole

LEMMA ListFreeBegin == ASSUME ListInv, List!FreeBegin PROVE ListInv'
<1>1. /\ ListTyping /\ ListWhole /\ l_pc = "idle" /\ l_pc' = "free"
      /\ l_curr' = l_head /\ UNCHANGED <<l_heap, l_contents>>
  BY DEF ListInv, List!FreeBegin, List!Enter
<1>2. 1 \in 1 .. Len(l_contents) + 1
  BY <1>1, ListPlaces
<1>3. ListFree'
  BY <1>1, <1>2 DEF ListWhole, ListFree
<1>4. QED
  BY <1>1, <1>3 DEF ListInv, ListTyping

LEMMA ListFreeStep == ASSUME ListInv, List!FreeStep PROVE ListInv'
<1> DEFINE n == Len(l_contents)
<1>1. /\ ListTyping /\ ListFree /\ l_pc = "free" /\ l_curr # NULL
      /\ l_curr' = l_heap[l_curr].next /\ l_heap' = List!Freed(l_curr, l_heap)
      /\ UNCHANGED <<l_pc, l_contents>>
  BY DEF ListInv, List!FreeStep
<1>2. PICK k \in 1 .. n + 1 :
          /\ l_curr = Place(l_contents, k)
          /\ DOMAIN l_heap = Ats(l_contents, k) /\ Chained(l_heap, l_contents, k)
  BY <1>1 DEF ListFree
<1>3. k \in 1 .. n /\ n \in Nat
  BY <1>1, <1>2, ListPlaces
<1>4. l_curr = l_contents[k].at
  BY <1>1, <1>2, <1>3, ListPlaces
<1>5. l_heap[l_curr] = [data |-> l_contents[k].data, next |-> Place(l_contents, k + 1)]
  BY <1>2, <1>3, <1>4 DEF Chained
<1>6. l_curr' = Place(l_contents, k + 1) /\ k + 1 \in 1 .. n + 1
  BY <1>1, <1>3, <1>5
<1>7. /\ DOMAIN l_heap' = DOMAIN l_heap \ {l_curr}
      /\ \A b \in DOMAIN l_heap : b # l_curr => l_heap'[b] = l_heap[b]
  BY <1>1 DEF List!Freed, List!Restrict
<1>8. \A i \in k + 1 .. n : i \in k .. n /\ i \in 1 .. n /\ l_contents[i].at # l_curr
  BY <1>1, <1>3, <1>4 DEF ListTyping, Distinct
<1>9. DOMAIN l_heap' = Ats(l_contents, k + 1)
  <2>1. Ats(l_contents, k) = Ats(l_contents, k + 1) \cup {l_curr}
    <3>1. \A i \in k .. n : i = k \/ i \in k + 1 .. n
      BY <1>3
    <3>2. k \in k .. n
      BY <1>3
    <3>3. QED
      BY <1>4, <1>8, <3>1, <3>2 DEF Ats
  <2>2. l_curr \notin Ats(l_contents, k + 1)
    BY <1>8 DEF Ats
  <2>3. QED
    BY <1>2, <1>7, <2>1, <2>2
<1>10. Chained(l_heap', l_contents, k + 1)
  <2> SUFFICES ASSUME NEW i \in k + 1 .. n
               PROVE  l_heap'[l_contents[i].at] = l_heap[l_contents[i].at]
    BY <1>2, <1>8 DEF Chained
  <2>1. l_contents[i].at \in DOMAIN l_heap
    BY <1>2, <1>8 DEF Ats
  <2>2. QED
    BY <1>7, <1>8, <2>1
<1>11. ListFree'
  BY <1>1, <1>6, <1>9, <1>10 DEF ListFree
<1>12. QED
  BY <1>1, <1>11 DEF ListInv, ListTyping

LEMMA ListFreeEnd == ASSUME ListInv, List!FreeEnd PROVE ListInv'
<1> DEFINE n == Len(l_contents)
<1>1. /\ ListTyping /\ ListFree /\ l_curr = NULL /\ l_pc' = "idle"
      /\ l_head' = NULL /\ l_contents' = <<>> /\ l_heap' = l_heap
  BY DEF ListInv, List!FreeEnd, List!Leave
<1>2. PICK k \in 1 .. n + 1 :
          l_curr = Place(l_contents, k) /\ DOMAIN l_heap = Ats(l_contents, k)
  BY <1>1 DEF ListFree
<1>3. k = n + 1 /\ n \in Nat
  <2>1. k \notin 1 .. n /\ n \in Nat
    BY <1>1, <1>2, ListPlaces
  <2>2. QED
    BY <2>1
<1>4. DOMAIN l_heap = {}
  BY <1>2, <1>3 DEF Ats
<1>5. QED
  BY <1>1, <1>4 DEF ListInv, ListTyping, ListWhole, Distinct, Ats, Chained, Place

LEMMA ListNext == ListInv /\ [List!Next]_(List!vars) => ListInv'
<1> SUFFICES ASSUME ListInv, [List!Next]_(List!vars) PROVE ListInv'
  OBVIOUS
<1>1. CASE UNCHANGED List!vars
  BY <1>1 DEF List!vars, ListInv, ListTyping, ListWhole, ListTail, ListDelete,
              ListReverse, ListFree
<1>2. CASE List!InsertFails
  BY <1>2 DEF List!InsertFails, ListInv, ListTyping, ListWhole
<1>3. QED
  BY <1>1, <1>2, ListInsertHead, ListInsertTail, ListTailStep, ListTailEnd,
     ListDeleteHead, ListDeleteBegin, ListDeleteStep, ListDeleteFound, ListDeleteMissing,
     ListReverseBegin, ListReverseStep, ListReverseEnd, ListFreeBegin, ListFreeStep,
     ListFreeEnd DEF List!Next

LEMMA ChainedNext ==
    ASSUME NEW s, NEW h, NEW k, Chained(h, s, k), NEW i \in k .. Len(s)
    PROVE  h[s[i].at].next = Place(s, i + 1)
<1>1. h[s[i].at] = [data |-> s[i].data, next |-> Place(s, i + 1)]
  BY DEF Chained
<1>2. QED
  BY <1>1

LEMMA TurnedNext ==
    ASSUME NEW s, NEW h, NEW k, HalfTurned(h, s, k), NEW i \in 1 .. Len(s)
    PROVE  h[s[i].at].next = Place(s, IF i < k THEN i - 1 ELSE i + 1)
<1>1. h[s[i].at] = [data |-> s[i].data, next |-> Place(s, IF i < k THEN i - 1 ELSE i + 1)]
  BY DEF HalfTurned
<1>2. QED
  BY <1>1

(* No pointer leads to freed memory: all lead to places of the list, or to *)
(* the node that is being inserted.                                        *)
LEMMA ListNotDangling ==
    ASSUME ListInv
    PROVE  /\ List!Held \subseteq DOMAIN l_heap \cup {NULL}
           /\ \A a \in DOMAIN l_heap : l_heap[a].next \in DOMAIN l_heap \cup {NULL}
<1> DEFINE s == l_contents
           n == Len(s)
           D == DOMAIN l_heap
<1>1. s \in Seq(ListNode) /\ ListTyping /\ n \in Nat
  BY ListPlaces DEF ListInv, ListTyping
<1>2. CASE l_pc = "free"
  <2>1. PICK k \in 1 .. n + 1 : /\ l_curr = Place(s, k) /\ D = Ats(s, k)
                                /\ Chained(l_heap, s, k)
    BY <1>2 DEF ListInv, ListFree
  <2>2. l_curr \in D \cup {NULL}
    BY <1>1, <2>1, PlacesWithin
  <2>3. ASSUME NEW a \in D PROVE l_heap[a].next \in D \cup {NULL}
    <3>1. PICK i \in k .. n : a = s[i].at
      BY <2>1 DEF Ats
    <3>2. l_heap[a].next = Place(s, i + 1)
      BY <2>1, <3>1, ChainedNext
    <3>3. i + 1 \in Int /\ k \in Nat /\ i + 1 >= k
      BY <1>1, <3>1
    <3>4. QED
      BY <1>1, <2>1, <3>2, <3>3, PlacesWithin
  <2>4. QED
    BY <1>2, <2>2, <2>3 DEF List!Held
<1>3. CASE l_pc # "free"
  <2>1. /\ ListWhole /\ Ats(s, 1) \subseteq D
        /\ \A i : Place(s, i) \in D \cup {NULL}
    BY <1>1, <1>3, PlacesWithin DEF ListInv, ListWhole
  <2>2. l_head \in D \cup {NULL}
    BY <2>1 DEF ListWhole
  <2>3. l_pc \in {"tail", "delete", "reverse"} => l_curr \in D \cup {NULL}
    BY <2>1 DEF ListInv, ListTail, ListDelete, ListReverse
  <2>4. l_pc \in {"delete", "reverse"} => l_prev \in D \cup {NULL}
    BY <2>1 DEF ListInv, ListDelete, ListReverse
  <2>5. l_pc = "tail" => l_arg.at \in D
    BY <2>1 DEF ListWhole
  <2>6. List!Held \subseteq D \cup {NULL}
    BY <1>3, <2>2, <2>3, <2>4, <2>5 DEF List!Held
  <2>7. ASSUME NEW a \in D PROVE l_heap[a].next \in D \cup {NULL}
    <3>1. CASE l_pc = "tail" /\ a = l_arg.at
      BY <3>1 DEF ListInv, ListTail
    <3>2. CASE ~(l_pc = "tail" /\ a = l_arg.at)
      <4>1. PICK i \in 1 .. n : a = s[i].at
        BY <2>1, <3>2 DEF ListWhole, Ats
      <4>2. CASE l_pc = "reverse"
        <5>1. PICK k \in 1 .. n + 1 : HalfTurned(l_heap, s, k)
          BY <4>2 DEF ListInv, ListReverse
        <5>2. l_heap[a].next = Place(s, IF i < k THEN i - 1 ELSE i + 1)
          BY <4>1, <5>1, TurnedNext
        <5>3. QED
          BY <2>1, <5>2
      <4>3. CASE l_pc # "reverse"
        <5>1. l_heap[a].next = Place(s, i + 1)
          BY <2>1, <4>1, <4>3, ChainedNext DEF ListWhole
        <5>2. QED
          BY <2>1, <5>1
      <4>4. QED
        BY <4>2, <4>3
    <3>3. QED
      BY <3>1, <3>2
  <2>8. QED
    BY <2>6, <2>7
<1>4. QED
  BY <1>2, <1>3

(* Every node is within reach; half reversed, the turned ones from prev    *)
(* and the others from curr.                                               *)
LEMMA ListReached ==
    ASSUME ListInv, NEW S \in SUBSET DOMAIN l_heap, List!Held \subseteq S \cup {NULL},
           \A a \in S : l_heap[a].next \in S \cup {NULL}
    PROVE  S = DOMAIN l_heap
<1> DEFINE s == l_contents
           n == Len(s)
           D == DOMAIN l_heap
<1>1. s \in Seq(ListNode) /\ ListTyping /\ n \in Nat
  BY ListPlaces DEF ListInv, ListTyping
<1>2. CASE l_pc = "free"
  <2>1. PICK k \in 1 .. n + 1 : /\ l_curr = Place(s, k) /\ D = Ats(s, k)
                                /\ Chained(l_heap, s, k)
    BY <1>2 DEF ListInv, ListFree
  <2>2. Place(s, k) \in S \cup {NULL}
    BY <1>2, <2>1 DEF List!Held
  <2>3. \A i \in k .. n : l_heap[s[i].at].next = Place(s, i + 1)
    BY <2>1, ChainedNext
  <2>4. Ats(s, k) \subseteq S
    BY <1>1, <2>2, <2>3, ChainReached
  <2>5. QED
    BY <2>1, <2>4
<1>3. CASE l_pc = "reverse"
  <2>1. PICK k \in 1 .. n + 1 : /\ l_curr = Place(s, k) /\ l_prev = Place(s, k - 1)
                                /\ HalfTurned(l_heap, s, k)
    BY <1>3 DEF ListInv, ListReverse
  <2>2. Place(s, k) \in S \cup {NULL} /\ Place(s, k - 1) \in S \cup {NULL}
    BY <1>3, <2>1 DEF List!Held
  <2>3. ASSUME NEW i \in k .. n PROVE l_heap[s[i].at].next = Place(s, i + 1)
    <3>1. i \in 1 .. n /\ ~(i < k)
      BY <1>1
    <3>2. QED
      BY <2>1, <3>1, TurnedNext
  <2>4. ASSUME NEW i \in 1 .. k - 1 PROVE l_heap[s[i].at].next = Place(s, i - 1)
    <3>1. i \in 1 .. n /\ i < k
      BY <1>1
    <3>2. QED
      BY <2>1, <3>1, TurnedNext
  <2>5. Ats(s, k) \subseteq S
    BY <1>1, <2>2, <2>3, ChainReached
  <2>6. \A i \in 1 .. k - 1 : s[i].at \in S
    BY <1>1, <2>2, <2>4, TurnedReached
  <2>7. ASSUME NEW a \in D PROVE a \in S
    <3>1. PICK i \in 1 .. n : a = s[i].at
      BY <1>3 DEF ListInv, ListWhole, Ats
    <3>2. i \in 1 .. k - 1 \/ i \in k .. n
      BY <1>1
    <3>3. QED
      BY <2>5, <2>6, <3>1, <3>2 DEF Ats
  <2>8. QED
    BY <2>7
<1>4. CASE l_pc \notin {"free", "reverse"}
  <2>1. /\ D = Ats(s, 1) \cup IF l_pc = "tail" THEN {l_arg.at} ELSE {}
        /\ l_head = Place(s, 1) /\ Chained(l_heap, s, 1)
    BY <1>4 DEF ListInv, ListWhole
  <2>2. Place(s, 1) \in S \cup {NULL} /\ 1 \in 1 .. n + 1
    BY <1>1, <1>4, <2>1 DEF List!Held
  <2>3. \A i \in 1 .. n : l_heap[s[i].at].next = Place(s, i + 1)
    BY <2>1, ChainedNext
  <2>4. Ats(s, 1) \subseteq S
    BY <1>1, <2>2, <2>3, ChainReached
  <2>5. CASE l_pc = "tail"
    <3>1. l_arg.at \in S \cup {NULL}
      BY <2>5 DEF List!Held
    <3>2. l_arg \in ListNode /\ l_arg.at # NULL
      BY <2>5, HeapAssumption DEF ListInv, ListTail, ListNode, List!ConstantsOK
    <3>3. QED
      BY <2>1, <2>4, <2>5, <3>1, <3>2
  <2>6. CASE l_pc # "tail"
    BY <2>1, <2>4, <2>6
  <2>7. QED
    BY <2>5, <2>6
<1>5. QED
  BY <1>2, <1>3, <1>4

LEMMA ListMeans == ASSUME ListInv PROVE List!NoLeak /\ List!HoldsContents
<1> DEFINE n == Len(l_contents)
<1>1. ListTyping /\ List!Size = n /\ n \in Nat
  BY ListPlaces DEF ListInv, List!Size
<1>2. \A i : List!At(i) = Place(l_contents, i)
  BY DEF List!At, List!Size, Place
<1>3. ASSUME NEW S \in SUBSET DOMAIN l_heap, List!Held \cup List!Linked(S) \subseteq S \cup {NULL}
      PROVE  S = DOMAIN l_heap
  <2>1. List!Held \subseteq S \cup {NULL} /\ \A a \in S : l_heap[a].next \in S \cup {NULL}
    BY <1>3 DEF List!Linked
  <2>2. QED
    BY <2>1, ListReached
<1>4. List!Held \cup List!Linked(DOMAIN l_heap) \subseteq DOMAIN l_heap \cup {NULL}
  BY ListNotDangling DEF List!Linked
<1>5. List!NoLeak
  BY <1>3, <1>4 DEF List!NoLeak
<1>6. \A a : \A i \in 1 .. n : List!LinksTo(i, a) <=>
          l_heap[l_contents[i].at] = [data |-> l_contents[i].data, next |-> a]
  BY <1>1, <1>2 DEF Place, List!LinksTo
<1>7. List!HoldsContents
  <2>1. CASE l_pc = "reverse"
    <3>1. PICK k \in 1 .. n + 1 : /\ l_curr = Place(l_contents, k)
                                  /\ l_prev = Place(l_contents, k - 1)
                                  /\ HalfTurned(l_heap, l_contents, k)
      BY <2>1 DEF ListInv, ListReverse
    <3>2. \A i \in 1 .. n : List!LinksTo(i, IF i < k THEN List!At(i - 1) ELSE List!At(i + 1))
      <4> SUFFICES ASSUME NEW i \in 1 .. n
                   PROVE  List!LinksTo(i, IF i < k THEN List!At(i - 1) ELSE List!At(i + 1))
        OBVIOUS
      <4>1. l_heap[l_contents[i].at]
              = [data |-> l_contents[i].data,
                 next |-> Place(l_contents, IF i < k THEN i - 1 ELSE i + 1)]
        BY <3>1 DEF HalfTurned
      <4>2. Place(l_contents, IF i < k THEN i - 1 ELSE i + 1)
              = IF i < k THEN List!At(i - 1) ELSE List!At(i + 1)
        BY <1>2
      <4>3. QED
        BY <1>6, <4>1, <4>2
    <3>3. QED
      BY <1>1, <1>2, <2>1, <3>1, <3>2 DEF List!HoldsContents
  <2>2. CASE l_pc = "free"
    <3>1. PICK k \in 1 .. n + 1 : l_curr = Place(l_contents, k) /\ Chained(l_heap, l_contents, k)
      BY <2>2 DEF ListInv, ListFree
    <3>2. \A i \in k .. n : i \in 1 .. n /\ List!LinksTo(i, List!At(i + 1))
      <4> SUFFICES ASSUME NEW i \in k .. n
                   PROVE  i \in 1 .. n /\ List!LinksTo(i, List!At(i + 1))
        OBVIOUS
      <4>1. i \in 1 .. n
        BY <1>1
      <4>2. l_heap[l_contents[i].at]
              = [data |-> l_contents[i].data, next |-> Place(l_contents, i + 1)]
        BY <3>1 DEF Chained
      <4>3. QED
        BY <1>2, <1>6, <4>1, <4>2
    <3>3. QED
      BY <1>1, <1>2, <2>2, <3>1, <3>2 DEF List!HoldsContents
  <2>3. CASE l_pc \notin {"reverse", "free"}
    <3>1. l_head = Place(l_contents, 1) /\ Chained(l_heap, l_contents, 1)
      BY <2>3 DEF ListInv, ListWhole
    <3>2. \A i \in 1 .. n : List!LinksTo(i, List!At(i + 1))
      BY <1>2, <1>6, <3>1 DEF Chained
    <3>3. QED
      BY <1>1, <1>2, <2>3, <3>1, <3>2 DEF List!HoldsContents
  <2>4. QED
    BY <2>1, <2>2, <2>3
<1>8. QED
  BY <1>5, <1>7

(* Through every insertion, deletion, reversal and release, and at each    *)
(* step of their loops, the list holds what was put into it and not yet    *)
(* deleted, every allocated node is within reach along the links from the  *)
(* pointers held, and no pointer leads to freed memory, for every heap.    *)
THEOREM ListIsRight == List!Spec => [](List!NoLeak /\ List!HoldsContents)
  BY ListInit, ListNext, ListMeans, PTL DEF List!Spec

-----------------------------------------------------------------------------
(* The doubly linked list (data-structure/linkedlist.c) *)

DoublyNode(s, i) == [data |-> s[i].data, prev |-> Place(s, i - 1), next |-> Place(s, i + 1)]

(* From the node k on, the heap holds the nodes of s, each with both neighbours. *)
BothWays(h, s, k) == \A i \in k .. Len(s) : h[s[i].at] = DoublyNode(s, i)

DoublyTyping == /\ d_contents \in Seq(ListNode) /\ Distinct(d_contents)
                /\ d_pc \in {"idle", "tail", "delete", "free"}

DoublyWhole == /\ DOMAIN d_heap = Ats(d_contents, 1)
                                  \cup IF d_pc = "tail" THEN {d_arg.at} ELSE {}
               /\ d_head = Place(d_contents, 1)
               /\ BothWays(d_heap, d_contents, 1)

DoublyTail == /\ d_arg \in ListNode /\ d_arg.at \notin Ats(d_contents, 1)
              /\ d_heap[d_arg.at] = [data |-> d_arg.data, prev |-> NULL, next |-> NULL]
              /\ \E k \in 1 .. Len(d_contents) : d_cur = Place(d_contents, k)

DoublyDelete == \E k \in 1 .. Len(d_contents) + 1 :
                   /\ d_cur = Place(d_contents, k)
                   /\ \A i \in 1 .. k - 1 : d_contents[i].data # d_arg

DoublyFree == \E k \in 1 .. Len(d_contents) + 1 :
                 /\ d_cur = Place(d_contents, k)
                 /\ DOMAIN d_heap = Ats(d_contents, k)
                 /\ BothWays(d_heap, d_contents, k)

DoublyInv == /\ DoublyTyping
             /\ d_pc # "free" => DoublyWhole
             /\ d_pc = "tail" => DoublyTail
             /\ d_pc = "delete" => DoublyDelete
             /\ d_pc = "free" => DoublyFree

LEMMA DoublyInit == Doubly!Init => DoublyInv
  BY DEF Doubly!Init, DoublyInv, DoublyTyping, DoublyWhole, Distinct, Ats, Place, BothWays

LEMMA DoublyPlaces ==
    ASSUME DoublyTyping
    PROVE  /\ Len(d_contents) \in Nat
           /\ \A i \in 1 .. Len(d_contents) :
                 /\ Place(d_contents, i) = d_contents[i].at
                 /\ d_contents[i] \in ListNode
                 /\ d_contents[i].at \in Addr /\ d_contents[i].at # NULL
           /\ \A i : i \notin 1 .. Len(d_contents) => Place(d_contents, i) = NULL
           /\ \A i : Place(d_contents, i) # NULL => i \in 1 .. Len(d_contents)
<1>1. d_contents \in Seq(ListNode) /\ \A x \in ListNode : x.at \in Addr
  BY DEF DoublyTyping, ListNode
<1>2. QED
  BY <1>1, Places

LEMMA DoublyLink ==
    ASSUME DoublyTyping, DoublyWhole,
           NEW k \in 1 .. Len(d_contents), NEW a, a = Place(d_contents, k)
    PROVE  /\ a = d_contents[k].at /\ a \in DOMAIN d_heap /\ a # NULL
           /\ d_heap[a] = DoublyNode(d_contents, k)
           /\ d_heap[a].data = d_contents[k].data
           /\ d_heap[a].prev = Place(d_contents, k - 1)
           /\ d_heap[a].next = Place(d_contents, k + 1)
<1>1. a = d_contents[k].at /\ a # NULL
  BY DoublyPlaces
<1>2. a \in DOMAIN d_heap
  BY <1>1 DEF DoublyWhole, Ats
<1>3. d_heap[a] = DoublyNode(d_contents, k)
  BY <1>1 DEF DoublyWhole, BothWays
<1>4. QED
  BY <1>1, <1>2, <1>3 DEF DoublyNode

(* No two places of the list have the same node. *)
LEMMA DoublyApart ==
    ASSUME DoublyTyping, NEW i \in 1 .. Len(d_contents), NEW j, i # j
    PROVE  d_contents[i].at # Place(d_contents, j)
<1>1. CASE j \in 1 .. Len(d_contents)
  BY <1>1, DoublyPlaces DEF DoublyTyping, Distinct
<1>2. CASE j \notin 1 .. Len(d_contents)
  BY <1>2, DoublyPlaces
<1>3. QED
  BY <1>1, <1>2

LEMMA DoublyInsertHead ==
    ASSUME DoublyInv, NEW v \in Data, Doubly!d_insert_head(v) PROVE DoublyInv'
<1> DEFINE n == Len(d_contents)
<1>1. PICK a \in Addr \ DOMAIN d_heap :
          /\ d_heap' = Doubly!PrevSet(Doubly!Allocated(a, v, d_head), d_head, a)
          /\ d_head' = a
          /\ d_contents' = <<[at |-> a, data |-> v]>> \o d_contents
  BY DEF Doubly!d_insert_head
<1>2. DoublyTyping /\ DoublyWhole /\ d_pc = "idle" /\ d_pc' = "idle"
  BY DEF DoublyInv, Doubly!d_insert_head
<1> DEFINE x == [at |-> a, data |-> v]
           g == Doubly!Allocated(a, v, d_head)
<1>3. x \in ListNode /\ x.at = a /\ x.data = v
  BY DEF ListNode
<1>4. DOMAIN d_heap = Ats(d_contents, 1) /\ Distinct(d_contents) /\ d_contents \in Seq(ListNode)
      /\ d_head = Place(d_contents, 1)
  BY <1>2 DEF DoublyWhole, DoublyTyping
<1>5. x.at \notin Ats(d_contents, 1) /\ d_contents' = <<x>> \o d_contents
  BY <1>1, <1>4
<1>6. /\ DOMAIN g = DOMAIN d_heap \cup {a}
      /\ g[a] = [data |-> v, prev |-> NULL, next |-> d_head]
      /\ \A b \in DOMAIN d_heap : b # a => g[b] = d_heap[b]
  BY DEF Doubly!Allocated
<1> HIDE DEF x, g
<1>7. d_contents' \in Seq(ListNode) /\ IsPrepended(d_contents', d_contents, x)
  BY <1>3, <1>4, <1>5, PrependedNodes
<1>8. n \in Nat /\ (d_head # NULL => n # 0)
  BY <1>2, <1>4, DoublyPlaces
<1>9. d_head # NULL => /\ d_head = d_contents[1].at /\ d_head \in DOMAIN d_heap /\ d_head # a
                       /\ d_heap[d_head] = [data |-> d_contents[1].data, prev |-> NULL,
                                            next |-> Place(d_contents, 2)]
  <2> SUFFICES ASSUME d_head # NULL
               PROVE  /\ d_head = d_contents[1].at /\ d_head \in DOMAIN d_heap /\ d_head # a
                      /\ d_heap[d_head] = [data |-> d_contents[1].data, prev |-> NULL,
                                           next |-> Place(d_contents, 2)]
    OBVIOUS
  <2>1. 1 \in 1 .. n
    BY <1>8
  <2>2. /\ d_head = d_contents[1].at /\ d_head \in DOMAIN d_heap
        /\ d_heap[d_head] = DoublyNode(d_contents, 1)
    BY <1>2, <1>4, <2>1, DoublyLink
  <2>3. Place(d_contents, 1 - 1) = NULL
    BY <1>2, DoublyPlaces
  <2>4. QED
    BY <1>1, <2>2, <2>3 DEF DoublyNode
<1>10. d_heap' = Doubly!PrevSet(g, d_head, a)
  BY <1>1 DEF g
<1>11. /\ DOMAIN d_heap' = DOMAIN d_heap \cup {a}
       /\ d_heap'[a] = [data |-> v, prev |-> NULL, next |-> d_head]
       /\ d_head # NULL => d_heap'[d_head] = [data |-> d_contents[1].data, prev |-> a,
                                              next |-> Place(d_contents, 2)]
       /\ \A b \in DOMAIN d_heap : b # a /\ b # d_head => d_heap'[b] = d_heap[b]
  <2>1. CASE d_head = NULL
    BY <1>6, <1>10, <2>1 DEF Doubly!PrevSet
  <2>2. CASE d_head # NULL
    <3>1. d_head \in DOMAIN g /\ g[d_head] = [data |-> d_contents[1].data, prev |-> NULL,
                                              next |-> Place(d_contents, 2)]
      BY <1>6, <1>9, <2>2
    <3>2. /\ DOMAIN d_heap' = DOMAIN g
          /\ d_heap'[d_head] = [data |-> d_contents[1].data, prev |-> a,
                                next |-> Place(d_contents, 2)]
          /\ \A c \in DOMAIN g : c # d_head => d_heap'[c] = g[c]
      BY <1>10, <2>2, <3>1 DEF Doubly!PrevSet
    <3>3. QED
      BY <1>6, <1>9, <2>2, <3>2
  <2>3. QED
    BY <2>1, <2>2
<1>12. BothWays(d_heap', d_contents', 1)
  <2> SUFFICES ASSUME NEW i \in 1 .. n + 1
               PROVE  d_heap'[d_contents'[i].at] = DoublyNode(d_contents', i)
    BY <1>7 DEF BothWays, IsPrepended
  <2>1. CASE i = 1
    <3>1. Place(d_contents', 2) = d_head
      BY <1>4, <1>7, <1>8 DEF IsPrepended
    <3>2. Place(d_contents', 1 - 1) = NULL /\ d_contents'[1] = x
      BY <1>7 DEF IsPrepended, Place
    <3>3. QED
      BY <1>3, <1>11, <2>1, <3>1, <3>2 DEF DoublyNode
  <2>2. CASE i > 1
    <3>1. /\ i \in 2 .. n + 1 /\ i - 1 \in 1 .. n /\ i + 1 \in 2 .. n + 2
          /\ (i + 1) - 1 = i /\ (i - 1) + 1 = i
      BY <1>8, <2>2
    <3>2. d_contents'[i] = d_contents[i - 1] /\ Place(d_contents', i + 1) = Place(d_contents, i)
      BY <1>7, <3>1 DEF IsPrepended
    <3>3. CASE i = 2
      <4>1. d_head # NULL /\ Place(d_contents', 1) = a /\ d_contents[1].at = d_head
        BY <1>2, <1>3, <1>4, <1>7, <3>1, <3>3, DoublyPlaces DEF IsPrepended
      <4>2. QED
        BY <1>11, <3>2, <3>3, <4>1 DEF DoublyNode
    <3>4. CASE i > 2
      <4>1. i - 1 \in 2 .. n + 2 /\ 1 \in 1 .. n /\ i - 1 # 1
        BY <3>1, <3>4
      <4>2. Place(d_contents', i - 1) = Place(d_contents, (i - 1) - 1)
        BY <1>7, <4>1 DEF IsPrepended
      <4>3. /\ d_contents[i - 1].at \in DOMAIN d_heap
            /\ d_heap[d_contents[i - 1].at] = DoublyNode(d_contents, i - 1)
        BY <1>2, <3>1, DoublyLink, DoublyPlaces
      <4>4. d_contents[i - 1].at # a /\ d_contents[i - 1].at # d_head
        BY <1>1, <1>2, <1>4, <3>1, <4>1, <4>3, DoublyApart
      <4>5. QED
        BY <1>11, <3>1, <3>2, <4>2, <4>3, <4>4 DEF DoublyNode
    <3>5. QED
      BY <2>2, <3>3, <3>4
  <2>3. QED
    BY <1>8, <2>1, <2>2
<1>13. QED
  BY <1>1, <1>2, <1>3, <1>4, <1>7, <1>11, <1>12
     DEF IsPrepended, DoublyInv, DoublyTyping, DoublyWhole

LEMMA DoublyInsertTail ==
    ASSUME DoublyInv, NEW v \in Data, Doubly!d_insert_tail(v) PROVE DoublyInv'
<1> DEFINE n == Len(d_contents)
<1>1. PICK a \in Addr \ DOMAIN d_heap :
          /\ d_heap' = Doubly!Allocated(a, v, NULL)
          /\ IF d_head = NULL
             THEN /\ d_pc = "idle" /\ d_head' = a
                  /\ d_contents' = <<[at |-> a, data |-> v]>>
                  /\ UNCHANGED <<d_pc, d_cur, d_arg>>
             ELSE /\ Doubly!Enter("tail", [at |-> a, data |-> v])
                  /\ UNCHANGED <<d_head, d_contents>>
  BY DEF Doubly!d_insert_tail
<1>2. DoublyTyping /\ DoublyWhole /\ d_pc = "idle"
  BY <1>1 DEF DoublyInv, Doubly!Enter
<1> DEFINE x == [at |-> a, data |-> v]
<1>3. x \in ListNode /\ x.at = a /\ x.data = v
  BY DEF ListNode
<1>4. DOMAIN d_heap = Ats(d_contents, 1) /\ Distinct(d_contents) /\ d_contents \in Seq(ListNode)
      /\ d_head = Place(d_contents, 1) /\ BothWays(d_heap, d_contents, 1)
  BY <1>2 DEF DoublyWhole, DoublyTyping
<1>5. /\ DOMAIN d_heap' = DOMAIN d_heap \cup {a}
      /\ d_heap'[a] = [data |-> v, prev |-> NULL, next |-> NULL]
      /\ \A b \in DOMAIN d_heap : b # a => d_heap'[b] = d_heap[b]
  BY <1>1 DEF Doubly!Allocated
<1>6. x.at \notin Ats(d_contents, 1)
  BY <1>1, <1>4
<1>7. CASE d_head = NULL
  <2>1. n \in Nat /\ 1 \notin 1 .. n
    BY <1>2, <1>4, <1>7, DoublyPlaces
  <2>2. n = 0 /\ Ats(d_contents, 1) = {}
    BY <2>1 DEF Ats
  <2>3. d_contents' = <<x>> /\ d_head' = a /\ d_pc' = "idle"
    BY <1>1, <1>2, <1>7
  <2> HIDE DEF x
  <2>4. d_contents' \in Seq(ListNode) /\ Len(d_contents') = 1 /\ d_contents'[1] = x
    BY <1>3, <2>3
  <2>5. Distinct(d_contents') /\ Ats(d_contents', 1) = {x.at}
    BY <2>4 DEF Distinct, Ats
  <2>6. Place(d_contents', 1) = a /\ Place(d_contents', 2) = NULL /\ Place(d_contents', 0) = NULL
    BY <1>3, <2>4 DEF Place
  <2>7. BothWays(d_heap', d_contents', 1)
    BY <1>3, <1>5, <2>4, <2>6 DEF BothWays, DoublyNode
  <2>8. DOMAIN d_heap' = Ats(d_contents', 1)
    BY <1>3, <1>4, <1>5, <2>2, <2>5
  <2>9. QED
    BY <2>3, <2>4, <2>5, <2>6, <2>7, <2>8 DEF DoublyInv, DoublyTyping, DoublyWhole
<1>8. CASE d_head # NULL
  <2>1. /\ d_pc' = "tail" /\ d_cur' = d_head /\ d_arg' = x
        /\ d_head' = d_head /\ d_contents' = d_contents
    BY <1>1, <1>8 DEF Doubly!Enter
  <2> HIDE DEF x
  <2>2. 1 \in 1 .. n
    BY <1>2, <1>4, <1>8, DoublyPlaces
  <2>3. BothWays(d_heap', d_contents, 1)
    <3> SUFFICES ASSUME NEW i \in 1 .. n
                 PROVE  d_heap'[d_contents[i].at] = d_heap[d_contents[i].at]
      BY <1>4 DEF BothWays
    <3>1. d_contents[i].at \in DOMAIN d_heap /\ d_contents[i].at # a
      BY <1>3, <1>4, <1>6 DEF Ats
    <3>2. QED
      BY <1>5, <3>1
  <2>4. DoublyTail'
    BY <1>3, <1>4, <1>5, <1>6, <2>1, <2>2 DEF DoublyTail
  <2>5. QED
    BY <1>2, <1>3, <1>4, <1>5, <2>1, <2>3, <2>4 DEF DoublyInv, DoublyTyping, DoublyWhole
<1>9. QED
  BY <1>7, <1>8

LEMMA DoublyTailStep == ASSUME DoublyInv, Doubly!TailStep PROVE DoublyInv'
<1> DEFINE n == Len(d_contents)
<1>1. DoublyTyping /\ DoublyWhole /\ DoublyTail /\ d_pc = "tail"
  BY DEF DoublyInv, Doubly!TailStep
<1>2. PICK k \in 1 .. n : d_cur = Place(d_contents, k)
  BY <1>1 DEF DoublyTail
<1>3. d_heap[d_cur].next = Place(d_contents, k + 1)
  BY <1>1, <1>2, DoublyLink
<1>4. k + 1 \in 1 .. n /\ d_cur' = Place(d_contents, k + 1)
  BY <1>1, <1>3, DoublyPlaces DEF Doubly!TailStep
<1>5. DoublyTail'
  BY <1>1, <1>4 DEF DoublyTail, Doubly!TailStep
<1>6. QED
  BY <1>1, <1>5 DEF DoublyInv, DoublyTyping, DoublyWhole, Doubly!TailStep

LEMMA DoublyTailEnd == ASSUME DoublyInv, Doubly!TailEnd PROVE DoublyInv'
<1> DEFINE n == Len(d_contents)
<1>1. DoublyTyping /\ DoublyWhole /\ DoublyTail /\ d_pc = "tail"
  BY DEF DoublyInv, Doubly!TailEnd
<1>2. PICK k \in 1 .. n : d_cur = Place(d_contents, k)
  BY <1>1 DEF DoublyTail
<1>3. /\ n \in Nat /\ d_cur = d_contents[k].at /\ d_cur \in DOMAIN d_heap
      /\ d_heap[d_cur] = DoublyNode(d_contents, k)
      /\ d_heap[d_cur].next = Place(d_contents, k + 1)
  BY <1>1, <1>2, DoublyPlaces, DoublyLink
<1>4. k = n
  <2>1. Place(d_contents, k + 1) = NULL
    BY <1>3 DEF Doubly!TailEnd
  <2>2. QED
    BY <1>1, <1>3, <2>1, DoublyPlaces
<1>5. /\ d_arg \in ListNode /\ d_arg.at \notin Ats(d_contents, 1)
      /\ d_heap[d_arg.at] = [data |-> d_arg.data, prev |-> NULL, next |-> NULL]
      /\ DOMAIN d_heap = Ats(d_contents, 1) \cup {d_arg.at}
      /\ Distinct(d_contents) /\ d_contents \in Seq(ListNode)
      /\ d_contents' = Append(d_contents, d_arg)
      /\ d_heap' = [d_heap EXCEPT ![d_cur].next = d_arg.at, ![d_arg.at].prev = d_cur]
      /\ d_head' = d_head /\ d_pc' = "idle"
  BY <1>1 DEF DoublyTail, DoublyWhole, DoublyTyping, Doubly!TailEnd, Doubly!Leave
<1>6. d_contents' \in Seq(ListNode) /\ IsAppended(d_contents', d_contents, d_arg)
  BY <1>5, AppendedNodes
<1>7. d_arg.at # d_cur /\ d_arg.at \in DOMAIN d_heap
  BY <1>3, <1>5 DEF Ats
<1>8. /\ DOMAIN d_heap' = DOMAIN d_heap
      /\ d_heap'[d_cur] = [data |-> d_contents[n].data, prev |-> Place(d_contents, n - 1),
                           next |-> d_arg.at]
      /\ d_heap'[d_arg.at] = [data |-> d_arg.data, prev |-> d_cur, next |-> NULL]
      /\ \A b \in DOMAIN d_heap : b \notin {d_cur, d_arg.at} => d_heap'[b] = d_heap[b]
  <2> DEFINE g == [d_heap EXCEPT ![d_cur].next = d_arg.at]
  <2>1. /\ DOMAIN g = DOMAIN d_heap
        /\ g[d_cur] = [data |-> d_contents[n].data, prev |-> Place(d_contents, n - 1),
                       next |-> d_arg.at]
        /\ \A b \in DOMAIN d_heap : b # d_cur => g[b] = d_heap[b]
    BY <1>3, <1>4 DEF DoublyNode
  <2>2. d_heap' = [g EXCEPT ![d_arg.at].prev = d_cur]
    BY <1>5
  <2> HIDE DEF g
  <2>3. g[d_arg.at] = [data |-> d_arg.data, prev |-> NULL, next |-> NULL]
    BY <1>5, <1>7, <2>1
  <2>4. QED
    BY <1>7, <2>1, <2>2, <2>3
<1>9. BothWays(d_heap', d_contents', 1)
  <2> SUFFICES ASSUME NEW i \in 1 .. n + 1
               PROVE  d_heap'[d_contents'[i].at] = DoublyNode(d_contents', i)
    BY <1>6 DEF BothWays, IsAppended
  <2>1. CASE i = n + 1
    <3>1. i - 1 = n /\ i + 1 = n + 2 /\ n \in 0 .. n
      BY <1>3, <2>1
    <3>2. /\ d_contents'[i] = d_arg /\ Place(d_contents', i + 1) = NULL
          /\ Place(d_contents', i - 1) = Place(d_contents, n)
      BY <1>6, <2>1, <3>1 DEF IsAppended
    <3>3. QED
      BY <1>2, <1>4, <1>8, <3>2 DEF DoublyNode
  <2>2. CASE i = n
    <3>1. n - 1 \in 0 .. n
      BY <1>3, <1>4
    <3>2. /\ d_contents'[n] = d_contents[n] /\ Place(d_contents', n + 1) = d_arg.at
          /\ Place(d_contents', n - 1) = Place(d_contents, n - 1)
      BY <1>4, <1>6, <3>1 DEF IsAppended
    <3>3. QED
      BY <1>3, <1>4, <1>8, <2>2, <3>2 DEF DoublyNode
  <2>3. CASE i < n
    <3>1. i \in 1 .. n /\ i + 1 \in 0 .. n /\ i - 1 \in 0 .. n /\ n \in 1 .. n /\ i # n
      BY <1>3, <2>3
    <3>2. /\ d_contents'[i] = d_contents[i] /\ Place(d_contents', i + 1) = Place(d_contents, i + 1)
          /\ Place(d_contents', i - 1) = Place(d_contents, i - 1)
      BY <1>6, <3>1 DEF IsAppended
    <3>3. /\ d_contents[i].at \in DOMAIN d_heap
          /\ d_heap[d_contents[i].at] = DoublyNode(d_contents, i)
      BY <1>1, <3>1, DoublyLink, DoublyPlaces
    <3>4. d_contents[i].at \notin {d_cur, d_arg.at}
      BY <1>1, <1>2, <1>4, <1>5, <3>1, DoublyApart DEF Ats
    <3>5. QED
      BY <1>8, <3>2, <3>3, <3>4 DEF DoublyNode
  <2>4. QED
    BY <1>3, <2>1, <2>2, <2>3
<1>10. d_head' = Place(d_contents', 1)
  <2>1. 1 \in 0 .. n
    BY <1>3, <1>4
  <2>2. QED
    BY <1>1, <1>5, <1>6, <2>1 DEF DoublyWhole, IsAppended
<1>11. QED
  BY <1>5, <1>6, <1>8, <1>9, <1>10 DEF IsAppended, DoublyInv, DoublyTyping, DoublyWhole

LEMMA DoublyDeleteBegin ==
    ASSUME DoublyInv, NEW v \in Data, Doubly!DeleteBegin(v) PROVE DoublyInv'
<1>1. /\ DoublyTyping /\ DoublyWhole /\ d_pc = "idle" /\ d_pc' = "delete"
      /\ d_cur' = d_head /\ d_arg' = v
      /\ UNCHANGED <<d_heap, d_head, d_contents>>
  BY DEF DoublyInv, Doubly!DeleteBegin, Doubly!Enter
<1>2. 1 \in 1 .. Len(d_contents) + 1 /\ \A i \in 1 .. 1 - 1 : d_contents[i].data # v
  BY <1>1, DoublyPlaces
<1>3. DoublyDelete'
  BY <1>1, <1>2 DEF DoublyDelete, DoublyWhole
<1>4. QED
  BY <1>1, <1>3 DEF DoublyInv, DoublyTyping, DoublyWhole

LEMMA DoublyDeleteStep == ASSUME DoublyInv, Doubly!DeleteStep PROVE DoublyInv'
<1> DEFINE n == Len(d_contents)
<1>1. /\ DoublyTyping /\ DoublyWhole /\ DoublyDelete /\ d_pc = "delete"
      /\ d_cur # NULL /\ d_heap[d_cur].data # d_arg
      /\ d_cur' = d_heap[d_cur].next
      /\ UNCHANGED <<d_heap, d_head, d_pc, d_arg, d_contents>>
  BY DEF DoublyInv, Doubly!DeleteStep
<1>2. PICK k \in 1 .. n + 1 :
          /\ d_cur = Place(d_contents, k)
          /\ \A i \in 1 .. k - 1 : d_contents[i].data # d_arg
  BY <1>1 DEF DoublyDelete
<1>3. k \in 1 .. n /\ n \in Nat
  BY <1>1, <1>2, DoublyPlaces
<1>4. d_heap[d_cur].data = d_contents[k].data /\ d_heap[d_cur].next = Place(d_contents, k + 1)
  BY <1>1, <1>2, <1>3, DoublyLink
<1>5. k + 1 \in 1 .. n + 1 /\ \A i \in 1 .. (k + 1) - 1 : d_contents[i].data # d_arg
  BY <1>1, <1>2, <1>3, <1>4
<1>6. DoublyDelete'
  BY <1>1, <1>4, <1>5 DEF DoublyDelete
<1>7. QED
  BY <1>1, <1>6 DEF DoublyInv, DoublyTyping, DoublyWhole

(* What d_delete unlinks is the first node that holds the value. *)
LEMMA DoublyWithout ==
    ASSUME NEW k \in 1 .. Len(d_contents), NEW v, d_contents[k].data = v,
           Len(d_contents) \in Nat, \A i \in 1 .. k - 1 : d_contents[i].data # v
    PROVE  Doubly!Without(v) = Without(d_contents, k)
<1> DEFINE P(i) == /\ d_contents[i].data = v
                   /\ \A j \in 1 .. i - 1 : d_contents[j].data # v
<1>1. P(k)
  OBVIOUS
<1>2. ASSUME NEW i \in 1 .. Len(d_contents), P(i) PROVE i = k
  <2>1. CASE i < k
    BY <1>2, <2>1
  <2>2. CASE k < i
    BY <1>2, <2>2
  <2>3. QED
    BY <2>1, <2>2
<1> HIDE DEF P
<1>3. (CHOOSE i \in 1 .. Len(d_contents) : P(i)) = k
  BY <1>1, <1>2
<1>4. QED
  BY <1>3 DEF P, Doubly!Without, Without

(* The heap after the node of the place k was unlinked and freed: its two  *)
(* neighbours, where it has them, are linked to each other.                *)
DoublyFreed(g, k) ==
    LET a == d_contents[k].at
        p == Place(d_contents, k - 1)
        q == Place(d_contents, k + 1)
    IN  /\ DOMAIN g = DOMAIN d_heap \ {a}
        /\ p # NULL => g[p] = [data |-> d_contents[k - 1].data,
                               prev |-> Place(d_contents, k - 2), next |-> q]
        /\ q # NULL => g[q] = [data |-> d_contents[k + 1].data,
                               prev |-> p, next |-> Place(d_contents, k + 2)]
        /\ \A b \in DOMAIN d_heap : b \notin {a, p, q} => g[b] = d_heap[b]

LEMMA DoublyUnlinked ==
    ASSUME DoublyTyping, DoublyWhole, NEW k \in 1 .. Len(d_contents), NEW g,
           g = Doubly!Restrict(Doubly!Unlinked(d_heap[d_contents[k].at]),
                               DOMAIN d_heap \ {d_contents[k].at})
    PROVE  DoublyFreed(g, k)
<1> SUFFICES ASSUME NEW a, a = d_contents[k].at, NEW p, p = Place(d_contents, k - 1),
                    NEW q, q = Place(d_contents, k + 1)
             PROVE  /\ DOMAIN g = DOMAIN d_heap \ {a}
                    /\ p # NULL => g[p] = [data |-> d_contents[k - 1].data,
                                           prev |-> Place(d_contents, k - 2), next |-> q]
                    /\ q # NULL => g[q] = [data |-> d_contents[k + 1].data,
                                           prev |-> p, next |-> Place(d_contents, k + 2)]
                    /\ \A b \in DOMAIN d_heap : b \notin {a, p, q} => g[b] = d_heap[b]
  BY DEF DoublyFreed
<1> DEFINE n == Len(d_contents)
           h1 == Doubly!NextSet(d_heap, p, q)
           h2 == Doubly!PrevSet(h1, q, p)
<1>0. n \in Nat /\ k \in Nat /\ a = Place(d_contents, k)
  BY DoublyPlaces
<1>1. /\ a \in DOMAIN d_heap /\ d_heap[a].prev = p /\ d_heap[a].next = q
  BY <1>0, DoublyLink
<1>2. p # NULL => /\ p \in DOMAIN d_heap /\ p # a /\ p # q
                  /\ d_heap[p] = [data |-> d_contents[k - 1].data,
                                  prev |-> Place(d_contents, k - 2), next |-> a]
  <2> SUFFICES ASSUME p # NULL
               PROVE  /\ p \in DOMAIN d_heap /\ p # a /\ p # q
                      /\ d_heap[p] = [data |-> d_contents[k - 1].data,
                                      prev |-> Place(d_contents, k - 2), next |-> a]
    OBVIOUS
  <2>1. k - 1 \in 1 .. n /\ (k - 1) - 1 = k - 2 /\ (k - 1) + 1 = k /\ k - 1 # k /\ k - 1 # k + 1
    BY <1>0, DoublyPlaces
  <2>2. p = d_contents[k - 1].at /\ p \in DOMAIN d_heap /\ d_heap[p] = DoublyNode(d_contents, k - 1)
    BY <2>1, DoublyLink
  <2>3. p # a /\ p # q
    BY <1>0, <2>1, <2>2, DoublyApart
  <2>4. QED
    BY <1>0, <2>1, <2>2, <2>3 DEF DoublyNode
<1>3. q # NULL => /\ q \in DOMAIN d_heap /\ q # a
                  /\ d_heap[q] = [data |-> d_contents[k + 1].data,
                                  prev |-> a, next |-> Place(d_contents, k + 2)]
  <2> SUFFICES ASSUME q # NULL
               PROVE  /\ q \in DOMAIN d_heap /\ q # a
                      /\ d_heap[q] = [data |-> d_contents[k + 1].data,
                                      prev |-> a, next |-> Place(d_contents, k + 2)]
    OBVIOUS
  <2>1. k + 1 \in 1 .. n /\ (k + 1) - 1 = k /\ (k + 1) + 1 = k + 2 /\ k + 1 # k
    BY <1>0, DoublyPlaces
  <2>2. q = d_contents[k + 1].at /\ q \in DOMAIN d_heap /\ d_heap[q] = DoublyNode(d_contents, k + 1)
    BY <2>1, DoublyLink
  <2>3. q # a
    BY <1>0, <2>1, <2>2, DoublyApart
  <2>4. QED
    BY <1>0, <2>1, <2>2, <2>3 DEF DoublyNode
<1>4. /\ DOMAIN h1 = DOMAIN d_heap
      /\ p # NULL => h1[p] = [data |-> d_contents[k - 1].data,
                              prev |-> Place(d_contents, k - 2), next |-> q]
      /\ \A b \in DOMAIN d_heap : b # p => h1[b] = d_heap[b]
  <2>1. CASE p = NULL
    BY <2>1 DEF Doubly!NextSet
  <2>2. CASE p # NULL
    BY <1>2, <2>2 DEF Doubly!NextSet
  <2>3. QED
    BY <2>1, <2>2
<1> HIDE DEF h1
<1>5. /\ DOMAIN h2 = DOMAIN d_heap
      /\ q # NULL => h2[q] = [data |-> d_contents[k + 1].data,
                              prev |-> p, next |-> Place(d_contents, k + 2)]
      /\ \A b \in DOMAIN d_heap : b # q => h2[b] = h1[b]
  <2>1. CASE q = NULL
    BY <1>4, <2>1 DEF Doubly!PrevSet
  <2>2. CASE q # NULL
    <3>1. /\ q \in DOMAIN h1
          /\ h1[q] = [data |-> d_contents[k + 1].data, prev |-> a,
                      next |-> Place(d_contents, k + 2)]
      <4>1. q # p
        BY <1>2, <2>2
      <4>2. QED
        BY <1>3, <1>4, <2>2, <4>1
    <3>2. QED
      BY <1>4, <2>2, <3>1 DEF Doubly!PrevSet
  <2>3. QED
    BY <2>1, <2>2
<1>6. Doubly!Unlinked(d_heap[a]) = h2
  BY <1>1 DEF Doubly!Unlinked, h1
<1> HIDE DEF h2
<1>7. /\ DOMAIN g = DOMAIN d_heap \ {a}
      /\ \A b \in DOMAIN d_heap : b # a => g[b] = h2[b]
  BY <1>5, <1>6 DEF Doubly!Restrict
<1>8. QED
  BY <1>2, <1>3, <1>4, <1>5, <1>7

LEMMA DoublyDeleteFound == ASSUME DoublyInv, Doubly!DeleteFound PROVE DoublyInv'
<1> DEFINE n == Len(d_contents)
<1>1. /\ DoublyTyping /\ DoublyWhole /\ DoublyDelete /\ d_pc = "delete" /\ d_pc' = "idle"
      /\ d_cur # NULL /\ d_heap[d_cur].data = d_arg
      /\ d_heap' = Doubly!Restrict(Doubly!Unlinked(d_heap[d_cur]), DOMAIN d_heap \ {d_cur})
      /\ d_head' = IF d_heap[d_cur].prev = NULL THEN d_heap[d_cur].next ELSE d_head
      /\ d_contents' = Doubly!Without(d_arg)
  BY DEF DoublyInv, Doubly!DeleteFound, Doubly!Leave
<1>2. PICK k \in 1 .. n + 1 :
          /\ d_cur = Place(d_contents, k)
          /\ \A i \in 1 .. k - 1 : d_contents[i].data # d_arg
  BY <1>1 DEF DoublyDelete
<1>3. k \in 1 .. n /\ n \in Nat
  BY <1>1, <1>2, DoublyPlaces
<1> DEFINE p == Place(d_contents, k - 1)
           q == Place(d_contents, k + 1)
<1>4. /\ d_cur = d_contents[k].at /\ d_cur \in DOMAIN d_heap
      /\ d_heap[d_cur].data = d_contents[k].data
      /\ d_heap[d_cur].prev = p /\ d_heap[d_cur].next = q
  BY <1>1, <1>2, <1>3, DoublyLink
<1>5. d_contents' = Without(d_contents, k)
  BY <1>1, <1>2, <1>3, <1>4, DoublyWithout
<1>6. d_contents' \in Seq(ListNode) /\ IsRemoved(d_contents', d_contents, k)
  BY <1>1, <1>3, <1>5, RemovedNodes DEF DoublyTyping
<1>7. /\ DOMAIN d_heap' = DOMAIN d_heap \ {d_cur}
      /\ p # NULL => d_heap'[p] = [data |-> d_contents[k - 1].data,
                                   prev |-> Place(d_contents, k - 2), next |-> q]
      /\ q # NULL => d_heap'[q] = [data |-> d_contents[k + 1].data,
                                   prev |-> p, next |-> Place(d_contents, k + 2)]
      /\ \A b \in DOMAIN d_heap : b \notin {d_cur, p, q} => d_heap'[b] = d_heap[b]
  <2>1. DoublyFreed(d_heap', k)
    BY <1>1, <1>3, <1>4, DoublyUnlinked
  <2>2. QED
    BY <1>4, <2>1 DEF DoublyFreed
<1>8. p = Place(d_contents, k - 1) /\ q = Place(d_contents, k + 1)
  OBVIOUS
<1> HIDE DEF p, q
<1>9. BothWays(d_heap', d_contents', 1)
  <2> SUFFICES ASSUME NEW i \in 1 .. Len(d_contents')
               PROVE  d_heap'[d_contents'[i].at] = DoublyNode(d_contents', i)
    BY DEF BothWays
  <2>0. i \in 1 .. n - 1 /\ i + 1 \in 0 .. n /\ i - 1 \in 0 .. n
    BY <1>3, <1>6 DEF IsRemoved
  <2>1. CASE i = k - 1
    <3>1. /\ d_contents'[i] = d_contents[k - 1] /\ Place(d_contents', i + 1) = q
          /\ Place(d_contents', i - 1) = Place(d_contents, k - 2)
      BY <1>3, <1>6, <1>8, <2>0, <2>1 DEF IsRemoved
    <3>2. k - 1 \in 1 .. n
      BY <1>3, <2>0, <2>1
    <3>3. p = d_contents[k - 1].at /\ p # NULL
      BY <1>1, <1>8, <3>2, DoublyPlaces
    <3>4. QED
      BY <1>7, <3>1, <3>3 DEF DoublyNode
  <2>2. CASE i = k
    <3>1. /\ d_contents'[i] = d_contents[k + 1] /\ Place(d_contents', i - 1) = p
          /\ Place(d_contents', i + 1) = Place(d_contents, k + 2)
      BY <1>3, <1>6, <1>8, <2>0, <2>2 DEF IsRemoved
    <3>2. k + 1 \in 1 .. n
      BY <1>3, <2>0, <2>2
    <3>3. q = d_contents[k + 1].at /\ q # NULL
      BY <1>1, <1>8, <3>2, DoublyPlaces
    <3>4. QED
      BY <1>7, <3>1, <3>3 DEF DoublyNode
  <2>3. CASE i < k - 1
    <3>1. /\ i \in 1 .. n /\ i # k /\ i # k - 1 /\ i # k + 1 /\ d_contents'[i] = d_contents[i]
          /\ Place(d_contents', i + 1) = Place(d_contents, i + 1)
          /\ Place(d_contents', i - 1) = Place(d_contents, i - 1)
      BY <1>3, <1>6, <2>0, <2>3 DEF IsRemoved
    <3>2. /\ d_contents[i].at \in DOMAIN d_heap
          /\ d_heap[d_contents[i].at] = DoublyNode(d_contents, i)
      BY <1>1, <3>1, DoublyLink, DoublyPlaces
    <3>3. d_contents[i].at \notin {d_cur, p, q}
      BY <1>1, <1>2, <1>8, <3>1, DoublyApart
    <3>4. QED
      BY <1>7, <3>1, <3>2, <3>3 DEF DoublyNode
  <2>4. CASE i > k
    <3>1. /\ i + 1 \in 1 .. n /\ i + 1 # k /\ i + 1 # k - 1 /\ i + 1 # k + 1
          /\ d_contents'[i] = d_contents[i + 1]
          /\ Place(d_contents', i + 1) = Place(d_contents, (i + 1) + 1)
          /\ Place(d_contents', i - 1) = Place(d_contents, (i + 1) - 1)
      BY <1>3, <1>6, <2>0, <2>4 DEF IsRemoved
    <3>2. /\ d_contents[i + 1].at \in DOMAIN d_heap
          /\ d_heap[d_contents[i + 1].at] = DoublyNode(d_contents, i + 1)
      BY <1>1, <3>1, DoublyLink, DoublyPlaces
    <3>3. d_contents[i + 1].at \notin {d_cur, p, q}
      BY <1>1, <1>2, <1>8, <3>1, DoublyApart
    <3>4. QED
      BY <1>7, <3>1, <3>2, <3>3 DEF DoublyNode
  <2>5. QED
    BY <1>3, <2>0, <2>1, <2>2, <2>3, <2>4
<1>10. DOMAIN d_heap' = Ats(d_contents', 1)
  BY <1>1, <1>4, <1>6, <1>7 DEF IsRemoved, DoublyWhole
<1>11. d_head' = Place(d_contents', 1)
  <2>1. 1 \in 0 .. n
    BY <1>3
  <2>2. CASE k = 1
    <3>1. p = NULL
      BY <1>1, <1>3, <1>8, <2>2, DoublyPlaces
    <3>2. QED
      BY <1>1, <1>4, <1>6, <1>8, <2>1, <2>2, <3>1 DEF IsRemoved
  <2>3. CASE k # 1
    <3>1. k - 1 \in 1 .. n /\ 1 < k
      BY <1>3, <2>3
    <3>2. p # NULL
      BY <1>1, <1>8, <3>1, DoublyPlaces
    <3>3. QED
      BY <1>1, <1>4, <1>6, <2>1, <3>1, <3>2 DEF IsRemoved, DoublyWhole
  <2>4. QED
    BY <2>2, <2>3
<1>12. QED
  BY <1>1, <1>6, <1>9, <1>10, <1>11 DEF IsRemoved, DoublyInv, DoublyTyping, DoublyWhole

LEMMA DoublyDeleteMissing == ASSUME DoublyInv, Doubly!DeleteMissing PROVE DoublyInv'
  BY DEF Doubly!DeleteMissing, Doubly!Leave, DoublyInv, DoublyTyping, DoublyWhole

LEMMA DoublyFreeBegin == ASSUME DoublyInv, Doubly!FreeBegin PROVE DoublyInv'
<1>1. /\ DoublyTyping /\ DoublyWhole /\ d_pc = "idle" /\ d_pc' = "free"
      /\ d_cur' = d_head /\ UNCHANGED <<d_heap, d_contents>>
  BY DEF DoublyInv, Doubly!FreeBegin, Doubly!Enter
<1>2. 1 \in 1 .. Len(d_contents) + 1
  BY <1>1, DoublyPlaces
<1>3. DoublyFree'
  BY <1>1, <1>2 DEF DoublyWhole, DoublyFree
<1>4. QED
  BY <1>1, <1>3 DEF DoublyInv, DoublyTyping

LEMMA DoublyFreeStep == ASSUME DoublyInv, Doubly!FreeStep PROVE DoublyInv'
<1> DEFINE n == Len(d_contents)
<1>1. /\ DoublyTyping /\ DoublyFree /\ d_pc = "free" /\ d_cur # NULL
      /\ d_cur' = d_heap[d_cur].next
      /\ d_heap' = Doubly!Restrict(d_heap, DOMAIN d_heap \ {d_cur})
      /\ UNCHANGED <<d_pc, d_contents>>
  BY DEF DoublyInv, Doubly!FreeStep
<1>2. PICK k \in 1 .. n + 1 :
          /\ d_cur = Place(d_contents, k)
          /\ DOMAIN d_heap = Ats(d_contents, k) /\ BothWays(d_heap, d_contents, k)
  BY <1>1 DEF DoublyFree
<1>3. k \in 1 .. n /\ n \in Nat
  BY <1>1, <1>2, DoublyPlaces
<1>4. d_cur = d_contents[k].at
  BY <1>1, <1>2, <1>3, DoublyPlaces
<1>5. d_heap[d_cur] = DoublyNode(d_contents, k)
  BY <1>2, <1>3, <1>4 DEF BothWays
<1>6. d_cur' = Place(d_contents, k + 1) /\ k + 1 \in 1 .. n + 1
  BY <1>1, <1>3, <1>5 DEF DoublyNode
<1>7. /\ DOMAIN d_heap' = DOMAIN d_heap \ {d_cur}
      /\ \A b \in DOMAIN d_heap : b # d_cur => d_heap'[b] = d_heap[b]
  BY <1>1 DEF Doubly!Restrict
<1>8. \A i \in k + 1 .. n : i \in k .. n /\ i \in 1 .. n /\ d_contents[i].at # d_cur
  BY <1>1, <1>3, <1>4 DEF DoublyTyping, Distinct
<1>9. DOMAIN d_heap' = Ats(d_contents, k + 1)
  <2>1. Ats(d_contents, k) = Ats(d_contents, k + 1) \cup {d_cur}
    <3>1. \A i \in k .. n : i = k \/ i \in k + 1 .. n
      BY <1>3
    <3>2. k \in k .. n
      BY <1>3
    <3>3. QED
      BY <1>4, <1>8, <3>1, <3>2 DEF Ats
  <2>2. d_cur \notin Ats(d_contents, k + 1)
    BY <1>8 DEF Ats
  <2>3. QED
    BY <1>2, <1>7, <2>1, <2>2
<1>10. BothWays(d_heap', d_contents, k + 1)
  <2> SUFFICES ASSUME NEW i \in k + 1 .. n
               PROVE  d_heap'[d_contents[i].at] = d_heap[d_contents[i].at]
    BY <1>2, <1>8 DEF BothWays
  <2>1. d_contents[i].at \in DOMAIN d_heap
    BY <1>2, <1>8 DEF Ats
  <2>2. QED
    BY <1>7, <1>8, <2>1
<1>11. DoublyFree'
  BY <1>1, <1>6, <1>9, <1>10 DEF DoublyFree
<1>12. QED
  BY <1>1, <1>11 DEF DoublyInv, DoublyTyping

LEMMA DoublyFreeEnd == ASSUME DoublyInv, Doubly!FreeEnd PROVE DoublyInv'
<1> DEFINE n == Len(d_contents)
<1>1. /\ DoublyTyping /\ DoublyFree /\ d_cur = NULL /\ d_pc' = "idle"
      /\ d_head' = NULL /\ d_contents' = <<>> /\ d_heap' = d_heap
  BY DEF DoublyInv, Doubly!FreeEnd, Doubly!Leave
<1>2. PICK k \in 1 .. n + 1 :
          d_cur = Place(d_contents, k) /\ DOMAIN d_heap = Ats(d_contents, k)
  BY <1>1 DEF DoublyFree
<1>3. k = n + 1 /\ n \in Nat
  <2>1. k \notin 1 .. n /\ n \in Nat
    BY <1>1, <1>2, DoublyPlaces
  <2>2. QED
    BY <2>1
<1>4. DOMAIN d_heap = {}
  BY <1>2, <1>3 DEF Ats
<1>5. QED
  BY <1>1, <1>4 DEF DoublyInv, DoublyTyping, DoublyWhole, Distinct, Ats, BothWays, Place

LEMMA DoublyNext == DoublyInv /\ [Doubly!Next]_(Doubly!vars) => DoublyInv'
<1> SUFFICES ASSUME DoublyInv, [Doubly!Next]_(Doubly!vars) PROVE DoublyInv'
  OBVIOUS
<1>1. CASE UNCHANGED Doubly!vars
  BY <1>1 DEF Doubly!vars, DoublyInv, DoublyTyping, DoublyWhole, DoublyTail, DoublyDelete,
              DoublyFree
<1>2. QED
  BY <1>1, DoublyInsertHead, DoublyInsertTail, DoublyTailStep, DoublyTailEnd,
     DoublyDeleteBegin, DoublyDeleteStep, DoublyDeleteFound, DoublyDeleteMissing,
     DoublyFreeBegin, DoublyFreeStep, DoublyFreeEnd DEF Doubly!Next

LEMMA BothLinks ==
    ASSUME NEW s, NEW h, NEW k, BothWays(h, s, k), NEW i \in k .. Len(s)
    PROVE  /\ h[s[i].at].prev = Place(s, i - 1)
           /\ h[s[i].at].next = Place(s, i + 1)
<1>1. h[s[i].at] = [data |-> s[i].data, prev |-> Place(s, i - 1), next |-> Place(s, i + 1)]
  BY DEF BothWays, DoublyNode
<1>2. QED
  BY <1>1

LEMMA DoublyNotDangling ==
    ASSUME DoublyInv
    PROVE  /\ Doubly!Held \cup Doubly!LinkedBack \subseteq DOMAIN d_heap \cup {NULL}
           /\ \A a \in DOMAIN d_heap : d_heap[a].next \in DOMAIN d_heap \cup {NULL}
<1> DEFINE s == d_contents
           n == Len(s)
           D == DOMAIN d_heap
<1>1. s \in Seq(ListNode) /\ DoublyTyping /\ n \in Nat
  BY DoublyPlaces DEF DoublyInv, DoublyTyping
<1>2. CASE d_pc = "free"
  <2>1. PICK k \in 1 .. n + 1 : /\ d_cur = Place(s, k) /\ D = Ats(s, k)
                                /\ BothWays(d_heap, s, k)
    BY <1>2 DEF DoublyInv, DoublyFree
  <2>2. d_cur \in D \cup {NULL}
    BY <1>1, <2>1, PlacesWithin
  <2>3. ASSUME NEW a \in D PROVE d_heap[a].next \in D \cup {NULL}
    <3>1. PICK i \in k .. n : a = s[i].at
      BY <2>1 DEF Ats
    <3>2. d_heap[a].next = Place(s, i + 1)
      BY <2>1, <3>1, BothLinks
    <3>3. i + 1 \in Int /\ k \in Nat /\ i + 1 >= k
      BY <1>1, <3>1
    <3>4. QED
      BY <1>1, <2>1, <3>2, <3>3, PlacesWithin
  <2>4. QED
    BY <1>2, <2>2, <2>3 DEF Doubly!Held, Doubly!LinkedBack
<1>3. CASE d_pc # "free"
  <2>1. /\ DoublyWhole /\ Ats(s, 1) \subseteq D
        /\ \A i : Place(s, i) \in D \cup {NULL}
    BY <1>1, <1>3, PlacesWithin DEF DoublyInv, DoublyWhole
  <2>2. d_head \in D \cup {NULL}
    BY <2>1 DEF DoublyWhole
  <2>3. d_pc \in {"tail", "delete"} => d_cur \in D \cup {NULL}
    BY <2>1 DEF DoublyInv, DoublyTail, DoublyDelete
  <2>4. d_pc = "tail" => d_arg.at \in D
    BY <2>1 DEF DoublyWhole
  <2>5. Doubly!Held \subseteq D \cup {NULL}
    BY <1>3, <2>2, <2>3, <2>4 DEF Doubly!Held
  <2>6. ASSUME NEW a \in D
        PROVE  d_heap[a].next \in D \cup {NULL} /\ d_heap[a].prev \in D \cup {NULL}
    <3>1. CASE d_pc = "tail" /\ a = d_arg.at
      BY <3>1 DEF DoublyInv, DoublyTail
    <3>2. CASE ~(d_pc = "tail" /\ a = d_arg.at)
      <4>1. PICK i \in 1 .. n : a = s[i].at
        BY <2>1, <3>2 DEF DoublyWhole, Ats
      <4>2. d_heap[a].next = Place(s, i + 1) /\ d_heap[a].prev = Place(s, i - 1)
        BY <2>1, <4>1, BothLinks DEF DoublyWhole
      <4>3. QED
        BY <2>1, <4>2
    <3>3. QED
      BY <3>1, <3>2
  <2>7. QED
    BY <1>3, <2>5, <2>6 DEF Doubly!LinkedBack
<1>4. QED
  BY <1>2, <1>3

LEMMA DoublyReached ==
    ASSUME DoublyInv, NEW S \in SUBSET DOMAIN d_heap, Doubly!Held \subseteq S \cup {NULL},
           \A a \in S : d_heap[a].next \in S \cup {NULL}
    PROVE  S = DOMAIN d_heap
<1> DEFINE s == d_contents
           n == Len(s)
           D == DOMAIN d_heap
<1>1. s \in Seq(ListNode) /\ DoublyTyping /\ n \in Nat
  BY DoublyPlaces DEF DoublyInv, DoublyTyping
<1>2. CASE d_pc = "free"
  <2>1. PICK k \in 1 .. n + 1 : /\ d_cur = Place(s, k) /\ D = Ats(s, k)
                                /\ BothWays(d_heap, s, k)
    BY <1>2 DEF DoublyInv, DoublyFree
  <2>2. Place(s, k) \in S \cup {NULL}
    BY <1>2, <2>1 DEF Doubly!Held
  <2>3. \A i \in k .. n : d_heap[s[i].at].next = Place(s, i + 1)
    BY <2>1, BothLinks
  <2>4. Ats(s, k) \subseteq S
    BY <1>1, <2>2, <2>3, ChainReached
  <2>5. QED
    BY <2>1, <2>4
<1>3. CASE d_pc # "free"
  <2>1. /\ D = Ats(s, 1) \cup IF d_pc = "tail" THEN {d_arg.at} ELSE {}
        /\ d_head = Place(s, 1) /\ BothWays(d_heap, s, 1)
    BY <1>3 DEF DoublyInv, DoublyWhole
  <2>2. Place(s, 1) \in S \cup {NULL} /\ 1 \in 1 .. n + 1
    BY <1>1, <1>3, <2>1 DEF Doubly!Held
  <2>3. \A i \in 1 .. n : d_heap[s[i].at].next = Place(s, i + 1)
    BY <2>1, BothLinks
  <2>4. Ats(s, 1) \subseteq S
    BY <1>1, <2>2, <2>3, ChainReached
  <2>5. CASE d_pc = "tail"
    <3>1. d_arg.at \in S \cup {NULL}
      BY <2>5 DEF Doubly!Held
    <3>2. d_arg \in ListNode /\ d_arg.at # NULL
      BY <2>5, HeapAssumption DEF DoublyInv, DoublyTail, ListNode, List!ConstantsOK
    <3>3. QED
      BY <2>1, <2>4, <2>5, <3>1, <3>2
  <2>6. CASE d_pc # "tail"
    BY <2>1, <2>4, <2>6
  <2>7. QED
    BY <2>5, <2>6
<1>4. QED
  BY <1>2, <1>3

LEMMA DoublyMeans == ASSUME DoublyInv PROVE Doubly!NoLeak /\ Doubly!BothWaysAgree
<1> DEFINE n == Len(d_contents)
<1>1. DoublyTyping /\ Doubly!Size = n /\ n \in Nat
  BY DoublyPlaces DEF DoublyInv, Doubly!Size
<1>2. \A i : Doubly!At(i) = Place(d_contents, i)
  BY DEF Doubly!At, Doubly!Size, Place
<1>3. ASSUME NEW S \in SUBSET DOMAIN d_heap,
             Doubly!Held \cup Doubly!Linked(S) \subseteq S \cup {NULL}
      PROVE  S = DOMAIN d_heap
  <2>1. Doubly!Held \subseteq S \cup {NULL} /\ \A a \in S : d_heap[a].next \in S \cup {NULL}
    BY <1>3 DEF Doubly!Linked
  <2>2. QED
    BY <2>1, DoublyReached
<1>4. Doubly!Held \cup Doubly!Linked(DOMAIN d_heap) \cup Doubly!LinkedBack
        \subseteq DOMAIN d_heap \cup {NULL}
  BY DoublyNotDangling DEF Doubly!Linked
<1>5. Doubly!NoLeak
  BY <1>3, <1>4 DEF Doubly!NoLeak
<1>6. ASSUME NEW k \in Nat, k > 0, BothWays(d_heap, d_contents, k)
      PROVE  \A i \in k .. n : Doubly!Linking(i)
  <2> SUFFICES ASSUME NEW i \in k .. n PROVE Doubly!Linking(i)
    OBVIOUS
  <2>1. i \in 1 .. n
    BY <1>1, <1>6
  <2>2. Doubly!At(i) = d_contents[i].at
    BY <1>2, <2>1 DEF Place
  <2>3. d_heap[d_contents[i].at] = DoublyNode(d_contents, i)
    BY <1>6 DEF BothWays
  <2>4. QED
    BY <1>2, <2>2, <2>3 DEF Doubly!Linking, DoublyNode
<1>7. Doubly!BothWaysAgree
  <2>1. CASE d_pc = "free"
    <3>1. PICK k \in 1 .. n + 1 : d_cur = Place(d_contents, k) /\ BothWays(d_heap, d_contents, k)
      BY <2>1 DEF DoublyInv, DoublyFree
    <3>2. k \in Nat /\ k > 0
      BY <1>1
    <3>3. \A i \in k .. n : Doubly!Linking(i)
      BY <1>6, <3>1, <3>2
    <3>4. QED
      BY <1>1, <1>2, <2>1, <3>1, <3>3 DEF Doubly!BothWaysAgree
  <2>2. CASE d_pc # "free"
    BY <1>1, <1>2, <1>6, <2>2 DEF Doubly!BothWaysAgree, DoublyInv, DoublyWhole
  <2>3. QED
    BY <2>1, <2>2
<1>8. QED
  BY <1>5, <1>7

(* Through every insertion, deletion and release the doubly linked list    *)
(* can be walked both ways with the same contents, every allocated node is *)
(* within reach, and no pointer leads to freed memory, for every heap.     *)
THEOREM DoublyIsRight == Doubly!Spec => [](Doubly!NoLeak /\ Doubly!BothWaysAgree)
  BY DoublyInit, DoublyNext, DoublyMeans, PTL DEF Doubly!Spec


-----------------------------------------------------------------------------
(* The merge of two sorted lists (leetcode/day04_merge_sorted_lists.c) *)

(* The order of the result: by value, equal values by their places. *)
MergeBefore(x, y) == \/ m_value[x] < m_value[y]
                     \/ m_value[x] = m_value[y] /\ x < y

(* The node x of the list that ends with `last`, or NULL after it. *)
MergeFrom(x, last) == IF x <= last THEN x ELSE NULL

(* What points to the k-th merged node. *)
MergePrev(s, k) == IF k = 1 THEN -1 ELSE s[k - 1]
MergeNodes == {m_merged[k] : k \in 1 .. Len(m_merged)}

MergeTyping ==
    /\ m_n1 \in Nat /\ m_n2 \in Nat
    /\ m_value \in [1 .. m_n1 + m_n2 -> Int]
    /\ \A x \in 1 .. m_n1 + m_n2 : x # m_n1 /\ x # m_n1 + m_n2 => m_value[x] <= m_value[x + 1]
    /\ DOMAIN m_next = 1 .. m_n1 + m_n2 \cup {-1}
    /\ m_merged \in Seq(1 .. m_n1 + m_n2)

(* The nodes merged so far are linked in order, and tail is the last. *)
MergeLinks ==
    /\ m_tail = MergePrev(m_merged, Len(m_merged) + 1)
    /\ \A k \in 1 .. Len(m_merged) : m_next[MergePrev(m_merged, k)] = m_merged[k]
    /\ \A a, b \in 1 .. Len(m_merged) : a < b => MergeBefore(m_merged[a], m_merged[b])

(* They are the nodes before i and, in the second list, those before j; the *)
(* others are still linked as they were, and none of them comes before one. *)
MergeLeft(i, j) ==
    /\ i \in 1 .. m_n1 + 1 /\ j \in m_n1 + 1 .. m_n1 + m_n2 + 1
    /\ m_list1 = MergeFrom(i, m_n1) /\ m_list2 = MergeFrom(j, m_n1 + m_n2)
    /\ Len(m_merged) = (i - 1) + (j - 1 - m_n1)
    /\ MergeNodes = 1 .. i - 1 \cup m_n1 + 1 .. j - 1
    /\ \A x \in i .. m_n1 : m_next[x] = MergeFrom(x + 1, m_n1)
    /\ \A x \in j .. m_n1 + m_n2 : m_next[x] = MergeFrom(x + 1, m_n1 + m_n2)
    /\ \A a \in 1 .. Len(m_merged) :
          /\ i <= m_n1 => MergeBefore(m_merged[a], i)
          /\ j <= m_n1 + m_n2 => MergeBefore(m_merged[a], j)

MergeInv ==
    /\ m_returned \in BOOLEAN
    /\ ~m_returned => MergeTyping /\ MergeLinks /\ \E i, j \in Int : MergeLeft(i, j)
    /\ Merge!MergedInOrder

LEMMA MergeNull == NULL \notin Int
  BY HeapAssumption DEF Merge!ConstantsOK

LEMMA MergeInit == Merge!Init => MergeInv
<1> SUFFICES ASSUME Merge!Init PROVE MergeInv
  OBVIOUS
<1> DEFINE n == m_n1 + m_n2
<1>1. m_n1 \in Nat /\ m_n2 \in Nat /\ n \in Nat
  BY HeapAssumption DEF Merge!Init, Merge!ConstantsOK
<1>2. m_merged = <<>> /\ m_tail = -1 /\ ~m_returned /\ m_returned \in BOOLEAN
  BY DEF Merge!Init, Merge!Dummy
<1>3. MergeTyping
  <2>1. m_value \in [1 .. n -> Int]
    BY HeapAssumption DEF Merge!Init, Merge!ConstantsOK, Merge!Nodes
  <2>2. QED
    BY <1>1, <1>2, <2>1 DEF MergeTyping, Merge!Init, Merge!Nodes, Merge!Dummy
<1>4. Len(m_merged) = 0
  BY <1>2
<1>5. MergeLinks
  BY <1>2, <1>4 DEF MergeLinks, MergePrev
<1>6. /\ m_list1 = MergeFrom(1, m_n1) /\ m_list2 = MergeFrom(m_n1 + 1, n)
      /\ \A x \in 1 .. m_n1 : m_next[x] = MergeFrom(x + 1, m_n1)
      /\ \A x \in m_n1 + 1 .. n : m_next[x] = MergeFrom(x + 1, n)
  <2>1. m_next = [a \in 1 .. n \cup {-1} |-> IF a \in {m_n1, n, -1} THEN NULL ELSE a + 1]
    BY DEF Merge!Init, Merge!Nodes, Merge!Dummy
  <2>2. ASSUME NEW x \in 1 .. m_n1 PROVE m_next[x] = MergeFrom(x + 1, m_n1)
    <3>1. x \in 1 .. n /\ x # -1 /\ (x = n => x = m_n1) /\ (x + 1 <= m_n1 <=> x # m_n1)
      BY <1>1
    <3>2. QED
      BY <2>1, <3>1 DEF MergeFrom
  <2>3. ASSUME NEW x \in m_n1 + 1 .. n PROVE m_next[x] = MergeFrom(x + 1, n)
    <3>1. x \in 1 .. n /\ x # -1 /\ x # m_n1 /\ (x + 1 <= n <=> x # n)
      BY <1>1
    <3>2. QED
      BY <2>1, <3>1 DEF MergeFrom
  <2>4. m_list1 = MergeFrom(1, m_n1) /\ m_list2 = MergeFrom(m_n1 + 1, n)
    BY <1>1 DEF Merge!Init, MergeFrom
  <2>5. QED
    BY <2>2, <2>3, <2>4
<1>7. MergeLeft(1, m_n1 + 1)
  BY <1>1, <1>4, <1>6 DEF MergeLeft, MergeNodes
<1>8. QED
  BY <1>1, <1>2, <1>3, <1>5, <1>7 DEF MergeInv, Merge!MergedInOrder

(* The merged nodes are all different, and so are the pointers to them.    *)
LEMMA MergeApart ==
    ASSUME MergeTyping, MergeLinks
    PROVE  /\ Len(m_merged) \in Nat
           /\ \A a \in 1 .. Len(m_merged) : m_merged[a] \in 1 .. m_n1 + m_n2
           /\ \A k \in 1 .. Len(m_merged) : /\ MergePrev(m_merged, k) # m_tail
                                           /\ MergePrev(m_merged, k) \in DOMAIN m_next
           /\ m_tail = -1 \/ m_tail \in MergeNodes
           /\ m_tail \in DOMAIN m_next
<1> DEFINE L == Len(m_merged)
           S == 1 .. m_n1 + m_n2
<1>1. L \in Nat /\ \A a \in 1 .. L : m_merged[a] \in S
  <2>1. m_merged \in Seq(S)
    BY DEF MergeTyping
  <2> HIDE DEF S
  <2>2. QED
    BY <2>1, LenProperties, ElementOfSeq
<1>2. \A a \in 1 .. L : m_merged[a] # -1 /\ m_merged[a] \in S
  BY <1>1 DEF MergeTyping
<1>3. \A a, b \in 1 .. L : a # b => m_merged[a] # m_merged[b]
  <2>1. \A a, b \in 1 .. L : a < b => m_merged[a] # m_merged[b]
    <3> SUFFICES ASSUME NEW a \in 1 .. L, NEW b \in 1 .. L, a < b PROVE m_merged[a] # m_merged[b]
      OBVIOUS
    <3>1. MergeBefore(m_merged[a], m_merged[b])
      BY DEF MergeLinks
    <3>2. m_value[m_merged[a]] \in Int /\ m_merged[a] \in Int
      BY <1>2 DEF MergeTyping
    <3>3. QED
      BY <3>1, <3>2 DEF MergeBefore
  <2>2. QED
    BY <1>1, <2>1
<1>4. \A k \in 1 .. L : MergePrev(m_merged, k) # m_tail
  <2> SUFFICES ASSUME NEW k \in 1 .. L PROVE MergePrev(m_merged, k) # MergePrev(m_merged, L + 1)
    BY DEF MergeLinks
  <2>1. L \in 1 .. L /\ L + 1 # 1 /\ (L + 1) - 1 = L
    BY <1>1
  <2>2. CASE k = 1
    BY <1>2, <2>1, <2>2 DEF MergePrev
  <2>3. CASE k # 1
    <3>1. k - 1 \in 1 .. L /\ k - 1 # L
      BY <1>1, <2>3
    <3>2. QED
      BY <1>3, <2>1, <2>3, <3>1 DEF MergePrev
  <2>4. QED
    BY <2>2, <2>3
<1>5. m_tail = -1 \/ m_tail \in MergeNodes
  <2>1. CASE L = 0
    BY <2>1 DEF MergeLinks, MergePrev
  <2>2. CASE L # 0
    <3>1. L \in 1 .. L /\ L + 1 # 1 /\ (L + 1) - 1 = L
      BY <1>1, <2>2
    <3>2. QED
      BY <3>1 DEF MergeLinks, MergePrev, MergeNodes
  <2>3. QED
    BY <2>1, <2>2
<1>6. m_tail \in DOMAIN m_next
  BY <1>2, <1>5 DEF MergeTyping, MergeNodes
<1>7. \A k \in 1 .. L : MergePrev(m_merged, k) \in DOMAIN m_next
  <2> SUFFICES ASSUME NEW k \in 1 .. L PROVE MergePrev(m_merged, k) \in DOMAIN m_next
    OBVIOUS
  <2>1. CASE k = 1
    BY <2>1 DEF MergePrev, MergeTyping
  <2>2. CASE k # 1
    <3>1. k - 1 \in 1 .. L
      BY <1>1, <2>2
    <3>2. QED
      BY <1>1, <2>2, <3>1 DEF MergePrev, MergeTyping
  <2>3. QED
    BY <2>1, <2>2
<1>8. QED
  BY <1>1, <1>4, <1>5, <1>6, <1>7

(* A new last node that none of the others comes after. *)
MergeLengthened(x) ==
    /\ MergeTyping' /\ MergeLinks'
    /\ Len(m_merged') = Len(m_merged) + 1 /\ MergeNodes' = MergeNodes \cup {x}
    /\ m_merged'[Len(m_merged) + 1] = x
    /\ \A a \in 1 .. Len(m_merged) : m_merged'[a] = m_merged[a]
    /\ \A y \in 1 .. m_n1 + m_n2 : y \notin MergeNodes => m_next'[y] = m_next[y]

LEMMA MergeTake ==
    ASSUME MergeTyping, MergeLinks, NEW x \in 1 .. m_n1 + m_n2,
           \A a \in 1 .. Len(m_merged) : MergeBefore(m_merged[a], x),
           m_next' = [m_next EXCEPT ![m_tail] = x],
           m_tail' = x, m_merged' = Append(m_merged, x),
           UNCHANGED <<m_n1, m_n2, m_value>>
    PROVE  MergeLengthened(x)
<1> DEFINE L == Len(m_merged)
           S == 1 .. m_n1 + m_n2
<1>1. /\ L \in Nat /\ m_merged' \in Seq(S) /\ Len(m_merged') = L + 1
      /\ m_merged'[L + 1] = x
      /\ \A a \in 1 .. L : m_merged'[a] = m_merged[a] /\ m_merged[a] \in S
  <2>1. m_merged \in Seq(S) /\ x \in S
    BY DEF MergeTyping
  <2> HIDE DEF S
  <2>2. QED
    BY <2>1, Appended, LenProperties, ElementOfSeq
<1>2. /\ \A k \in 1 .. L : /\ MergePrev(m_merged, k) # m_tail
                          /\ MergePrev(m_merged, k) \in DOMAIN m_next
      /\ m_tail = -1 \/ m_tail \in MergeNodes
      /\ m_tail \in DOMAIN m_next
  BY MergeApart
<1>7. DOMAIN m_next' = DOMAIN m_next /\ m_next'[m_tail] = x
      /\ \A y \in DOMAIN m_next : y # m_tail => m_next'[y] = m_next[y]
  BY <1>2
<1>8. MergeTyping'
  BY <1>1, <1>7 DEF MergeTyping
<1>9. MergeNodes' = MergeNodes \cup {x}
  <2>1. \A a \in 1 .. L + 1 : a \in 1 .. L \/ a = L + 1
    BY <1>1
  <2>2. L + 1 \in 1 .. L + 1 /\ \A a \in 1 .. L : a \in 1 .. L + 1
    BY <1>1
  <2>3. QED
    BY <1>1, <2>1, <2>2 DEF MergeNodes
<1>10. \A y \in S : y \notin MergeNodes => m_next'[y] = m_next[y]
  <2> SUFFICES ASSUME NEW y \in S, y \notin MergeNodes PROVE m_next'[y] = m_next[y]
    OBVIOUS
  <2>1. y # -1 /\ y \in DOMAIN m_next
    BY DEF MergeTyping
  <2>2. QED
    BY <1>2, <1>7, <2>1
<1>11. \A k \in 1 .. L : MergePrev(m_merged', k) = MergePrev(m_merged, k)
  BY <1>1 DEF MergePrev
<1>12. MergePrev(m_merged', L + 1) = MergePrev(m_merged, L + 1) /\ MergePrev(m_merged', L + 2) = x
  <2>1. L + 2 # 1 /\ (L + 2) - 1 = L + 1 /\ (L + 1) - 1 = L /\ (L + 1 # 1 => L \in 1 .. L)
    BY <1>1
  <2>2. QED
    BY <1>1, <2>1 DEF MergePrev
<1>13. MergeLinks'
  <2>1. m_tail' = MergePrev(m_merged', L + 2)
    <3>1. Len(m_merged') + 1 = L + 2
      BY <1>1
    <3>2. QED
      BY <1>12, <3>1 DEF MergePrev
  <2>2. ASSUME NEW k \in 1 .. L + 1 PROVE m_next'[MergePrev(m_merged', k)] = m_merged'[k]
    <3>1. CASE k = L + 1
      BY <1>1, <1>7, <1>12, <3>1 DEF MergeLinks
    <3>2. CASE k # L + 1
      <4>1. k \in 1 .. L
        BY <1>1, <3>2
      <4>2. QED
        BY <1>1, <1>2, <1>7, <1>11, <4>1 DEF MergeLinks
    <3>3. QED
      BY <3>1, <3>2
  <2>3. ASSUME NEW a \in 1 .. L + 1, NEW b \in 1 .. L + 1, a < b
        PROVE  MergeBefore(m_merged[a], m_merged[b])'
    <3>1. a \in 1 .. L /\ m_merged'[a] = m_merged[a]
      BY <1>1, <2>3
    <3>2. SUFFICES MergeBefore(m_merged[a], m_merged'[b])
      BY <3>1 DEF MergeBefore
    <3>3. CASE b = L + 1
      BY <1>1, <3>1, <3>3
    <3>4. CASE b # L + 1
      <4>1. b \in 1 .. L
        BY <1>1, <3>4
      <4>2. QED
        BY <1>1, <2>3, <3>1, <4>1 DEF MergeLinks
    <3>5. QED
      BY <3>3, <3>4
  <2>4. Len(m_merged') = L + 1 /\ L \in Nat
    BY <1>1
  <2> HIDE DEF L
  <2>5. Len(m_merged') + 1 = L + 2
    BY <2>4
  <2>6. QED
    BY <2>1, <2>2, <2>3, <2>4, <2>5 DEF MergeLinks
<1>14. QED
  BY <1>1, <1>8, <1>9, <1>10, <1>13 DEF MergeLengthened

(* In a list whose neighbours are ordered, every two nodes are. *)
LEMMA MergeSorted ==
    ASSUME MergeTyping, NEW a \in 1 .. m_n1 + m_n2, NEW b \in 1 .. m_n1 + m_n2, a < b,
           b <= m_n1 \/ a > m_n1
    PROVE  MergeBefore(a, b)
<1> DEFINE T == {x \in Nat : a < x /\ x <= b /\ m_value[x] < m_value[a]}
<1>1. T = {}
  <2> SUFFICES ASSUME T # {} PROVE FALSE
    OBVIOUS
  <2>1. PICK x \in T : \A y \in T : x <= y
    <3>1. T \subseteq Nat
      OBVIOUS
    <3> HIDE DEF T
    <3>2. QED
      BY <3>1, LeastOf
  <2>2. /\ x \in Nat /\ a < x /\ x <= b /\ m_value[x] < m_value[a]
        /\ x - 1 \in 1 .. m_n1 + m_n2 /\ x - 1 # m_n1 /\ x - 1 # m_n1 + m_n2
        /\ (x - 1) + 1 = x /\ x \in 1 .. m_n1 + m_n2
    BY <2>1 DEF MergeTyping
  <2>3. m_value[x - 1] <= m_value[x]
    BY <2>2 DEF MergeTyping
  <2>4. m_value[x] \in Int /\ m_value[x - 1] \in Int /\ m_value[a] \in Int
    BY <2>2 DEF MergeTyping
  <2>5. x - 1 \in T
    <3>1. x - 1 # a
      BY <2>2, <2>3, <2>4
    <3>2. QED
      BY <2>2, <2>3, <2>4, <3>1
  <2>6. QED
    BY <2>1, <2>2, <2>5
<1>2. m_value[a] \in Int /\ m_value[b] \in Int /\ b \in Nat
  BY DEF MergeTyping
<1>3. ~(m_value[b] < m_value[a])
  <2>1. b \notin T
    BY <1>1
  <2>2. QED
    BY <1>2, <2>1
<1>4. QED
  BY <1>2, <1>3 DEF MergeBefore

LEMMA MergeTransitive ==
    ASSUME MergeTyping, NEW a \in 1 .. m_n1 + m_n2, NEW b \in 1 .. m_n1 + m_n2,
           NEW c \in 1 .. m_n1 + m_n2, MergeBefore(a, b), MergeBefore(b, c)
    PROVE  MergeBefore(a, c)
<1>1. m_value[a] \in Int /\ m_value[b] \in Int /\ m_value[c] \in Int
  BY DEF MergeTyping
<1>2. QED
  BY <1>1 DEF MergeBefore

(* A node that was taken comes before those that were left behind it. *)
LEMMA MergeHeads ==
    ASSUME MergeTyping, MergeLinks, NEW i \in Int, NEW j \in Int, MergeLeft(i, j)
    PROVE  /\ Len(m_merged) \in Nat
           /\ \A a \in 1 .. Len(m_merged) : m_merged[a] \in 1 .. m_n1 + m_n2
           /\ (m_list1 # NULL <=> i <= m_n1) /\ (m_list1 # NULL => m_list1 = i)
           /\ (m_list2 # NULL <=> j <= m_n1 + m_n2) /\ (m_list2 # NULL => m_list2 = j)
<1>1. /\ Len(m_merged) \in Nat
      /\ \A a \in 1 .. Len(m_merged) : m_merged[a] \in 1 .. m_n1 + m_n2
  <2> DEFINE S == 1 .. m_n1 + m_n2
  <2>1. m_merged \in Seq(S)
    BY DEF MergeTyping
  <2> HIDE DEF S
  <2>2. Len(m_merged) \in Nat /\ \A a \in 1 .. Len(m_merged) : m_merged[a] \in S
    BY <2>1, LenProperties, ElementOfSeq
  <2>3. QED
    BY <2>2 DEF S
<1>2. QED
  BY <1>1, MergeNull DEF MergeLeft, MergeFrom

LEMMA MergeTakeFirst == ASSUME MergeInv, Merge!TakeFirst PROVE MergeInv'
<1> DEFINE n == m_n1 + m_n2
           L == Len(m_merged)
<1>1. /\ MergeTyping /\ MergeLinks /\ m_returned' = FALSE
      /\ m_list1 # NULL /\ m_list2 # NULL /\ m_value[m_list1] <= m_value[m_list2]
      /\ m_next' = [m_next EXCEPT ![m_tail] = m_list1]
      /\ m_list1' = m_next[m_list1] /\ m_tail' = m_list1
      /\ m_merged' = Append(m_merged, m_list1)
      /\ UNCHANGED <<m_n1, m_n2, m_value, m_list2>>
      /\ \E i, j \in Int : MergeLeft(i, j)
  BY DEF MergeInv, Merge!TakeFirst, Merge!BothLeft, Merge!FirstGoes
<1>2. PICK i \in Int, j \in Int : MergeLeft(i, j)
  BY <1>1
<1>3. /\ m_n1 \in Nat /\ m_n2 \in Nat /\ L \in Nat
      /\ i \in 1 .. m_n1 /\ j \in m_n1 + 1 .. n
      /\ m_list1 = i /\ m_list2 = j /\ i \in 1 .. n /\ j \in 1 .. n
      /\ \A a \in 1 .. L : m_merged[a] \in 1 .. n
  <2>1. /\ L \in Nat /\ \A a \in 1 .. L : m_merged[a] \in 1 .. n
        /\ i <= m_n1 /\ m_list1 = i /\ j <= n /\ m_list2 = j
    BY <1>1, <1>2, MergeHeads
  <2>2. m_n1 \in Nat /\ m_n2 \in Nat /\ i \in 1 .. m_n1 + 1 /\ j \in m_n1 + 1 .. n + 1
    BY <1>1, <1>2 DEF MergeLeft, MergeTyping
  <2>3. QED
    BY <2>1, <2>2
<1>4. MergeLengthened(i)
  <2>1. \A a \in 1 .. L : MergeBefore(m_merged[a], i)
    BY <1>2, <1>3 DEF MergeLeft
  <2>2. QED
    BY <1>1, <1>3, <2>1, MergeTake
<1>5. MergeBefore(i, j)
  BY <1>1, <1>3 DEF MergeBefore, MergeTyping
<1>6. i + 1 <= m_n1 => i + 1 \in 1 .. n /\ MergeBefore(i, i + 1)
  BY <1>1, <1>3 DEF MergeBefore, MergeTyping
<1>7. MergeLeft(i + 1, j)'
  <2>1. m_list1' = MergeFrom(i + 1, m_n1)
    BY <1>1, <1>2, <1>3 DEF MergeLeft
  <2>2. MergeNodes' = 1 .. i \cup m_n1 + 1 .. j - 1
    BY <1>2, <1>3, <1>4 DEF MergeLeft, MergeLengthened
  <2>3. ASSUME NEW x \in i + 1 .. m_n1 PROVE m_next'[x] = MergeFrom(x + 1, m_n1)
    <3>1. x \in 1 .. n /\ x \notin MergeNodes /\ x \in i .. m_n1
      BY <1>2, <1>3 DEF MergeLeft
    <3>2. QED
      BY <1>2, <1>4, <3>1 DEF MergeLeft, MergeLengthened
  <2>4. ASSUME NEW x \in j .. n PROVE m_next'[x] = MergeFrom(x + 1, n)
    <3>1. x \in 1 .. n /\ x \notin MergeNodes
      BY <1>2, <1>3 DEF MergeLeft
    <3>2. QED
      BY <1>2, <1>4, <3>1 DEF MergeLeft, MergeLengthened
  <2>5. ASSUME NEW a \in 1 .. L + 1
        PROVE  /\ i + 1 <= m_n1 => MergeBefore(m_merged'[a], i + 1)
               /\ MergeBefore(m_merged'[a], j)
    <3>1. CASE a = L + 1
      BY <1>4, <1>5, <1>6, <3>1 DEF MergeLengthened
    <3>2. CASE a # L + 1
      <4>1. a \in 1 .. L
        BY <1>3, <3>2
      <4>2. /\ m_merged'[a] = m_merged[a]
            /\ MergeBefore(m_merged[a], i) /\ MergeBefore(m_merged[a], j)
        BY <1>2, <1>3, <1>4, <4>1 DEF MergeLeft, MergeLengthened
      <4>3. i + 1 <= m_n1 => MergeBefore(m_merged[a], i + 1)
        BY <1>1, <1>3, <1>6, <4>1, <4>2, MergeTransitive
      <4>4. QED
        BY <4>2, <4>3
    <3>3. QED
      BY <3>1, <3>2
  <2>6. Len(m_merged') = ((i + 1) - 1) + (j - 1 - m_n1) /\ (i + 1) - 1 = i
    BY <1>2, <1>3, <1>4 DEF MergeLeft, MergeLengthened
  <2>7. /\ m_list2' = MergeFrom(j, n) /\ Len(m_merged') = L + 1
        /\ i + 1 \in 1 .. m_n1 + 1 /\ j \in m_n1 + 1 .. n + 1
    BY <1>1, <1>2, <1>3, <1>4 DEF MergeLeft, MergeLengthened
  <2>8. /\ m_list1' = MergeFrom(i + 1, m_n1)' /\ m_list2' = MergeFrom(j, m_n1 + m_n2)'
        /\ \A x \in i + 1 .. m_n1' : m_next'[x] = MergeFrom(x + 1, m_n1)'
        /\ \A x \in j .. m_n1' + m_n2' : m_next'[x] = MergeFrom(x + 1, m_n1 + m_n2)'
    BY <1>1, <2>1, <2>3, <2>4, <2>7 DEF MergeFrom
  <2>9. \A a \in 1 .. Len(m_merged') : /\ i + 1 <= m_n1' => MergeBefore(m_merged[a], i + 1)'
                                       /\ MergeBefore(m_merged[a], j)'
    BY <1>1, <2>5, <2>7 DEF MergeBefore
  <2>10. /\ i + 1 \in 1 .. m_n1' + 1 /\ j \in m_n1' + 1 .. m_n1' + m_n2' + 1
         /\ Len(m_merged') = ((i + 1) - 1) + (j - 1 - m_n1')
         /\ MergeNodes' = 1 .. (i + 1) - 1 \cup m_n1' + 1 .. j - 1
    BY <1>1, <2>2, <2>6, <2>7
  <2>11. QED
    BY <2>8, <2>9, <2>10 DEF MergeLeft
<1>8. QED
  <2>1. MergeTyping' /\ MergeLinks' /\ i + 1 \in Int
    BY <1>4 DEF MergeLengthened
  <2>2. \E a, b \in Int : MergeLeft(a, b)'
    BY <1>7, <2>1
  <2>3. QED
    BY <1>1, <2>1, <2>2 DEF MergeInv, Merge!MergedInOrder

LEMMA MergeTakeSecond == ASSUME MergeInv, Merge!TakeSecond PROVE MergeInv'
<1> DEFINE n == m_n1 + m_n2
           L == Len(m_merged)
<1>1. /\ MergeTyping /\ MergeLinks /\ m_returned' = FALSE
      /\ m_list1 # NULL /\ m_list2 # NULL /\ ~(m_value[m_list1] <= m_value[m_list2])
      /\ m_next' = [m_next EXCEPT ![m_tail] = m_list2]
      /\ m_list2' = m_next[m_list2] /\ m_tail' = m_list2
      /\ m_merged' = Append(m_merged, m_list2)
      /\ UNCHANGED <<m_n1, m_n2, m_value, m_list1>>
      /\ \E i, j \in Int : MergeLeft(i, j)
  BY DEF MergeInv, Merge!TakeSecond, Merge!BothLeft, Merge!FirstGoes
<1>2. PICK i \in Int, j \in Int : MergeLeft(i, j)
  BY <1>1
<1>3. /\ m_n1 \in Nat /\ m_n2 \in Nat /\ L \in Nat
      /\ i \in 1 .. m_n1 /\ j \in m_n1 + 1 .. n
      /\ m_list1 = i /\ m_list2 = j /\ i \in 1 .. n /\ j \in 1 .. n
      /\ \A a \in 1 .. L : m_merged[a] \in 1 .. n
  <2>1. /\ L \in Nat /\ \A a \in 1 .. L : m_merged[a] \in 1 .. n
        /\ i <= m_n1 /\ m_list1 = i /\ j <= n /\ m_list2 = j
    BY <1>1, <1>2, MergeHeads
  <2>2. m_n1 \in Nat /\ m_n2 \in Nat /\ i \in 1 .. m_n1 + 1 /\ j \in m_n1 + 1 .. n + 1
    BY <1>1, <1>2 DEF MergeLeft, MergeTyping
  <2>3. QED
    BY <2>1, <2>2
<1>4. MergeLengthened(j)
  <2>1. \A a \in 1 .. L : MergeBefore(m_merged[a], j)
    BY <1>2, <1>3 DEF MergeLeft
  <2>2. QED
    BY <1>1, <1>3, <2>1, MergeTake
<1>5. MergeBefore(j, i)
  <2>1. m_value[i] \in Int /\ m_value[j] \in Int
    BY <1>1, <1>3 DEF MergeTyping
  <2>2. QED
    BY <1>1, <1>3, <2>1 DEF MergeBefore
<1>6. j + 1 <= n => j + 1 \in 1 .. n /\ MergeBefore(j, j + 1)
  <2> SUFFICES ASSUME j + 1 <= n PROVE j + 1 \in 1 .. n /\ MergeBefore(j, j + 1)
    OBVIOUS
  <2>1. j \in 1 .. n /\ j + 1 \in 1 .. n /\ j # m_n1 /\ j # n /\ j < j + 1
    BY <1>3
  <2>2. m_value[j] <= m_value[j + 1] /\ m_value[j] \in Int /\ m_value[j + 1] \in Int
    BY <1>1, <2>1 DEF MergeTyping
  <2>3. QED
    BY <2>1, <2>2 DEF MergeBefore
<1>7. MergeLeft(i, j + 1)'
  <2>1. m_list2' = MergeFrom(j + 1, n)
    <3>1. j \in j .. n
      BY <1>3
    <3>2. QED
      BY <1>1, <1>2, <1>3, <3>1 DEF MergeLeft
  <2>2. MergeNodes' = 1 .. i - 1 \cup m_n1 + 1 .. j
    BY <1>2, <1>3, <1>4 DEF MergeLeft, MergeLengthened
  <2>3. ASSUME NEW x \in i .. m_n1 PROVE m_next'[x] = MergeFrom(x + 1, m_n1)
    <3>1. x \in 1 .. n /\ x \notin MergeNodes
      BY <1>2, <1>3 DEF MergeLeft
    <3>2. QED
      BY <1>2, <1>4, <3>1 DEF MergeLeft, MergeLengthened
  <2>4. ASSUME NEW x \in j + 1 .. n PROVE m_next'[x] = MergeFrom(x + 1, n)
    <3>1. x \in 1 .. n /\ x \notin MergeNodes /\ x \in j .. n
      BY <1>2, <1>3 DEF MergeLeft
    <3>2. QED
      BY <1>2, <1>4, <3>1 DEF MergeLeft, MergeLengthened
  <2>5. ASSUME NEW a \in 1 .. L + 1
        PROVE  /\ MergeBefore(m_merged'[a], i)
               /\ j + 1 <= n => MergeBefore(m_merged'[a], j + 1)
    <3>1. CASE a = L + 1
      BY <1>4, <1>5, <1>6, <3>1 DEF MergeLengthened
    <3>2. CASE a # L + 1
      <4>1. a \in 1 .. L
        BY <1>3, <3>2
      <4>2. /\ m_merged'[a] = m_merged[a]
            /\ MergeBefore(m_merged[a], i) /\ MergeBefore(m_merged[a], j)
        BY <1>2, <1>3, <1>4, <4>1 DEF MergeLeft, MergeLengthened
      <4>3. j + 1 <= n => MergeBefore(m_merged[a], j + 1)
        BY <1>1, <1>3, <1>6, <4>1, <4>2, MergeTransitive
      <4>4. QED
        BY <4>2, <4>3
    <3>3. QED
      BY <3>1, <3>2
  <2>6. Len(m_merged') = (i - 1) + ((j + 1) - 1 - m_n1) /\ (j + 1) - 1 = j
    BY <1>2, <1>3, <1>4 DEF MergeLeft, MergeLengthened
  <2>7. /\ m_list1' = MergeFrom(i, m_n1) /\ Len(m_merged') = L + 1
        /\ i \in 1 .. m_n1 + 1 /\ j + 1 \in m_n1 + 1 .. n + 1
    BY <1>1, <1>2, <1>3, <1>4 DEF MergeLeft, MergeLengthened
  <2>8. /\ m_list1' = MergeFrom(i, m_n1)' /\ m_list2' = MergeFrom(j + 1, m_n1 + m_n2)'
        /\ \A x \in i .. m_n1' : m_next'[x] = MergeFrom(x + 1, m_n1)'
        /\ \A x \in j + 1 .. m_n1' + m_n2' : m_next'[x] = MergeFrom(x + 1, m_n1 + m_n2)'
    BY <1>1, <2>1, <2>3, <2>4, <2>7 DEF MergeFrom
  <2>9. \A a \in 1 .. Len(m_merged') : /\ MergeBefore(m_merged[a], i)'
                                       /\ j + 1 <= m_n1' + m_n2'
                                             => MergeBefore(m_merged[a], j + 1)'
    BY <1>1, <2>5, <2>7 DEF MergeBefore
  <2>10. /\ i \in 1 .. m_n1' + 1 /\ j + 1 \in m_n1' + 1 .. m_n1' + m_n2' + 1
         /\ Len(m_merged') = (i - 1) + ((j + 1) - 1 - m_n1')
         /\ MergeNodes' = 1 .. i - 1 \cup m_n1' + 1 .. (j + 1) - 1
    BY <1>1, <2>2, <2>6, <2>7
  <2>11. QED
    BY <2>8, <2>9, <2>10 DEF MergeLeft
<1>8. QED
  <2>1. MergeTyping' /\ MergeLinks' /\ j + 1 \in Int
    BY <1>4 DEF MergeLengthened
  <2>2. \E a, b \in Int : MergeLeft(a, b)'
    BY <1>7, <2>1
  <2>3. QED
    BY <1>1, <2>1, <2>2 DEF MergeInv, Merge!MergedInOrder

(* What is left of one list, from lo to hi, is appended as it is linked.    *)
LEMMA MergeRest ==
    ASSUME NEW lo \in Int, NEW hi \in Int, NEW S, NEW s \in Seq(S),
           lo <= hi + 1, lo .. hi \subseteq S,
           NEW r, r = [q \in 1 .. hi - lo + 1 |-> lo + q - 1]
    PROVE  /\ s \o r \in Seq(S) /\ Len(s) \in Nat
           /\ Len(s \o r) = Len(s) + (hi - lo + 1)
           /\ \A a \in 1 .. Len(s) : (s \o r)[a] = s[a]
           /\ \A a \in Len(s) + 1 .. Len(s \o r) : (s \o r)[a] = lo + (a - Len(s)) - 1
<1>1. hi - lo + 1 \in Nat /\ \A q \in 1 .. hi - lo + 1 : lo + q - 1 \in S
  <2>1. hi - lo + 1 >= 0 /\ \A q \in 1 .. hi - lo + 1 : lo + q - 1 \in lo .. hi
    OBVIOUS
  <2>2. QED
    BY <2>1
<1> DEFINE m == hi - lo + 1
<1>2. r \in Seq(S) /\ Len(r) = m /\ \A q \in 1 .. m : r[q] = lo + q - 1
  <2>1. m \in Nat /\ r = [q \in 1 .. m |-> lo + q - 1] /\ \A q \in 1 .. m : lo + q - 1 \in S
    BY <1>1
  <2> HIDE DEF m
  <2>2. QED
    BY <2>1
<1>3. /\ s \o r \in Seq(S) /\ Len(s \o r) = Len(s) + Len(r) /\ Len(s) \in Nat
      /\ \A a \in 1 .. Len(s) + Len(r) :
            (s \o r)[a] = IF a <= Len(s) THEN s[a] ELSE r[a - Len(s)]
  BY <1>2, ConcatProperties, LenProperties
<1>4. Len(s \o r) = Len(s) + m /\ m \in Nat
  BY <1>1, <1>2, <1>3
<1>5. ASSUME NEW a \in 1 .. Len(s) PROVE (s \o r)[a] = s[a]
  BY <1>1, <1>2, <1>3
<1>6. ASSUME NEW a \in Len(s) + 1 .. Len(s \o r)
      PROVE  (s \o r)[a] = lo + (a - Len(s)) - 1
  <2>1. a \in 1 .. Len(s) + Len(r) /\ ~(a <= Len(s)) /\ a - Len(s) \in 1 .. m
    BY <1>2, <1>3, <1>4
  <2>2. QED
    BY <1>2, <1>3, <2>1
<1>7. QED
  BY <1>3, <1>4, <1>5, <1>6

(* When one list is empty, the other one from lo to hi is all that is left, *)
(* and it is linked behind the tail.                                       *)
MergeEnds(lo, hi) ==
    /\ lo <= hi + 1 /\ lo .. hi \subseteq 1 .. m_n1 + m_n2
    /\ hi <= m_n1 \/ lo > m_n1
    /\ m_next' = [m_next EXCEPT ![m_tail] = MergeFrom(lo, hi)]
    /\ m_merged' = m_merged \o [q \in 1 .. hi - lo + 1 |-> lo + q - 1]
    /\ MergeNodes \cup lo .. hi = 1 .. m_n1 + m_n2 /\ MergeNodes \cap lo .. hi = {}
    /\ Len(m_merged) + (hi - lo + 1) = m_n1 + m_n2
    /\ \A x \in lo .. hi : m_next[x] = MergeFrom(x + 1, hi)
    /\ \A a \in 1 .. Len(m_merged) : lo <= hi => MergeBefore(m_merged[a], lo)

LEMMA MergeFinishes ==
    ASSUME MergeTyping, MergeLinks, Merge!Finish, NEW i \in Int, NEW j \in Int, MergeLeft(i, j)
    PROVE  \E lo, hi \in Int : MergeEnds(lo, hi)
<1> DEFINE n == m_n1 + m_n2
           rest(lo, hi) == [q \in 1 .. hi - lo + 1 |-> lo + q - 1]
<1>1. /\ m_list1 = NULL \/ m_list2 = NULL
      /\ m_next' = [m_next EXCEPT ![m_tail] = IF m_list1 # NULL THEN m_list1 ELSE m_list2]
      /\ m_merged' = m_merged \o Merge!Rest(m_list1, m_n1) \o Merge!Rest(m_list2, n)
  BY DEF Merge!Finish, Merge!BothLeft
<1>2. /\ m_n1 \in Nat /\ m_n2 \in Nat /\ i \in 1 .. m_n1 + 1 /\ j \in m_n1 + 1 .. n + 1
      /\ (m_list1 # NULL <=> i <= m_n1) /\ (m_list1 # NULL => m_list1 = i)
      /\ (m_list2 # NULL <=> j <= n) /\ (m_list2 # NULL => m_list2 = j)
  <2>1. m_n1 \in Nat /\ m_n2 \in Nat /\ i \in 1 .. m_n1 + 1 /\ j \in m_n1 + 1 .. n + 1
    BY DEF MergeTyping, MergeLeft
  <2>2. QED
    BY <2>1, MergeHeads
<1>3. \A s \in Seq(1 .. n) : s \o <<>> = s /\ <<>> \o s = s
  BY ConcatEmptySeq
<1>4. /\ m_merged \in Seq(1 .. n)
      /\ \A lo, hi \in Int : lo <= hi + 1 /\ lo .. hi \subseteq 1 .. n
                             => m_merged \o rest(lo, hi) \in Seq(1 .. n)
  <2>1. m_merged \in Seq(1 .. n)
    BY DEF MergeTyping
  <2> SUFFICES ASSUME NEW lo \in Int, NEW hi \in Int, lo <= hi + 1, lo .. hi \subseteq 1 .. n
               PROVE  m_merged \o rest(lo, hi) \in Seq(1 .. n)
    BY <2>1
  <2>2. QED
    BY <2>1, MergeRest
<1>5. CASE m_list1 # NULL
  <2>1. /\ i <= m_n1 /\ m_list1 = i /\ m_list2 = NULL /\ j = n + 1
        /\ i <= m_n1 + 1 /\ i .. m_n1 \subseteq 1 .. n
    BY <1>1, <1>2, <1>5
  <2>2. Merge!Rest(m_list1, m_n1) = rest(i, m_n1) /\ Merge!Rest(m_list2, n) = <<>>
    BY <1>5, <2>1 DEF Merge!Rest
  <2>3. m_merged' = m_merged \o rest(i, m_n1)
    <3>1. m_n1 \in Int /\ m_merged \o rest(i, m_n1) \in Seq(1 .. n)
      BY <1>2, <1>4, <2>1
    <3>2. (m_merged \o rest(i, m_n1)) \o <<>> = m_merged \o rest(i, m_n1)
      BY <1>3, <3>1
    <3>3. QED
      BY <1>1, <2>2, <3>2
  <2>4. m_next' = [m_next EXCEPT ![m_tail] = MergeFrom(i, m_n1)]
    BY <1>1, <1>5, <2>1 DEF MergeFrom
  <2>5. /\ MergeNodes \cup i .. m_n1 = 1 .. n /\ MergeNodes \cap i .. m_n1 = {}
        /\ Len(m_merged) + (m_n1 - i + 1) = n
    <3>1. /\ MergeNodes = 1 .. i - 1 \cup m_n1 + 1 .. j - 1
          /\ Len(m_merged) = (i - 1) + (j - 1 - m_n1) /\ j - 1 = n
      BY <1>2, <2>1 DEF MergeLeft
    <3>2. QED
      BY <1>2, <2>1, <3>1
  <2>6. /\ \A x \in i .. m_n1 : m_next[x] = MergeFrom(x + 1, m_n1)
        /\ \A a \in 1 .. Len(m_merged) : i <= m_n1 => MergeBefore(m_merged[a], i)
    BY DEF MergeLeft
  <2>7. MergeEnds(i, m_n1)
    <3> HIDE DEF rest
    <3>1. m_n1 <= m_n1
      BY <1>2
    <3>2. QED
      BY <2>1, <2>3, <2>4, <2>5, <2>6, <3>1 DEF MergeEnds, rest
  <2>8. QED
    BY <1>2, <2>7
<1>6. CASE m_list1 = NULL
  <2>1. /\ i = m_n1 + 1 /\ j <= n + 1 /\ j .. n \subseteq 1 .. n /\ j > m_n1 /\ n \in Int
        /\ m_list2 = MergeFrom(j, n)
    BY <1>2, <1>6 DEF MergeLeft
  <2>2. Merge!Rest(m_list1, m_n1) = <<>> /\ Merge!Rest(m_list2, n) = rest(j, n)
    <3>1. CASE m_list2 # NULL
      BY <1>2, <1>6, <3>1 DEF Merge!Rest
    <3>2. CASE m_list2 = NULL
      <4>1. j = n + 1 /\ n - j + 1 = 0
        BY <1>2, <3>2
      <4>2. rest(j, n) = <<>>
        BY <4>1
      <4>3. QED
        BY <1>6, <3>2, <4>2 DEF Merge!Rest
    <3>3. QED
      BY <3>1, <3>2
  <2>3. m_merged' = m_merged \o rest(j, n)
    BY <1>1, <1>3, <1>4, <2>2
  <2>4. m_next' = [m_next EXCEPT ![m_tail] = MergeFrom(j, n)]
    BY <1>1, <1>6, <2>1
  <2>5. /\ MergeNodes \cup j .. n = 1 .. n /\ MergeNodes \cap j .. n = {}
        /\ Len(m_merged) + (n - j + 1) = n
    BY <1>2, <2>1 DEF MergeLeft
  <2>6. MergeEnds(j, n)
    BY <1>2, <2>1, <2>3, <2>4, <2>5 DEF MergeEnds, MergeLeft
  <2>7. QED
    BY <2>1, <2>6
<1>7. QED
  BY <1>5, <1>6

LEMMA MergeEnded ==
    ASSUME MergeTyping, MergeLinks, NEW lo \in Int, NEW hi \in Int, MergeEnds(lo, hi),
           UNCHANGED <<m_n1, m_n2, m_value>>
    PROVE  Merge!MergedInOrder'
<1> DEFINE n == m_n1 + m_n2
           L == Len(m_merged)
           t == m_merged'
<1>0. /\ n \in Nat /\ L \in Nat /\ L + (hi - lo + 1) = n /\ lo <= hi + 1 /\ L <= n
      /\ \A x \in lo .. hi : x \in 1 .. n
  <2>1. n \in Nat /\ L \in Nat
    BY MergeApart DEF MergeTyping
  <2>2. QED
    BY <2>1 DEF MergeEnds
<1>1. /\ t \in Seq(1 .. n) /\ Len(t) = n
      /\ \A a \in 1 .. L : t[a] = m_merged[a]
      /\ \A a \in L + 1 .. n : t[a] = lo + (a - L) - 1 /\ t[a] \in lo .. hi
  <2> DEFINE S == 1 .. n
  <2>0. PICK r : r = [q \in 1 .. hi - lo + 1 |-> lo + q - 1]
    OBVIOUS
  <2>1. /\ m_merged \in Seq(S) /\ lo .. hi \subseteq S /\ lo <= hi + 1
        /\ t = m_merged \o r
    BY <2>0 DEF MergeTyping, MergeEnds
  <2> HIDE DEF S
  <2>2. /\ t \in Seq(S) /\ Len(t) = L + (hi - lo + 1)
        /\ \A a \in 1 .. L : t[a] = m_merged[a]
        /\ \A a \in L + 1 .. Len(t) : t[a] = lo + (a - L) - 1
    <3>1. ASSUME NEW u, u \in Seq(S)
          PROVE  /\ u \o r \in Seq(S) /\ Len(u) \in Nat
                 /\ Len(u \o r) = Len(u) + (hi - lo + 1)
                 /\ \A a \in 1 .. Len(u) : (u \o r)[a] = u[a]
                 /\ \A a \in Len(u) + 1 .. Len(u \o r) :
                       (u \o r)[a] = lo + (a - Len(u)) - 1
      <4> HIDE DEF t, L, n
      <4>1. /\ lo <= hi + 1 /\ lo .. hi \subseteq S
            /\ r = [q \in 1 .. hi - lo + 1 |-> lo + q - 1]
        BY <2>0, <2>1
      <4>2. QED
        BY <3>1, <4>1, MergeRest
    <3>2. QED
      BY <2>1, <3>1
  <2>3. ASSUME NEW a \in L + 1 .. n PROVE t[a] = lo + (a - L) - 1 /\ t[a] \in lo .. hi
    <3>1. a \in Int /\ lo + (a - L) - 1 \in lo .. hi /\ a \in L + 1 .. Len(t)
      BY <1>0, <2>2
    <3>2. QED
      BY <2>2, <3>1
  <2>4. t \in Seq(S) /\ Len(t) = n
    BY <1>0, <2>2
  <2>5. QED
    BY <2>2, <2>3, <2>4 DEF S
<1>2. DOMAIN t = 1 .. n
  BY <1>1
<1> HIDE DEF n, L, t
<1> DEFINE Link(k) == IF k \in 1 .. n THEN t[k] ELSE NULL
<1>3. ASSUME NEW k \in 1 .. n + 1 PROVE m_next'[MergePrev(t, k)] = Link(k)
  <2>1. /\ m_next'[m_tail] = MergeFrom(lo, hi)
        /\ \A y \in DOMAIN m_next : y # m_tail => m_next'[y] = m_next[y]
    BY MergeApart DEF MergeEnds
  <2>2. CASE k \in 1 .. L
    <3>1. MergePrev(t, k) = MergePrev(m_merged, k)
      <4>1. k # 1 => k - 1 \in 1 .. L
        BY <1>0, <2>2
      <4>2. QED
        BY <1>1, <4>1 DEF MergePrev
    <3>2. m_next[MergePrev(m_merged, k)] = m_merged[k]
      BY <2>2 DEF MergeLinks, L, n
    <3>3. QED
      BY <1>0, <1>1, <2>1, <2>2, <3>1, <3>2, MergeApart DEF L, n
  <2>3. CASE k = L + 1
    <3>1. MergePrev(t, k) = m_tail
      <4>1. L + 1 # 1 => L \in 1 .. L /\ (L + 1) - 1 = L
        BY <1>0
      <4>2. QED
        BY <1>0, <1>1, <2>3, <4>1 DEF MergePrev, MergeLinks, L, n
    <3>2. lo <= hi <=> k \in 1 .. n
      BY <1>0, <2>3
    <3>3. lo <= hi => t[k] = lo
      BY <1>0, <1>1, <2>3, <3>2
    <3>4. QED
      BY <2>1, <3>1, <3>2, <3>3 DEF MergeFrom
  <2>4. CASE k > L + 1
    <3>1. k - 1 \in L + 1 .. n /\ k # 1 /\ k - 1 # 0
      BY <1>0, <2>4
    <3>2. PICK x \in Int : x = lo + ((k - 1) - L) - 1
      BY <1>0
    <3>3. MergePrev(t, k) = x /\ x \in lo .. hi /\ x \in 1 .. n
      BY <1>0, <1>1, <3>1, <3>2 DEF MergePrev
    <3>4. x \notin MergeNodes /\ m_next[x] = MergeFrom(x + 1, hi)
      BY <3>3 DEF MergeEnds, L, n
    <3>5. x # m_tail /\ x \in DOMAIN m_next
      BY <3>3, <3>4, MergeApart DEF MergeTyping, L, n
    <3>6. m_next'[x] = MergeFrom(x + 1, hi)
      BY <2>1, <3>4, <3>5
    <3>7. (x + 1 <= hi <=> k \in 1 .. n) /\ (k \in 1 .. n => k \in L + 1 .. n /\ lo + (k - L) - 1 = x + 1)
      BY <1>0, <2>4, <3>2
    <3>8. QED
      BY <1>1, <3>3, <3>6, <3>7 DEF MergeFrom
  <2>5. QED
    BY <1>0, <2>2, <2>3, <2>4
<1>4. ASSUME NEW a \in 1 .. n, NEW b \in 1 .. n, a < b PROVE MergeBefore(t[a], t[b])
  <2>1. CASE b \in 1 .. L
    <3>1. a \in 1 .. L
      BY <1>0, <1>4, <2>1
    <3>2. QED
      BY <1>1, <1>4, <2>1, <3>1 DEF MergeLinks, L, n
  <2>2. CASE b \in L + 1 .. n
    <3>1. t[b] = lo + (b - L) - 1 /\ t[b] \in lo .. hi /\ t[b] \in 1 .. n
      BY <1>0, <1>1, <2>2
    <3>2. lo <= hi /\ lo \in 1 .. n /\ lo <= t[b] /\ t[b] <= hi
      BY <1>0, <3>1
    <3>3. hi <= m_n1 \/ lo > m_n1
      BY DEF MergeEnds, L, n
    <3>4. CASE a \in 1 .. L
      <4>1. MergeBefore(m_merged[a], lo) /\ m_merged[a] \in 1 .. n
        BY <3>2, <3>4, MergeApart DEF MergeEnds, L, n
      <4>2. t[b] = lo \/ MergeBefore(lo, t[b])
        <5>1. m_n1 \in Nat
          BY DEF MergeTyping, L, n
        <5>2. QED
          BY <3>1, <3>2, <3>3, <5>1, MergeSorted DEF n
      <4>3. QED
        BY <1>1, <3>1, <3>2, <3>4, <4>1, <4>2, MergeTransitive DEF n
    <3>5. CASE a \in L + 1 .. n
      <4>1. t[a] = lo + (a - L) - 1 /\ t[a] \in lo .. hi /\ t[a] \in 1 .. n /\ t[a] < t[b]
        BY <1>0, <1>1, <1>4, <3>1, <3>5
      <4>2. m_n1 \in Nat
        BY DEF MergeTyping, L, n
      <4>3. t[b] <= m_n1 \/ t[a] > m_n1
        BY <3>1, <3>3, <4>1, <4>2
      <4>4. QED
        BY <3>1, <4>1, <4>3, MergeSorted DEF n
    <3>6. QED
      BY <1>0, <3>4, <3>5
  <2>3. QED
    BY <1>0, <2>1, <2>2
<1>5. {t[a] : a \in 1 .. n} = 1 .. n
  <2>1. ASSUME NEW x \in 1 .. n PROVE \E a \in 1 .. n : t[a] = x
    <3>1. x \in MergeNodes \/ x \in lo .. hi
      BY DEF MergeEnds, L, n
    <3>2. CASE x \in MergeNodes
      <4>1. PICK a \in 1 .. L : m_merged[a] = x
        BY <3>2 DEF MergeNodes, L, n
      <4>2. QED
        BY <1>0, <1>1, <4>1
    <3>3. CASE x \in lo .. hi
      <4>1. (L + x - lo + 1) \in L + 1 .. n /\ lo + ((L + x - lo + 1) - L) - 1 = x
        BY <1>0, <3>3
      <4>2. L + x - lo + 1 \in 1 .. n /\ t[L + x - lo + 1] = x
        BY <1>0, <1>1, <4>1
      <4>3. QED
        BY <4>2
    <3>4. QED
      BY <3>1, <3>2, <3>3
  <2>2. ASSUME NEW a \in 1 .. n PROVE t[a] \in 1 .. n
    BY <1>0, <1>1, MergeApart DEF L, n
  <2>3. QED
    BY <2>1, <2>2
<1>6. m_next'[-1] = Link(1) /\ \A a \in 1 .. n : m_next'[t[a]] = Link(a + 1)
  <2>1. MergePrev(t, 1) = -1 /\ 1 \in 1 .. n + 1
    BY <1>0 DEF MergePrev
  <2>2. \A a \in 1 .. n : a + 1 \in 1 .. n + 1 /\ MergePrev(t, a + 1) = t[a]
    BY <1>0 DEF MergePrev
  <2>3. QED
    BY <1>3, <2>1, <2>2
<1>7. \A k : Merge!Linked(k)' = Link(k)
  BY <1>2 DEF Merge!Linked, L, n, t
<1>8. Merge!Range(m_merged)' = 1 .. n /\ Merge!Nodes' = 1 .. n /\ Len(m_merged') = n
  BY <1>1, <1>2, <1>5 DEF Merge!Range, Merge!Nodes, L, n, t
<1> HIDE DEF Link
<1>9. QED
  BY <1>2, <1>4, <1>6, <1>7, <1>8 DEF Merge!MergedInOrder, Merge!Dummy, MergeBefore, L, n, t

LEMMA MergeFinish == ASSUME MergeInv, Merge!Finish PROVE MergeInv'
<1>1. /\ MergeTyping /\ MergeLinks /\ m_returned' = TRUE
      /\ UNCHANGED <<m_n1, m_n2, m_value>>
      /\ \E i, j \in Int : MergeLeft(i, j)
  BY DEF MergeInv, Merge!Finish
<1>2. PICK lo \in Int, hi \in Int : MergeEnds(lo, hi)
  BY <1>1, MergeFinishes
<1>3. Merge!MergedInOrder'
  BY <1>1, <1>2, MergeEnded
<1>4. QED
  BY <1>1, <1>3 DEF MergeInv

LEMMA MergeNext == MergeInv /\ [Merge!Next]_(Merge!vars) => MergeInv'
<1> SUFFICES ASSUME MergeInv, [Merge!Next]_(Merge!vars) PROVE MergeInv'
  OBVIOUS
<1>1. CASE UNCHANGED Merge!vars
  <2>1. UNCHANGED <<m_n1, m_n2, m_value, m_next, m_list1, m_list2, m_tail, m_returned, m_merged>>
    BY <1>1 DEF Merge!vars
  <2>2. MergeTyping' = MergeTyping
    BY <2>1 DEF MergeTyping
  <2>3. MergeLinks' = MergeLinks
    BY <2>1 DEF MergeLinks, MergeBefore
  <2>4. ASSUME NEW i, NEW j PROVE MergeLeft(i, j)' = MergeLeft(i, j)
    BY <2>1 DEF MergeLeft, MergeNodes, MergeFrom, MergeBefore
  <2>5. Merge!MergedInOrder' = Merge!MergedInOrder
    BY <2>1 DEF Merge!MergedInOrder, Merge!Linked, Merge!Nodes
  <2>6. QED
    BY <2>1, <2>2, <2>3, <2>4, <2>5 DEF MergeInv
<1>2. QED
  BY <1>1, MergeTakeFirst, MergeTakeSecond, MergeFinish DEF Merge!Next, Merge!Returned

(* The merge of two sorted lists returns the nodes of both, each once, in   *)
(* the order of their values, for lists of every length.                   *)
THEOREM MergeIsRight == Merge!Spec => []Merge!MergedInOrder
<1>1. MergeInv => Merge!MergedInOrder
  BY DEF MergeInv
<1>2. QED
  BY <1>1, MergeInit, MergeNext, PTL DEF Merge!Spec

-----------------------------------------------------------------------------
(* The traversal of a tree level by level (data-structure/binarytree.c) *)

TreeNode == [at : Addr, node : Nat]

TreeLinked(h, s) ==
    \A i \in 1 .. Len(s) : h[s[i].at] = [treeNode |-> s[i].node, next |-> Place(s, i + 1)]

(* The queue's pointers lead from front to rear, through all that is allocated. *)
TreeQueue ==
    /\ b_waiting \in Seq(TreeNode) /\ Distinct(b_waiting)
    /\ DOMAIN b_heap = Ats(b_waiting, 1) /\ TreeLinked(b_heap, b_waiting)
    /\ b_front = Place(b_waiting, 1) /\ b_rear = Place(b_waiting, Len(b_waiting))
    /\ b_heap = [a \in DOMAIN b_heap |-> b_heap[a]]

TreePrinted == {b_printed[i] : i \in 1 .. Len(b_printed)}
TreeWaits == {b_waiting[i].node : i \in 1 .. Len(b_waiting)}

TreeTyping ==
    /\ b_tree \subseteq Nat \ {0} /\ \A x \in b_tree : x = 1 \/ x \div 2 \in b_tree
    /\ b_pc \in {"start", "loop", "left", "right", "done"}
    /\ b_dropped \in BOOLEAN /\ b_current \in Nat
    /\ b_pc \in {"left", "right"} => b_current > 0
    /\ b_pc = "start" => /\ 1 \in b_tree /\ b_current = 0
                         /\ Len(b_waiting) = 0 /\ Len(b_printed) = 0
    /\ b_pc = "done" => Len(b_waiting) = 0

(* No node waits that comes after a child of `current` still to be offered. *)
TreeBound == IF b_pc = "left" THEN 2 * b_current
             ELSE IF b_pc = "right" THEN 2 * b_current + 1
             ELSE 2 * b_current + 2

(* The nodes printed, up to `current`, and then those that wait, ascend.    *)
TreeOrder ==
    /\ b_printed \in Seq(b_tree)
    /\ \A i \in 1 .. Len(b_printed) : b_printed[i] <= b_current
    /\ \A i, j \in 1 .. Len(b_printed) : i < j => b_printed[i] < b_printed[j]
    /\ \A i \in 1 .. Len(b_waiting) : /\ b_waiting[i].node \in b_tree
                                      /\ b_current < b_waiting[i].node
                                      /\ b_waiting[i].node < TreeBound
    /\ \A i, j \in 1 .. Len(b_waiting) : i < j => b_waiting[i].node < b_waiting[j].node

(* The root was offered to the queue, or a child of a printed node was.     *)
TreeOffered(x) ==
    \/ x = 1 /\ b_pc # "start"
    \/ /\ x \div 2 \in TreePrinted
       /\ ~(b_pc = "left" /\ x \div 2 = b_current)
       /\ ~(b_pc = "right" /\ x = 2 * b_current + 1)

(* What was offered waits or is printed, unless malloc failed.              *)
TreeComplete ==
    b_dropped \/ \A x \in b_tree : TreeOffered(x) => x \in TreePrinted \cup TreeWaits

TreeInv == TreeQueue /\ TreeTyping /\ TreeOrder /\ TreeComplete

(* A tree that is not empty has a root. *)
LEMMA TreeRoot ==
    ASSUME b_tree \subseteq Nat \ {0}, \A x \in b_tree : x = 1 \/ x \div 2 \in b_tree,
           b_tree # {}
    PROVE  1 \in b_tree
<1>1. PICK x \in b_tree : \A y \in b_tree : x <= y
  BY LeastOf
<1>2. CASE x = 1
  BY <1>2
<1>3. CASE x # 1
  <2>1. x \div 2 \in b_tree /\ x \in Nat /\ x > 1
    BY <1>3
  <2>2. x \div 2 < x
    BY <2>1
  <2>3. QED
    BY <1>1, <2>1, <2>2
<1>4. QED
  BY <1>2, <1>3

LEMMA TreeInit == Tree!Init => TreeInv
<1> SUFFICES ASSUME Tree!Init PROVE TreeInv
  OBVIOUS
<1>1. b_tree \subseteq Nat \ {0} /\ \A x \in b_tree : x = 1 \/ x \div 2 \in b_tree
  BY HeapAssumption DEF Tree!Init, Tree!ConstantsOK
<1>2. /\ b_waiting = <<>> /\ b_printed = <<>> /\ Len(b_waiting) = 0 /\ Len(b_printed) = 0
      /\ b_current = 0 /\ b_dropped = FALSE /\ b_heap = << >>
      /\ b_front = NULL /\ b_rear = NULL
      /\ b_pc = IF 1 \in b_tree THEN "start" ELSE "done"
  BY DEF Tree!Init
<1>3. TreeQueue
  BY <1>2 DEF TreeQueue, Distinct, Ats, TreeLinked, Place
<1>4. TreeTyping
  BY <1>1, <1>2 DEF TreeTyping
<1>5. TreeOrder
  BY <1>2 DEF TreeOrder
<1>6. TreeComplete
  <2>1. TreePrinted = {}
    BY <1>2 DEF TreePrinted
  <2>2. CASE b_pc = "start"
    BY <2>1, <2>2 DEF TreeComplete, TreeOffered
  <2>3. CASE b_pc # "start"
    BY <1>1, <1>2, <2>3, TreeRoot DEF TreeComplete
  <2>4. QED
    BY <2>2, <2>3
<1>7. QED
  BY <1>3, <1>4, <1>5, <1>6 DEF TreeInv

LEMMA TreePlaces ==
    ASSUME TreeQueue
    PROVE  /\ Len(b_waiting) \in Nat
           /\ \A i \in 1 .. Len(b_waiting) :
                 /\ Place(b_waiting, i) = b_waiting[i].at
                 /\ b_waiting[i] \in TreeNode /\ b_waiting[i].node \in Nat
                 /\ b_waiting[i].at \in Addr /\ b_waiting[i].at # NULL
                 /\ b_waiting[i].at \in DOMAIN b_heap
           /\ \A i : i \notin 1 .. Len(b_waiting) => Place(b_waiting, i) = NULL
           /\ \A i : Place(b_waiting, i) # NULL => i \in 1 .. Len(b_waiting)
<1>1. b_waiting \in Seq(TreeNode) /\ \A x \in TreeNode : x.at \in Addr /\ x.node \in Nat
  BY DEF TreeQueue, TreeNode
<1>2. \A i \in 1 .. Len(b_waiting) : b_waiting[i].at \in DOMAIN b_heap
  BY DEF TreeQueue, Ats
<1>3. QED
  BY <1>1, <1>2, Places

(* The queue after the node n was offered to it. *)
TreeGrows(n) ==
    \/ /\ n \in b_tree /\ Len(b_waiting') = Len(b_waiting) + 1
       /\ b_waiting'[Len(b_waiting) + 1].node = n
       /\ \A i \in 1 .. Len(b_waiting) : b_waiting'[i] = b_waiting[i]
       /\ b_dropped' = b_dropped
    \/ /\ b_waiting' = b_waiting
       /\ n \in b_tree => b_dropped' = TRUE
       /\ n \notin b_tree => b_dropped' = b_dropped

LEMMA TreeEnqueue ==
    ASSUME TreeQueue, NEW n \in Nat, Tree!enqueue(n)
    PROVE  /\ TreeQueue' /\ Len(b_waiting') = Len(b_waiting) + 1
           /\ b_waiting'[Len(b_waiting) + 1].node = n
           /\ \A i \in 1 .. Len(b_waiting) : b_waiting'[i] = b_waiting[i]
           /\ b_dropped' = b_dropped
<1> DEFINE L == Len(b_waiting)
<1>1. PICK a \in Addr \ DOMAIN b_heap :
          LET h == Tree!Allocated(a, [treeNode |-> n, next |-> NULL])
          IN  /\ b_heap' = IF b_rear = NULL THEN h ELSE [h EXCEPT ![b_rear].next = a]
              /\ b_front' = IF b_rear = NULL THEN a ELSE b_front
              /\ b_rear' = a
              /\ b_waiting' = Append(b_waiting, [at |-> a, node |-> n])
              /\ b_dropped' = b_dropped
  BY DEF Tree!enqueue
<1> DEFINE x == [at |-> a, node |-> n]
           h == Tree!Allocated(a, [treeNode |-> n, next |-> NULL])
<1>2. x \in TreeNode /\ x.at = a /\ x.node = n
  BY DEF TreeNode
<1>3. /\ DOMAIN h = DOMAIN b_heap \cup {a} /\ h[a] = [treeNode |-> n, next |-> NULL]
      /\ \A b \in DOMAIN b_heap : h[b] = b_heap[b]
  BY DEF Tree!Allocated
<1>4. b_heap' = IF b_rear = NULL THEN h ELSE [h EXCEPT ![b_rear].next = a]
  BY <1>1
<1>5. b_heap' = [b \in DOMAIN b_heap' |-> b_heap'[b]]
  <2>1. h = [b \in DOMAIN h |-> h[b]]
    BY DEF Tree!Allocated
  <2> HIDE DEF h
  <2>2. QED
    BY <1>4, <2>1
<1>6. b_waiting' = Append(b_waiting, x) /\ b_rear' = a /\ b_dropped' = b_dropped
      /\ b_front' = IF b_rear = NULL THEN a ELSE b_front
  BY <1>1
<1> HIDE DEF x, h
<1>7. a \notin Ats(b_waiting, 1) /\ b_waiting \in Seq(TreeNode) /\ Distinct(b_waiting)
      /\ DOMAIN b_heap = Ats(b_waiting, 1) /\ TreeLinked(b_heap, b_waiting)
      /\ b_front = Place(b_waiting, 1) /\ b_rear = Place(b_waiting, L)
  BY DEF TreeQueue
<1>8. b_waiting' \in Seq(TreeNode) /\ IsAppended(b_waiting', b_waiting, x)
  BY <1>2, <1>6, <1>7, AppendedNodes
<1>9. /\ L \in Nat /\ Len(b_waiting') = L + 1 /\ b_waiting'[L + 1] = x
      /\ \A i \in 1 .. L : b_waiting'[i] = b_waiting[i]
  BY <1>8 DEF IsAppended
<1>10. b_rear = NULL <=> L = 0
  <2>1. L # 0 => L \in 1 .. L
    BY <1>9
  <2>2. L = 0 => L \notin 1 .. L
    OBVIOUS
  <2>3. QED
    BY <1>7, <2>1, <2>2, TreePlaces
<1>11. /\ DOMAIN b_heap' = DOMAIN b_heap \cup {a}
       /\ b_heap'[a] = [treeNode |-> n, next |-> NULL]
       /\ \A b \in DOMAIN b_heap : b # b_rear => b_heap'[b] = b_heap[b]
  <2>1. CASE b_rear = NULL
    BY <1>3, <1>4, <2>1
  <2>2. CASE b_rear # NULL
    <3>1. b_rear \in DOMAIN b_heap
      BY <1>7, <2>2, TreePlaces
    <3>2. b_rear # a
      BY <3>1, <1>7
    <3>3. QED
      BY <1>3, <1>4, <2>2, <3>1, <3>2
  <2>3. QED
    BY <2>1, <2>2
<1>12. TreeLinked(b_heap', b_waiting')
  <2> SUFFICES ASSUME NEW i \in 1 .. L + 1
               PROVE  b_heap'[b_waiting'[i].at]
                        = [treeNode |-> b_waiting'[i].node, next |-> Place(b_waiting', i + 1)]
    BY <1>9 DEF TreeLinked
  <2>1. CASE i = L + 1
    <3>1. Place(b_waiting', L + 2) = NULL /\ i + 1 = L + 2
      BY <1>8, <1>9, <2>1 DEF IsAppended
    <3>2. QED
      BY <1>2, <1>9, <1>11, <2>1, <3>1
  <2>2. CASE i = L /\ L # 0
    <3>1. i \in 1 .. L /\ i + 1 = L + 1
      BY <1>9, <2>2
    <3>2. /\ b_rear = b_waiting[i].at /\ b_rear \in DOMAIN b_heap /\ b_rear # NULL
          /\ b_heap[b_rear] = [treeNode |-> b_waiting[i].node, next |-> Place(b_waiting, i + 1)]
      BY <1>7, <2>2, <3>1, TreePlaces DEF TreeLinked
    <3>3. h[b_rear] = b_heap[b_rear] /\ b_rear \in DOMAIN h
      BY <1>3, <3>2
    <3>4. b_heap'[b_rear] = [treeNode |-> b_waiting[i].node, next |-> a]
      BY <1>4, <3>2, <3>3
    <3>5. Place(b_waiting', i + 1) = a
      BY <1>2, <1>8, <3>1 DEF IsAppended
    <3>6. QED
      BY <1>9, <3>1, <3>2, <3>4, <3>5
  <2>3. CASE i \in 1 .. L /\ i # L
    <3>1. i + 1 \in 0 .. L /\ i \in 1 .. L
      BY <1>9, <2>3
    <3>2. Place(b_waiting', i + 1) = Place(b_waiting, i + 1) /\ b_waiting'[i] = b_waiting[i]
      BY <1>8, <1>9, <3>1 DEF IsAppended
    <3>3. b_waiting[i].at # b_rear
      <4>1. L \in 1 .. L
        BY <1>9, <3>1
      <4>2. b_rear = b_waiting[L].at
        BY <1>7, <4>1, TreePlaces
      <4>3. QED
        BY <1>7, <2>3, <4>1, <4>2 DEF Distinct
    <3>4. /\ b_waiting[i].at \in DOMAIN b_heap
          /\ b_heap[b_waiting[i].at]
                = [treeNode |-> b_waiting[i].node, next |-> Place(b_waiting, i + 1)]
      BY <1>7, <3>1, TreePlaces DEF TreeLinked
    <3>5. QED
      BY <1>11, <3>2, <3>3, <3>4
  <2>4. QED
    BY <1>9, <2>1, <2>2, <2>3
<1>13. b_front' = Place(b_waiting', 1) /\ b_rear' = Place(b_waiting', Len(b_waiting'))
  <2>1. Place(b_waiting', L + 1) = a
    BY <1>2, <1>8 DEF IsAppended
  <2>2. L # 0 => Place(b_waiting', 1) = Place(b_waiting, 1)
    <3>1. L # 0 => 1 \in 0 .. L
      BY <1>9
    <3>2. QED
      BY <1>8, <3>1 DEF IsAppended
  <2>3. CASE L = 0
    BY <1>6, <1>9, <1>10, <2>1, <2>3
  <2>4. CASE L # 0
    BY <1>6, <1>7, <1>9, <1>10, <2>1, <2>2, <2>4
  <2>5. QED
    BY <2>3, <2>4
<1>14. DOMAIN b_heap' = Ats(b_waiting', 1) /\ Distinct(b_waiting')
  BY <1>2, <1>7, <1>8, <1>11 DEF IsAppended
<1>15. TreeQueue'
  BY <1>5, <1>8, <1>12, <1>13, <1>14 DEF TreeQueue
<1>16. QED
  BY <1>2, <1>6, <1>9, <1>15

LEMMA TreeOffer ==
    ASSUME TreeQueue, NEW n \in Nat, Tree!Offer(n)
    PROVE  TreeQueue' /\ TreeGrows(n)
<1>1. CASE n \in b_tree /\ Tree!enqueue(n)
  BY <1>1, TreeEnqueue DEF TreeGrows
<1>2. CASE n \in b_tree /\ Tree!EnqueueFails
  BY <1>2 DEF TreeGrows, Tree!EnqueueFails, Tree!queue, TreeQueue
<1>3. CASE n \notin b_tree
  BY <1>3 DEF Tree!Offer, TreeGrows, Tree!queue, TreeQueue
<1>4. QED
  BY <1>1, <1>2, <1>3 DEF Tree!Offer

(* What an offer of n adds to the nodes that wait, all of them before n.    *)
LEMMA TreeMore ==
    ASSUME TreeQueue, TreeTyping, TreeOrder, NEW n \in Nat, TreeGrows(n), b_current < n,
           \A i \in 1 .. Len(b_waiting) : b_waiting[i].node < n
    PROVE  /\ \A i \in 1 .. Len(b_waiting') : /\ b_waiting'[i].node \in b_tree
                                              /\ b_current < b_waiting'[i].node
                                              /\ b_waiting'[i].node < n + 1
           /\ \A i, j \in 1 .. Len(b_waiting') :
                 i < j => b_waiting'[i].node < b_waiting'[j].node
           /\ TreeWaits \subseteq TreeWaits'
           /\ n \in b_tree => b_dropped' = TRUE \/ n \in TreeWaits'
           /\ b_dropped = TRUE => b_dropped' = TRUE
           /\ b_dropped' \in BOOLEAN
<1> DEFINE L == Len(b_waiting)
<1>1. L \in Nat /\ \A i \in 1 .. L : b_waiting[i].node \in Nat
  BY TreePlaces
<1>2. CASE b_waiting' = b_waiting /\ (n \in b_tree => b_dropped' = TRUE)
                                  /\ (n \notin b_tree => b_dropped' = b_dropped)
  <2>1. TreeWaits' = TreeWaits
    BY <1>2 DEF TreeWaits
  <2>2. \A i \in 1 .. L : b_waiting[i].node < n + 1
    BY <1>1
  <2>3. QED
    BY <1>2, <2>1, <2>2 DEF TreeTyping, TreeOrder
<1>3. CASE /\ n \in b_tree /\ Len(b_waiting') = L + 1 /\ b_waiting'[L + 1].node = n
           /\ \A i \in 1 .. L : b_waiting'[i] = b_waiting[i]
           /\ b_dropped' = b_dropped
  <2>1. \A i \in 1 .. L + 1 : i = L + 1 \/ i \in 1 .. L
    BY <1>1
  <2>2. \A i \in 1 .. L : i \in 1 .. L + 1
    BY <1>1
  <2>3. TreeWaits \subseteq TreeWaits'
    BY <1>3, <2>2 DEF TreeWaits
  <2>4. n \in TreeWaits'
    <3>1. L + 1 \in 1 .. Len(b_waiting') /\ b_waiting'[L + 1].node = n
      BY <1>1, <1>3
    <3>2. QED
      BY <3>1 DEF TreeWaits
  <2>5. ASSUME NEW i \in 1 .. L + 1
        PROVE  /\ b_waiting'[i].node \in b_tree
               /\ b_current < b_waiting'[i].node /\ b_waiting'[i].node < n + 1
    BY <1>1, <1>3, <2>1 DEF TreeOrder
  <2>6. ASSUME NEW i \in 1 .. L + 1, NEW j \in 1 .. L + 1, i < j
        PROVE  b_waiting'[i].node < b_waiting'[j].node
    <3>1. i \in 1 .. L
      BY <1>1, <2>6
    <3>2. QED
      BY <1>1, <1>3, <2>1, <2>6, <3>1 DEF TreeOrder
  <2>7. QED
    BY <1>3, <2>3, <2>4, <2>5, <2>6 DEF TreeTyping
<1>4. QED
  BY <1>2, <1>3 DEF TreeGrows

LEMMA TreeStart == ASSUME TreeInv, Tree!Start PROVE TreeInv'
<1>1. /\ TreeQueue /\ TreeTyping /\ TreeOrder /\ b_pc = "start"
      /\ Tree!Offer(1) /\ b_pc' = "loop" /\ b_current' = 0
      /\ b_tree' = b_tree /\ b_printed' = b_printed
  BY DEF TreeInv, Tree!Start, Tree!Goto
<1>2. /\ b_current = 0 /\ Len(b_waiting) = 0 /\ Len(b_printed) = 0 /\ 1 \in b_tree
      /\ TreePrinted = {}
  BY <1>1 DEF TreeTyping, TreePrinted
<1>3. TreeQueue' /\ TreeGrows(1)
  BY <1>1, TreeOffer
<1>4. /\ \A i \in 1 .. Len(b_waiting') : /\ b_waiting'[i].node \in b_tree
                                         /\ b_current < b_waiting'[i].node
                                         /\ b_waiting'[i].node < 1 + 1
      /\ \A i, j \in 1 .. Len(b_waiting') : i < j => b_waiting'[i].node < b_waiting'[j].node
      /\ b_dropped' = TRUE \/ 1 \in TreeWaits'
      /\ b_dropped' \in BOOLEAN
  <2>1. 1 \in Nat /\ b_current < 1 /\ \A i \in 1 .. Len(b_waiting) : b_waiting[i].node < 1
    BY <1>2
  <2>2. QED
    BY <1>1, <1>2, <1>3, <2>1, TreeMore
<1>5. TreeTyping'
  BY <1>1, <1>2, <1>4 DEF TreeTyping
<1>6. TreeOrder'
  BY <1>1, <1>2, <1>4 DEF TreeOrder, TreeBound
<1>7. TreeComplete'
  <2>1. TreePrinted' = {}
    BY <1>1, <1>2 DEF TreePrinted
  <2>2. QED
    BY <1>1, <1>4, <2>1 DEF TreeComplete, TreeOffered
<1>8. QED
  BY <1>3, <1>5, <1>6, <1>7 DEF TreeInv

LEMMA TreeLeft == ASSUME TreeInv, Tree!Left PROVE TreeInv'
<1> DEFINE n == 2 * b_current
<1>1. /\ TreeQueue /\ TreeTyping /\ TreeOrder /\ TreeComplete /\ b_pc = "left"
      /\ Tree!Offer(n) /\ b_pc' = "right" /\ b_current' = b_current
      /\ b_tree' = b_tree /\ b_printed' = b_printed
  BY DEF TreeInv, Tree!Left, Tree!Goto
<1>2. b_current \in Nat /\ b_current > 0 /\ n \in Nat /\ b_current < n /\ n + 1 = 2 * b_current + 1
  BY <1>1 DEF TreeTyping
<1>3. TreeQueue' /\ TreeGrows(n)
  BY <1>1, <1>2, TreeOffer
<1>4. /\ \A i \in 1 .. Len(b_waiting') : /\ b_waiting'[i].node \in b_tree
                                         /\ b_current < b_waiting'[i].node
                                         /\ b_waiting'[i].node < n + 1
      /\ \A i, j \in 1 .. Len(b_waiting') : i < j => b_waiting'[i].node < b_waiting'[j].node
      /\ TreeWaits \subseteq TreeWaits'
      /\ n \in b_tree => b_dropped' = TRUE \/ n \in TreeWaits'
      /\ b_dropped = TRUE => b_dropped' = TRUE
      /\ b_dropped' \in BOOLEAN
  <2>1. \A i \in 1 .. Len(b_waiting) : b_waiting[i].node < n
    BY <1>1 DEF TreeOrder, TreeBound
  <2> HIDE DEF n
  <2>2. QED
    BY <1>1, <1>2, <1>3, <2>1, TreeMore
<1>5. TreeTyping'
  BY <1>1, <1>2, <1>4 DEF TreeTyping
<1>6. TreeOrder'
  BY <1>1, <1>2, <1>4 DEF TreeOrder, TreeBound
<1>7. TreeComplete'
  <2> SUFFICES ASSUME b_dropped' # TRUE, NEW x \in b_tree, TreeOffered(x)'
               PROVE  x \in TreePrinted' \cup TreeWaits'
    BY <1>1, <1>4 DEF TreeComplete
  <2>1. TreePrinted' = TreePrinted /\ b_dropped = FALSE
    BY <1>1, <1>4 DEF TreePrinted, TreeTyping
  <2>2. CASE x = n
    BY <1>4, <2>2
  <2>3. CASE x # n
    <3>1. x = 1 \/ (x \div 2 \in TreePrinted /\ x # 2 * b_current + 1)
      BY <1>1, <2>1 DEF TreeOffered
    <3>2. x \in Nat /\ (x \div 2 = b_current => x = 2 * b_current \/ x = 2 * b_current + 1)
      BY <1>1, <1>2 DEF TreeTyping
    <3>3. TreeOffered(x)
      BY <1>1, <2>3, <3>1, <3>2 DEF TreeOffered
    <3>4. QED
      BY <1>1, <1>4, <2>1, <3>3 DEF TreeComplete
  <2>4. QED
    BY <2>2, <2>3
<1>8. QED
  BY <1>3, <1>5, <1>6, <1>7 DEF TreeInv

LEMMA TreeRight == ASSUME TreeInv, Tree!Right PROVE TreeInv'
<1> DEFINE n == 2 * b_current + 1
<1>1. /\ TreeQueue /\ TreeTyping /\ TreeOrder /\ TreeComplete /\ b_pc = "right"
      /\ Tree!Offer(n) /\ b_pc' = "loop" /\ b_current' = b_current
      /\ b_tree' = b_tree /\ b_printed' = b_printed
  BY DEF TreeInv, Tree!Right, Tree!Goto
<1>2. b_current \in Nat /\ b_current > 0 /\ n \in Nat /\ b_current < n /\ n + 1 = 2 * b_current + 2
  BY <1>1 DEF TreeTyping
<1>3. TreeQueue' /\ TreeGrows(n)
  BY <1>1, <1>2, TreeOffer
<1>4. /\ \A i \in 1 .. Len(b_waiting') : /\ b_waiting'[i].node \in b_tree
                                         /\ b_current < b_waiting'[i].node
                                         /\ b_waiting'[i].node < n + 1
      /\ \A i, j \in 1 .. Len(b_waiting') : i < j => b_waiting'[i].node < b_waiting'[j].node
      /\ TreeWaits \subseteq TreeWaits'
      /\ n \in b_tree => b_dropped' = TRUE \/ n \in TreeWaits'
      /\ b_dropped = TRUE => b_dropped' = TRUE
      /\ b_dropped' \in BOOLEAN
  <2>1. \A i \in 1 .. Len(b_waiting) : b_waiting[i].node < n
    BY <1>1 DEF TreeOrder, TreeBound
  <2> HIDE DEF n
  <2>2. QED
    BY <1>1, <1>2, <1>3, <2>1, TreeMore
<1>5. TreeTyping'
  BY <1>1, <1>2, <1>4 DEF TreeTyping
<1>6. TreeOrder'
  BY <1>1, <1>2, <1>4 DEF TreeOrder, TreeBound
<1>7. TreeComplete'
  <2> SUFFICES ASSUME b_dropped' # TRUE, NEW x \in b_tree, TreeOffered(x)'
               PROVE  x \in TreePrinted' \cup TreeWaits'
    BY <1>1, <1>4 DEF TreeComplete
  <2>1. TreePrinted' = TreePrinted /\ b_dropped = FALSE
    BY <1>1, <1>4 DEF TreePrinted, TreeTyping
  <2>2. CASE x = n
    BY <1>4, <2>2
  <2>3. CASE x # n
    <3>1. TreeOffered(x)
      BY <1>1, <2>1, <2>3 DEF TreeOffered
    <3>2. QED
      BY <1>1, <1>4, <2>1, <3>1 DEF TreeComplete
  <2>4. QED
    BY <2>2, <2>3
<1>8. QED
  BY <1>3, <1>5, <1>6, <1>7 DEF TreeInv

(* The head of the queue is freed; the others move up. *)
LEMMA TreeDequeued ==
    ASSUME TreeQueue, Tree!Dequeue
    PROVE  /\ TreeQueue' /\ Len(b_waiting) \in Nat \ {0}
           /\ Len(b_waiting') = Len(b_waiting) - 1
           /\ \A i \in 1 .. Len(b_waiting') : /\ i + 1 \in 1 .. Len(b_waiting)
                                              /\ b_waiting'[i] = b_waiting[i + 1]
           /\ b_printed' = Append(b_printed, b_waiting[1].node)
           /\ b_current' = b_waiting[1].node
<1> DEFINE L == Len(b_waiting)
<1>1. /\ b_front # NULL /\ b_front' = b_heap[b_front].next
      /\ b_rear' = IF b_heap[b_front].next = NULL THEN NULL ELSE b_rear
      /\ b_heap' = [a \in DOMAIN b_heap \ {b_front} |-> b_heap[a]]
      /\ b_waiting' = Tail(b_waiting)
      /\ b_printed' = Append(b_printed, b_heap[b_front].treeNode)
      /\ b_current' = b_heap[b_front].treeNode
  BY DEF Tree!Dequeue, Tree!isQueueEmpty, Tree!RearAfter, Tree!Goto, Tree!Restrict
<1>2. /\ b_waiting \in Seq(TreeNode) /\ Distinct(b_waiting)
      /\ DOMAIN b_heap = Ats(b_waiting, 1) /\ TreeLinked(b_heap, b_waiting)
      /\ b_front = Place(b_waiting, 1) /\ b_rear = Place(b_waiting, L)
  BY DEF TreeQueue
<1>3. 1 \in 1 .. L /\ L \in Nat /\ L # 0
  <2>1. 1 \in 1 .. L /\ L \in Nat
    BY <1>1, <1>2, TreePlaces
  <2>2. QED
    BY <2>1
<1>4. /\ b_front = b_waiting[1].at /\ b_heap[b_front].treeNode = b_waiting[1].node
      /\ b_heap[b_front].next = Place(b_waiting, 2)
  <2>1. b_front = b_waiting[1].at
    BY <1>2, <1>3, TreePlaces
  <2>2. b_heap[b_front] = [treeNode |-> b_waiting[1].node, next |-> Place(b_waiting, 1 + 1)]
    BY <1>2, <1>3, <2>1 DEF TreeLinked
  <2>3. QED
    BY <2>1, <2>2
<1>5. b_waiting' \in Seq(TreeNode) /\ IsBeheaded(b_waiting', b_waiting)
  BY <1>1, <1>2, <1>3, BeheadedNodes
<1>6. /\ Len(b_waiting') = L - 1
      /\ \A i \in 1 .. Len(b_waiting') : i + 1 \in 1 .. L /\ b_waiting'[i] = b_waiting[i + 1]
      /\ \A i \in 1 .. L : Place(b_waiting', i) = Place(b_waiting, i + 1)
  BY <1>5 DEF IsBeheaded
<1>7. TreeLinked(b_heap', b_waiting')
  <2> SUFFICES ASSUME NEW i \in 1 .. Len(b_waiting')
               PROVE  b_heap'[b_waiting'[i].at]
                        = [treeNode |-> b_waiting'[i].node, next |-> Place(b_waiting', i + 1)]
    BY DEF TreeLinked
  <2>1. i + 1 \in 1 .. L /\ b_waiting'[i] = b_waiting[i + 1] /\ i + 1 # 1
    BY <1>6
  <2>2. Place(b_waiting', i + 1) = Place(b_waiting, (i + 1) + 1)
    BY <1>6, <2>1
  <2>3. /\ b_waiting[i + 1].at \in DOMAIN b_heap /\ b_waiting[i + 1].at # b_front
        /\ b_heap[b_waiting[i + 1].at]
              = [treeNode |-> b_waiting[i + 1].node, next |-> Place(b_waiting, (i + 1) + 1)]
    BY <1>2, <1>3, <1>4, <2>1, TreePlaces DEF TreeLinked, Distinct
  <2>4. QED
    BY <1>1, <2>1, <2>2, <2>3
<1>8. b_front' = Place(b_waiting', 1) /\ b_rear' = Place(b_waiting', Len(b_waiting'))
  <2>1. Place(b_waiting', 1) = Place(b_waiting, 2)
    <3>1. Place(b_waiting', 1) = Place(b_waiting, 1 + 1)
      BY <1>3, <1>6
    <3>2. QED
      BY <3>1
  <2>2. CASE L = 1
    <3>1. 2 \notin 1 .. L
      BY <2>2
    <3>2. Place(b_waiting, 2) = NULL
      BY <3>1, TreePlaces
    <3>3. Place(b_waiting', Len(b_waiting')) = NULL
      BY <1>6, <2>2 DEF Place
    <3>4. QED
      BY <1>1, <1>4, <2>1, <3>2, <3>3
  <2>3. CASE L # 1
    <3>1. 2 \in 1 .. L /\ L - 1 \in 1 .. L /\ (L - 1) + 1 = L
      BY <1>3, <2>3
    <3>2. Place(b_waiting, 2) # NULL
      BY <3>1, TreePlaces
    <3>3. Place(b_waiting', L - 1) = Place(b_waiting, (L - 1) + 1)
      BY <1>6, <3>1
    <3>4. QED
      BY <1>1, <1>2, <1>4, <1>6, <2>1, <3>1, <3>2, <3>3
  <2>4. QED
    BY <2>2, <2>3
<1>9. DOMAIN b_heap' = Ats(b_waiting', 1) /\ Distinct(b_waiting')
  BY <1>1, <1>2, <1>4, <1>5 DEF IsBeheaded
<1>10. b_heap' = [a \in DOMAIN b_heap' |-> b_heap'[a]]
  BY <1>1
<1>11. TreeQueue'
  BY <1>5, <1>7, <1>8, <1>9, <1>10 DEF TreeQueue
<1>12. QED
  BY <1>1, <1>3, <1>4, <1>6, <1>11

LEMMA TreeDequeue == ASSUME TreeInv, Tree!Dequeue PROVE TreeInv'
<1> DEFINE L == Len(b_waiting)
           m == Len(b_printed)
<1>1. /\ TreeQueue /\ TreeTyping /\ TreeOrder /\ TreeComplete /\ b_pc = "loop" /\ b_pc' = "left"
      /\ b_tree' = b_tree /\ b_dropped' = b_dropped
  BY DEF TreeInv, Tree!Dequeue, Tree!Goto
<1>2. PICK c \in Nat : c = b_waiting[1].node
  <2>1. 1 \in 1 .. L
    BY <1>1, TreeDequeued
  <2>2. QED
    BY <1>1, <2>1, TreePlaces
<1>3. /\ TreeQueue' /\ L \in Nat \ {0} /\ Len(b_waiting') = L - 1 /\ 1 \in 1 .. L
      /\ \A i \in 1 .. Len(b_waiting') : i + 1 \in 1 .. L /\ b_waiting'[i] = b_waiting[i + 1]
      /\ b_printed' = Append(b_printed, c) /\ b_current' = c
  BY <1>1, <1>2, TreeDequeued
<1>4. c \in b_tree /\ b_current < c /\ c < 2 * b_current + 2 /\ b_current \in Nat /\ c > 0
  <2>1. c \in b_tree /\ b_current < c /\ c < TreeBound /\ b_current \in Nat
    BY <1>1, <1>2, <1>3 DEF TreeOrder, TreeTyping
  <2>2. QED
    BY <1>1, <2>1 DEF TreeBound
<1>5. /\ m \in Nat /\ b_printed' \in Seq(b_tree) /\ Len(b_printed') = m + 1
      /\ b_printed'[m + 1] = c /\ \A i \in 1 .. m : b_printed'[i] = b_printed[i]
      /\ \A i \in 1 .. m : b_printed[i] \in Nat /\ b_printed[i] <= b_current
  <2>1. b_printed \in Seq(b_tree) /\ \A i \in 1 .. m : b_printed[i] <= b_current
    BY <1>1 DEF TreeOrder
  <2>2. b_tree \subseteq Nat
    BY <1>1 DEF TreeTyping
  <2>3. \A i \in 1 .. m : b_printed[i] \in b_tree
    BY <2>1, ElementOfSeq
  <2>4. /\ m \in Nat /\ b_printed' \in Seq(b_tree) /\ Len(b_printed') = m + 1
        /\ b_printed'[m + 1] = c /\ \A i \in 1 .. m : b_printed'[i] = b_printed[i]
    BY <1>3, <1>4, <2>1, Appended, LenProperties
  <2>5. QED
    BY <2>1, <2>2, <2>3, <2>4
<1>6. /\ \A i \in 1 .. m + 1 : i = m + 1 \/ i \in 1 .. m
      /\ m + 1 \in 1 .. m + 1 /\ \A i \in 1 .. m : i \in 1 .. m + 1
  BY <1>5
<1>7. TreePrinted' = TreePrinted \cup {c}
  BY <1>5, <1>6 DEF TreePrinted
<1>8. TreeTyping'
  BY <1>1, <1>2, <1>3, <1>4 DEF TreeTyping
<1>9. TreeOrder'
  <2>1. ASSUME NEW i \in 1 .. m + 1 PROVE b_printed'[i] <= c
    BY <1>4, <1>5, <1>6
  <2>2. ASSUME NEW i \in 1 .. m + 1, NEW j \in 1 .. m + 1, i < j
        PROVE  b_printed'[i] < b_printed'[j]
    <3>1. i \in 1 .. m
      BY <1>5, <2>2
    <3>2. CASE j = m + 1
      BY <1>4, <1>5, <3>1, <3>2
    <3>3. CASE j \in 1 .. m
      BY <1>1, <1>5, <2>2, <3>1, <3>3 DEF TreeOrder
    <3>4. QED
      BY <1>6, <3>2, <3>3
  <2>3. ASSUME NEW i \in 1 .. Len(b_waiting')
        PROVE  /\ b_waiting'[i].node \in b_tree /\ c < b_waiting'[i].node
               /\ b_waiting'[i].node < 2 * c
    <3>1. i + 1 \in 1 .. L /\ b_waiting'[i] = b_waiting[i + 1] /\ 1 < i + 1
      BY <1>3
    <3>2. /\ b_waiting[i + 1].node \in b_tree /\ b_waiting[i + 1].node < 2 * b_current + 2
          /\ c < b_waiting[i + 1].node
      <4>1. b_waiting[i + 1].node \in b_tree /\ b_waiting[i + 1].node < TreeBound
        BY <1>1, <3>1 DEF TreeOrder
      <4>2. c < b_waiting[i + 1].node
        BY <1>1, <1>2, <1>3, <3>1 DEF TreeOrder
      <4>3. QED
        BY <1>1, <4>1, <4>2 DEF TreeBound
    <3>3. b_waiting[i + 1].node \in Nat
      BY <1>1, <3>1, TreePlaces
    <3>4. QED
      BY <1>2, <1>4, <3>1, <3>2, <3>3
  <2>4. ASSUME NEW i \in 1 .. Len(b_waiting'), NEW j \in 1 .. Len(b_waiting'), i < j
        PROVE  b_waiting'[i].node < b_waiting'[j].node
    <3>1. i + 1 \in 1 .. L /\ j + 1 \in 1 .. L /\ i + 1 < j + 1
      BY <1>3, <2>4
    <3>2. QED
      BY <1>1, <1>3, <3>1 DEF TreeOrder
  <2>5. TreeBound' = 2 * c
    BY <1>1, <1>3 DEF TreeBound
  <2>6. QED
    BY <1>1, <1>3, <1>5, <2>1, <2>2, <2>3, <2>4, <2>5 DEF TreeOrder
<1>10. TreeComplete'
  <2> SUFFICES ASSUME b_dropped # TRUE, NEW x \in b_tree, TreeOffered(x)'
               PROVE  x \in TreePrinted' \cup TreeWaits'
    BY <1>1 DEF TreeComplete, TreeTyping
  <2>1. TreeOffered(x)
    BY <1>1, <1>3, <1>7 DEF TreeOffered
  <2>2. x \in TreePrinted \cup TreeWaits
    BY <1>1, <2>1 DEF TreeComplete, TreeTyping
  <2>3. CASE x \in TreeWaits
    <3>1. PICK i \in 1 .. L : x = b_waiting[i].node
      BY <2>3 DEF TreeWaits
    <3>2. CASE i = 1
      BY <1>2, <1>7, <3>1, <3>2
    <3>3. CASE i # 1
      <4>1. i - 1 \in 1 .. Len(b_waiting') /\ (i - 1) + 1 = i
        BY <1>3, <3>3
      <4>2. b_waiting'[i - 1] = b_waiting[i]
        BY <1>3, <4>1
      <4>3. QED
        BY <3>1, <4>1, <4>2 DEF TreeWaits
    <3>4. QED
      BY <3>2, <3>3
  <2>4. QED
    BY <1>7, <2>2, <2>3
<1>11. QED
  BY <1>3, <1>8, <1>9, <1>10 DEF TreeInv

LEMMA TreeEnd == ASSUME TreeInv, Tree!End PROVE TreeInv'
<1>1. /\ TreeQueue /\ TreeTyping /\ TreeOrder /\ TreeComplete /\ b_pc = "loop" /\ b_pc' = "done"
      /\ b_front = NULL
      /\ UNCHANGED <<b_tree, b_heap, b_front, b_rear, b_waiting, b_current, b_printed, b_dropped>>
  BY DEF TreeInv, Tree!End, Tree!Goto, Tree!queue, Tree!isQueueEmpty
<1>2. Len(b_waiting) = 0
  <2>1. Len(b_waiting) \in Nat /\ 1 \notin 1 .. Len(b_waiting)
    BY <1>1, TreePlaces DEF TreeQueue
  <2>2. QED
    BY <2>1
<1>3. TreeQueue'
  BY <1>1 DEF TreeQueue
<1>4. TreeTyping'
  BY <1>1, <1>2 DEF TreeTyping
<1>5. TreeOrder'
  BY <1>1, <1>2 DEF TreeOrder
<1>6. TreeComplete'
  BY <1>1 DEF TreeComplete, TreeOffered, TreePrinted, TreeWaits
<1>7. QED
  BY <1>3, <1>4, <1>5, <1>6 DEF TreeInv

LEMMA TreeNext == TreeInv /\ [Tree!Next]_(Tree!vars) => TreeInv'
<1> SUFFICES ASSUME TreeInv, [Tree!Next]_(Tree!vars) PROVE TreeInv'
  OBVIOUS
<1>1. CASE UNCHANGED Tree!vars
  <2>1. UNCHANGED <<b_tree, b_heap, b_front, b_rear, b_waiting, b_pc, b_current, b_printed,
                    b_dropped>>
    BY <1>1 DEF Tree!vars, Tree!queue
  <2>2. TreeQueue' = TreeQueue
    BY <2>1 DEF TreeQueue
  <2>3. TreeTyping' = TreeTyping
    BY <2>1 DEF TreeTyping
  <2>4. TreeOrder' = TreeOrder
    BY <2>1 DEF TreeOrder, TreeBound
  <2>5. TreeComplete' = TreeComplete
    BY <2>1 DEF TreeComplete, TreeOffered, TreePrinted, TreeWaits
  <2>6. QED
    BY <2>2, <2>3, <2>4, <2>5 DEF TreeInv
<1>2. QED
  BY <1>1, TreeStart, TreeDequeue, TreeLeft, TreeRight, TreeEnd DEF Tree!Next, Tree!Returned

LEMMA TreeMeans == ASSUME TreeInv PROVE Tree!QueueIsLinked /\ Tree!PrintedInOrder
<1> DEFINE n == Len(b_waiting)
           m == Len(b_printed)
<1>1. TreeQueue /\ TreeTyping /\ TreeOrder /\ TreeComplete
  BY DEF TreeInv
<1>2. /\ Tree!Size = n /\ n \in Nat
      /\ \A i : Tree!At(i) = Place(b_waiting, i)
      /\ \A i \in 1 .. n : Tree!At(i) = b_waiting[i].at
  BY <1>1, TreePlaces DEF Tree!At, Tree!Size, Place
<1>3. Tree!QueueIsLinked
  <2>1. {Tree!At(i) : i \in 1 .. n} = Ats(b_waiting, 1)
    BY <1>2 DEF Ats
  <2>2. \A i, j \in 1 .. n : Tree!At(i) = Tree!At(j) => i = j
    BY <1>1, <1>2 DEF TreeQueue, Distinct
  <2>3. \A i \in 1 .. n :
           b_heap[Tree!At(i)] = [treeNode |-> b_waiting[i].node, next |-> Tree!At(i + 1)]
    BY <1>1, <1>2 DEF TreeQueue, TreeLinked
  <2>4. b_front = Tree!At(1) /\ b_rear = Tree!At(n) /\ DOMAIN b_heap = Ats(b_waiting, 1)
    BY <1>1, <1>2 DEF TreeQueue
  <2>5. QED
    BY <1>2, <2>1, <2>2, <2>3, <2>4 DEF Tree!QueueIsLinked
<1>4. DOMAIN b_printed = 1 .. m /\ \A i \in 1 .. m : b_printed[i] \in b_tree
  <2>1. b_printed \in Seq(b_tree)
    BY <1>1 DEF TreeOrder
  <2>2. QED
    BY <2>1, ElementOfSeq
<1>5. Tree!Range(b_printed) = TreePrinted /\ TreePrinted \subseteq b_tree
  BY <1>4 DEF Tree!Range, TreePrinted
<1>6. ASSUME b_pc = "done" PROVE b_heap = << >> /\ (b_dropped \/ TreePrinted = b_tree)
  <2>1. n = 0
    BY <1>1, <1>6 DEF TreeTyping
  <2>2. b_heap = << >>
    <3>1. DOMAIN b_heap = {} /\ b_heap = [a \in DOMAIN b_heap |-> b_heap[a]]
      BY <1>1, <2>1 DEF TreeQueue, Ats
    <3>2. QED
      BY <3>1
  <2>3. ASSUME ~b_dropped PROVE b_tree \ TreePrinted = {}
    <3> SUFFICES ASSUME b_tree \ TreePrinted # {} PROVE FALSE
      OBVIOUS
    <3>1. b_tree \ TreePrinted \subseteq Nat
      BY <1>1 DEF TreeTyping
    <3>2. PICK x \in b_tree \ TreePrinted : \A y \in b_tree \ TreePrinted : x <= y
      BY <3>1, LeastOf
    <3>3. ~TreeOffered(x)
      <4>1. TreeWaits = {}
        BY <2>1 DEF TreeWaits
      <4>2. QED
        BY <1>1, <2>3, <3>2, <4>1 DEF TreeComplete
    <3>4. x # 1 /\ x \div 2 \notin TreePrinted
      BY <1>6, <3>3 DEF TreeOffered
    <3>5. x \div 2 \in b_tree /\ x \in Nat /\ x > 0
      BY <1>1, <3>2, <3>4 DEF TreeTyping
    <3>6. x \div 2 < x
      BY <3>5
    <3>7. x <= x \div 2
      BY <3>2, <3>4, <3>5
    <3>8. QED
      BY <3>5, <3>6, <3>7
  <2>4. QED
    BY <1>5, <2>2, <2>3
<1>7. Tree!PrintedInOrder
  BY <1>1, <1>4, <1>5, <1>6 DEF Tree!PrintedInOrder, TreeOrder
<1>8. QED
  BY <1>3, <1>7

(* Whenever malloc fails, the queue stays linked from front to rear and     *)
(* leaves no node behind, and the nodes of the tree are printed in the      *)
(* order of their places, all of them if malloc did not fail.               *)
THEOREM TreeIsRight == Tree!Spec => [](Tree!QueueIsLinked /\ Tree!PrintedInOrder)
  BY TreeInit, TreeNext, TreeMeans, PTL DEF Tree!Spec

-----------------------------------------------------------------------------
(* The file objects (cpp/day21_raii_file.cpp) *)

FileInv == File!OneOwnerPerFile /\ f_open \subseteq Files

LEMMA FileInit == File!Init => FileInv
  BY DEF File!Init, FileInv, File!OneOwnerPerFile, File!Alive

LEMMA FileNext == FileInv /\ [File!Next]_(File!vars) => FileInv'
<1> SUFFICES ASSUME FileInv, [File!Next]_(File!vars) PROVE FileInv'
  OBVIOUS
<1> DEFINE Alive == DOMAIN f_file_
<1>0. /\ f_open = {f_file_[p] : p \in Alive} \ {nullptr} /\ f_open \subseteq Files
      /\ \A p, q \in Alive : f_file_[p] = f_file_[q] /\ f_file_[p] # nullptr => p = q
      /\ ~f_misused
  BY DEF FileInv, File!OneOwnerPerFile, File!Alive
<1>1. nullptr \notin Files
  BY HeapAssumption DEF File!ConstantsOK
<1> DEFINE Goal == /\ f_open' = {f_file_'[p] : p \in DOMAIN f_file_'} \ {nullptr}
                   /\ f_open' \subseteq Files
                   /\ \A p, q \in DOMAIN f_file_' :
                         f_file_'[p] = f_file_'[q] /\ f_file_'[p] # nullptr => p = q
                   /\ ~f_misused'
<1>2. SUFFICES Goal
  BY DEF FileInv, File!OneOwnerPerFile, File!Alive
(* The calls that neither create, move nor destroy. *)
<1>3. CASE UNCHANGED <<f_file_, f_open, f_misused>>
  BY <1>0, <1>3
<1>4. ASSUME NEW o \in Objects, File!Construct(o) PROVE Goal
  <2>1. PICK f \in Files \ f_open :
            /\ f_file_' = [p \in Alive \cup {o} |-> IF p = o THEN f ELSE f_file_[p]]
            /\ f_open' = f_open \cup {f}
    BY <1>4 DEF File!Construct, File!With, File!Alive
  <2>2. o \notin Alive /\ ~f_misused' /\ f # nullptr
    BY <1>0, <1>1, <1>4 DEF File!Construct, File!Alive
  <2>3. \A p \in Alive : f_file_[p] # f
    BY <1>0, <2>2
  <2>4. QED
    BY <1>0, <2>1, <2>2, <2>3
<1>5. ASSUME NEW o \in Objects, File!Destroy(o) PROVE Goal
  <2>1. /\ o \in Alive /\ f_file_' = [p \in Alive \ {o} |-> f_file_[p]]
        /\ f_open' = IF f_file_[o] = nullptr THEN f_open ELSE f_open \ {f_file_[o]}
        /\ f_misused' = (f_misused \/ f_file_[o] \notin f_open \cup {nullptr})
    BY <1>5 DEF File!Destroy, File!Closed, File!Misuse, File!Alive
  <2>2. ~f_misused'
    BY <1>0, <2>1
  <2>3. \A p \in Alive \ {o} : f_file_[p] # nullptr => f_file_[p] # f_file_[o]
    BY <1>0, <2>1
  <2>4. QED
    BY <1>0, <2>1, <2>2, <2>3
<1>6. ASSUME NEW o \in Objects, NEW other \in Objects, File!MoveConstruct(o, other)
      PROVE  Goal
  <2>1. /\ o \notin Alive /\ other \in Alive /\ UNCHANGED <<f_open, f_misused>>
        /\ f_file_' = [[p \in Alive \cup {o} |-> IF p = o THEN f_file_[other] ELSE f_file_[p]]
                          EXCEPT ![other] = nullptr]
    BY <1>6 DEF File!MoveConstruct, File!With, File!Alive
  <2>2. /\ DOMAIN f_file_' = Alive \cup {o} /\ f_file_'[other] = nullptr
        /\ f_file_'[o] = f_file_[other] /\ o # other
        /\ \A p \in Alive : p # other => f_file_'[p] = f_file_[p]
    BY <2>1
  <2>3. QED
    BY <1>0, <2>1, <2>2
<1>7. ASSUME NEW o \in Objects, NEW other \in Objects, File!MoveAssign(o, other)
      PROVE  Goal
  <2>1. /\ o \in Alive /\ other \in Alive /\ o # other
        /\ f_open' = IF f_file_[o] = nullptr THEN f_open ELSE f_open \ {f_file_[o]}
        /\ f_file_' = [f_file_ EXCEPT ![o] = f_file_[other], ![other] = nullptr]
        /\ f_misused' = (f_misused \/ f_file_[o] \notin f_open \cup {nullptr})
    BY <1>7 DEF File!MoveAssign, File!Closed, File!Misuse, File!Alive
  <2>2. ~f_misused'
    BY <1>0, <2>1
  <2>3. /\ DOMAIN f_file_' = Alive /\ f_file_'[other] = nullptr /\ f_file_'[o] = f_file_[other]
        /\ \A p \in Alive : p # other /\ p # o => f_file_'[p] = f_file_[p]
    BY <2>1
  <2>4. \A p \in Alive \ {o} : f_file_[p] # nullptr => f_file_[p] # f_file_[o]
    BY <1>0, <2>1
  <2>5. QED
    BY <1>0, <2>1, <2>2, <2>3, <2>4
<1>8. ASSUME NEW o \in Objects, File!Write(o) PROVE Goal
  <2>1. /\ o \in Alive /\ UNCHANGED <<f_file_, f_open>>
        /\ f_misused' = (f_misused \/ f_file_[o] \notin f_open \cup {nullptr})
    BY <1>8 DEF File!Write, File!Misuse, File!Alive
  <2>2. QED
    BY <1>0, <2>1
<1>9. QED
  <2>1. CASE UNCHANGED File!vars
    BY <1>3, <2>1 DEF File!vars
  <2>2. ASSUME NEW o \in Objects, File!ConstructFails(o) \/ File!MoveSelf(o) PROVE Goal
    BY <1>3, <2>2 DEF File!ConstructFails, File!MoveSelf
  <2>3. QED
    BY <1>4, <1>5, <1>6, <1>7, <1>8, <2>1, <2>2 DEF File!Next

(* Every open FILE has exactly one living owner and is closed once, however *)
(* many objects own and move how many files.                               *)
THEOREM FileIsRight == File!Spec => []File!OneOwnerPerFile
<1>1. FileInv => File!OneOwnerPerFile
  BY DEF FileInv
<1>2. QED
  BY <1>1, FileInit, FileNext, PTL DEF File!Spec

-----------------------------------------------------------------------------
(* The suite *)

(* A structure that its callers do not use stands still. *)
LEMMA SuiteIsEach ==
    SuiteSpec => /\ Spec /\ Queue!Spec /\ Sensor!Spec /\ Array!Spec
                 /\ Tracker!Spec /\ Acks!Spec /\ PendingList!Spec
                 /\ List!Spec /\ Doubly!Spec /\ Merge!Spec /\ Tree!Spec /\ File!Spec
<1>1. SuiteInit => /\ Init /\ Queue!Init /\ Sensor!Init /\ Array!Init
                   /\ Tracker!Init /\ Acks!Init /\ PendingList!Init
                   /\ List!Init /\ Doubly!Init /\ Merge!Init /\ Tree!Init /\ File!Init
  BY DEF SuiteInit
<1>2. /\ UNCHANGED queue => UNCHANGED Queue!vars
      /\ UNCHANGED sensor => UNCHANGED Sensor!vars
      /\ UNCHANGED array => UNCHANGED Array!vars
      /\ UNCHANGED tracker => UNCHANGED Tracker!vars
      /\ UNCHANGED acks => UNCHANGED Acks!vars
      /\ UNCHANGED pending => UNCHANGED PendingList!vars
  BY DEF queue, sensor, array, tracker, acks, pending, Queue!vars, Sensor!vars,
         Array!vars, Tracker!vars, Acks!vars, PendingList!vars
<1>3. /\ UNCHANGED list => UNCHANGED List!vars
      /\ UNCHANGED doubly => UNCHANGED Doubly!vars
      /\ UNCHANGED merge => UNCHANGED Merge!vars
      /\ UNCHANGED binary => UNCHANGED Tree!vars
      /\ UNCHANGED file => UNCHANGED File!vars
  BY DEF list, doubly, merge, binary, file, List!vars, Doubly!vars, Merge!vars,
         Tree!vars, Tree!queue, File!vars
<1>4. [SuiteNext]_<<chosen, slots, heaps>>
        => /\ [Next]_vars /\ [Queue!Next]_(Queue!vars)
           /\ [Sensor!Next]_(Sensor!vars) /\ [Array!Next]_(Array!vars)
           /\ [Tracker!Next]_(Tracker!vars) /\ [Acks!Next]_(Acks!vars)
           /\ [PendingList!Next]_(PendingList!vars)
           /\ [List!Next]_(List!vars) /\ [Doubly!Next]_(Doubly!vars)
           /\ [Merge!Next]_(Merge!vars) /\ [Tree!Next]_(Tree!vars)
           /\ [File!Next]_(File!vars)
  BY <1>2, <1>3 DEF SuiteNext, slots, heaps
<1>5. QED
  BY <1>1, <1>4, PTL DEF SuiteSpec, Spec, Queue!Spec, Sensor!Spec, Array!Spec,
                         Tracker!Spec, Acks!Spec, PendingList!Spec, List!Spec,
                         Doubly!Spec, Merge!Spec, Tree!Spec, File!Spec

(* No index of the three rings leaves its array, and the count of day20's  *)
(* ring tells where its tail is, for every capacity.                       *)
THEOREM IndicesFitHolds == SuiteSpec => []IndicesFit
  BY SuiteIsEach, UartTypeCorrect, QueueTypeCorrect, CountTellsTailHolds,
     SensorTypeCorrect, PTL DEF IndicesFit

(* A wait is ended by exactly one accepted ACK, for any number of senders, *)
(* receivers and watchers.                                                 *)
THEOREM OneAckWinsHolds == SuiteSpec => []OneAckWins
  BY SuiteIsEach, TrackerIsRight, PTL DEF OneAckWins

(* Both rings are FIFOs, of all their slots or of all but one, for every   *)
(* capacity, and the UART driver's counter is the number of bytes dropped, *)
(* modulo its width.                                                       *)
THEOREM RingsAreFifosHolds == SuiteSpec => RingsAreFifos
  BY SuiteIsEach, UartRefinesFifo, OverflowCountsDropsHolds, QueueRefinesFifo, PTL
     DEF RingsAreFifos

(* The sensor ring is a window on its last samples, the array queue gives  *)
(* back its oldest value and the stack its youngest, for every capacity.   *)
THEOREM OrderIsKeptHolds == SuiteSpec => OrderIsKept
  BY SuiteIsEach, SensorIsWindow, ArrayKeepsOrder, PTL DEF OrderIsKept

(* The ACK table and the list of pending commands are tables, for every    *)
(* capacity, every set of numbers and every order of the calls.            *)
THEOREM VectorsAreTablesHolds == SuiteSpec => VectorsAreTables
  BY SuiteIsEach, AckRefinesTable, PendingRefinesTable, PTL DEF VectorsAreTables

(* No step of a loop that inserts, deletes, turns or frees loses a node or  *)
(* keeps a pointer to a freed one, and every open FILE has one owner, for   *)
(* every heap, every tree and every number of objects.                     *)
THEOREM NothingIsLostHolds == SuiteSpec => []NothingIsLost
  BY SuiteIsEach, ListIsRight, DoublyIsRight, TreeIsRight, FileIsRight, PTL
     DEF NothingIsLost

(* The lists hold what was put there, merging keeps the order, and a tree   *)
(* is printed level by level, for every heap and every length.             *)
THEOREM ContentsAreRightHolds == SuiteSpec => []ContentsAreRight
  BY SuiteIsEach, ListIsRight, DoublyIsRight, MergeIsRight, TreeIsRight, PTL
     DEF ContentsAreRight
=============================================================================
