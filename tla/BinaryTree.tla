------------------------------ MODULE BinaryTree ------------------------------
(***************************************************************************)
(* levelOrder of data-structure/binarytree.c: a tree is printed level by   *)
(* level through a linked queue on the heap, whose rear pointer must be    *)
(* reset when the last element leaves.  A tree node is numbered by its     *)
(* place: the root 1, the children of n are 2 n and 2 n + 1.               *)
(*                                                                         *)
(* malloc may fail, and enqueue then drops the subtree silently; printf is *)
(* the history printed.                                                    *)
(***************************************************************************)
EXTENDS Integers, Sequences, Functions

CONSTANTS MaxNode,      \* bound: the largest place in a tree
          Addr, NULL

ConstantsOK == MaxNode \in Nat /\ NULL \notin Addr

VARIABLES tree,         \* the nodes of the tree
          heap,         \* the queue's nodes, a function of their addresses
          front, rear,
          pc,           \* the statement to come
          current,      \* the node last dequeued, 0 before the first
          printed, dropped,     \* histories
          waiting       \* history: the tree nodes to come, each with the address
                        \* of its queue node

queue == <<heap, front, rear, waiting>>
vars == <<tree, queue, pc, current, printed, dropped>>

Init == /\ tree \in SUBSET (1 .. MaxNode)
        /\ \A n \in tree : n = 1 \/ n \div 2 \in tree
        /\ heap = << >> /\ front = NULL /\ rear = NULL /\ waiting = <<>>
        /\ pc = IF 1 \in tree THEN "start" ELSE "done"
        /\ current = 0 /\ printed = <<>> /\ dropped = FALSE

Allocated(a, node) == [b \in DOMAIN heap \cup {a} |-> IF b = a THEN node ELSE heap[b]]

enqueue(n) ==
    \E a \in Addr \ DOMAIN heap :
        LET h == Allocated(a, [treeNode |-> n, next |-> NULL]) IN
        /\ heap' = IF rear = NULL THEN h ELSE [h EXCEPT ![rear].next = a]
        /\ front' = IF rear = NULL THEN a ELSE front
        /\ rear' = a
        /\ waiting' = Append(waiting, [at |-> a, node |-> n])
        /\ UNCHANGED dropped

EnqueueFails == dropped' = TRUE /\ UNCHANGED queue

(* enqueue the node n of the tree; a missing child is passed over. *)
Offer(n) == IF n \in tree THEN enqueue(n) \/ EnqueueFails
                          ELSE UNCHANGED <<queue, dropped>>

Goto(label, n) == pc' = label /\ current' = n

Start == /\ pc = "start" /\ Offer(1) /\ Goto("loop", 0)
         /\ UNCHANGED <<tree, printed>>

isQueueEmpty == front = NULL

RearAfter(h) == IF h = NULL THEN NULL ELSE rear

Dequeue == /\ pc = "loop" /\ ~isQueueEmpty
           /\ front' = heap[front].next
           /\ rear' = RearAfter(heap[front].next)
           /\ heap' = Restrict(heap, DOMAIN heap \ {front})
           /\ waiting' = Tail(waiting)
           /\ printed' = Append(printed, heap[front].treeNode)
           /\ Goto("left", heap[front].treeNode)
           /\ UNCHANGED <<tree, dropped>>

Left == /\ pc = "left" /\ Offer(2 * current) /\ Goto("right", current)
        /\ UNCHANGED <<tree, printed>>

Right == /\ pc = "right" /\ Offer(2 * current + 1) /\ Goto("loop", current)
         /\ UNCHANGED <<tree, printed>>

End == /\ pc = "loop" /\ isQueueEmpty
       /\ Goto("done", current)
       /\ UNCHANGED <<tree, queue, printed, dropped>>

Returned == pc = "done" /\ UNCHANGED vars

Next == Start \/ Dequeue \/ Left \/ Right \/ End \/ Returned

Spec == Init /\ [][Next]_vars

-----------------------------------------------------------------------------
Size == Len(waiting)
At(i) == IF i \in 1 .. Size THEN waiting[i].at ELSE NULL

(* The queue's pointers lead through the nodes that wait, from front to     *)
(* rear; nothing else is allocated, and both are NULL together.             *)
QueueIsLinked ==
    /\ front = At(1) /\ rear = At(Size)
    /\ DOMAIN heap = {At(i) : i \in 1 .. Size}
    /\ \A i, j \in 1 .. Size : At(i) = At(j) => i = j
    /\ \A i \in 1 .. Size : heap[At(i)] = [treeNode |-> waiting[i].node, next |-> At(i + 1)]

(* The nodes are printed level by level and from left to right, which is    *)
(* the order of their places; none is missing unless malloc failed, and the *)
(* queue's memory is all given back.                                        *)
PrintedInOrder ==
    /\ \A i, j \in DOMAIN printed : i < j => printed[i] < printed[j]
    /\ Range(printed) \subseteq tree
    /\ pc = "done" => (dropped \/ Range(printed) = tree) /\ heap = << >>
=============================================================================
