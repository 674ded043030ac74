------------------------------ MODULE LinkedList ------------------------------
(***************************************************************************)
(* The singly linked list of data-structure/linked_list.c,                 *)
(* linked_list_delete.c and linked_list_reverse.c (reverse_list of         *)
(* leetcode/day04_reverse_linked_list.c is the same loop), on a heap of    *)
(* malloc'd nodes; a step is one turn of a loop.                           *)
(*                                                                         *)
(* malloc may fail at any time.  In the last two files createNode tests    *)
(* its result and an insertion then does nothing; linked_list.c writes     *)
(* through the pointer before its callers test it (ChecksMalloc FALSE).    *)
(***************************************************************************)
EXTENDS Integers, Sequences, Functions

CONSTANTS Addr,         \* the addresses malloc may return
          NULL,
          Data,
          ChecksMalloc  \* does createNode test the result of malloc?

ConstantsOK == NULL \notin Addr

VARIABLES heap,         \* the allocated nodes, a function of their addresses
          head,
          pc,           \* "idle" between two calls, the loop that runs, or
                        \* "null_write" after a write through NULL
          prev, curr,   \* the pointers of that loop
          arg,          \* its new node, or the value it looks for
          contents      \* history: the values the list should hold, each with
                        \* the address of its node

vars == <<heap, head, pc, prev, curr, arg, contents>>
locals == <<pc, prev, curr, arg>>

Init == /\ heap = << >> /\ head = NULL
        /\ pc = "idle" /\ prev = NULL /\ curr = NULL /\ arg = NULL
        /\ contents = <<>>

Enter(loop, a) == pc = "idle" /\ pc' = loop /\ prev' = NULL /\ curr' = head /\ arg' = a
Leave == pc' = "idle" /\ prev' = NULL /\ curr' = NULL /\ arg' = NULL

Allocated(a, node) == [b \in DOMAIN heap \cup {a} |-> IF b = a THEN node ELSE heap[b]]
Freed(a, h) == Restrict(h, DOMAIN h \ {a})

insertAtHead(v) == /\ pc = "idle"
                   /\ \E a \in Addr \ DOMAIN heap :
                         /\ heap' = Allocated(a, [data |-> v, next |-> head])
                         /\ head' = a
                         /\ contents' = <<[at |-> a, data |-> v]>> \o contents
                   /\ UNCHANGED locals

(* createNode when malloc returns NULL, called by either insertion. *)
InsertFails == /\ pc = "idle"
               /\ pc' = IF ChecksMalloc THEN "idle" ELSE "null_write"
               /\ UNCHANGED <<heap, head, prev, curr, arg, contents>>

insertAtTail(v) ==
    \E a \in Addr \ DOMAIN heap :
        LET node == [at |-> a, data |-> v] IN
        /\ heap' = Allocated(a, [data |-> v, next |-> NULL])
        /\ IF head = NULL
           THEN /\ pc = "idle" /\ head' = a /\ contents' = <<node>>
                /\ UNCHANGED locals
           ELSE Enter("tail", node) /\ UNCHANGED <<head, contents>>

TailStep == /\ pc = "tail" /\ heap[curr].next # NULL
            /\ curr' = heap[curr].next
            /\ UNCHANGED <<heap, head, pc, prev, arg, contents>>

TailEnd == /\ pc = "tail" /\ heap[curr].next = NULL
           /\ heap' = [heap EXCEPT ![curr].next = arg.at]
           /\ contents' = Append(contents, arg)
           /\ Leave /\ UNCHANGED head

DeleteHead(v) == /\ pc = "idle" /\ head # NULL /\ heap[head].data = v
                 /\ head' = heap[head].next
                 /\ heap' = Freed(head, heap)
                 /\ contents' = Tail(contents)
                 /\ UNCHANGED locals

DeleteBegin(v) == /\ Enter("delete", v)
                  /\ head # NULL /\ heap[head].data # v
                  /\ UNCHANGED <<heap, head, contents>>

DeleteStep == /\ pc = "delete" /\ curr # NULL /\ heap[curr].data # arg
              /\ prev' = curr /\ curr' = heap[curr].next
              /\ UNCHANGED <<heap, head, pc, arg, contents>>

(* The list without the first node that holds v. *)
Without(v) ==
    LET n == Len(contents)
        first == CHOOSE i \in 1 .. n : /\ contents[i].data = v
                                       /\ \A j \in 1 .. i - 1 : contents[j].data # v
    IN  SubSeq(contents, 1, first - 1) \o SubSeq(contents, first + 1, n)

DeleteFound == /\ pc = "delete" /\ curr # NULL /\ heap[curr].data = arg
               /\ heap' = Freed(curr, [heap EXCEPT ![prev].next = heap[curr].next])
               /\ contents' = Without(arg)
               /\ Leave /\ UNCHANGED head

DeleteMissing == /\ pc = "delete" /\ curr = NULL
                 /\ Leave /\ UNCHANGED <<heap, head, contents>>

ReverseBegin == Enter("reverse", NULL) /\ UNCHANGED <<heap, head, contents>>

(* Mutant: the successor is read after it was overwritten. *)
ReverseStep_LateSave ==
    /\ pc = "reverse" /\ curr # NULL
    /\ heap' = [heap EXCEPT ![curr].next = prev]
    /\ prev' = curr
    /\ curr' = prev
    /\ UNCHANGED <<head, pc, arg, contents>>

ReverseStep == /\ pc = "reverse" /\ curr # NULL
               /\ heap' = [heap EXCEPT ![curr].next = prev]
               /\ prev' = curr
               /\ curr' = heap[curr].next
               /\ UNCHANGED <<head, pc, arg, contents>>

(* The result is assigned to head. *)
ReverseEnd == /\ pc = "reverse" /\ curr = NULL
              /\ head' = prev
              /\ contents' = [i \in 1 .. Len(contents) |-> contents[Len(contents) + 1 - i]]
              /\ Leave /\ UNCHANGED heap

FreeBegin == Enter("free", NULL) /\ UNCHANGED <<heap, head, contents>>

FreeStep == /\ pc = "free" /\ curr # NULL
            /\ curr' = heap[curr].next
            /\ heap' = Freed(curr, heap)
            /\ UNCHANGED <<head, pc, prev, arg, contents>>

FreeEnd == /\ pc = "free" /\ curr = NULL
           /\ head' = NULL /\ contents' = <<>>
           /\ Leave /\ UNCHANGED heap

Next == \/ \E v \in Data : \/ insertAtHead(v) \/ insertAtTail(v)
                           \/ DeleteHead(v) \/ DeleteBegin(v)
        \/ InsertFails \/ TailStep \/ TailEnd
        \/ DeleteStep \/ DeleteFound \/ DeleteMissing
        \/ ReverseBegin \/ ReverseStep \/ ReverseEnd
        \/ FreeBegin \/ FreeStep \/ FreeEnd

Spec == Init /\ [][Next]_vars

-----------------------------------------------------------------------------
(* The pointers the program holds; while free_list runs, that of its loop. *)
Held == CASE pc = "free" -> {curr}
          [] pc = "tail" -> {head, curr, arg.at}
          [] pc \in {"delete", "reverse"} -> {head, prev, curr}
          [] OTHER -> {head}

Linked(S) == {heap[a].next : a \in S}

(* No pointer that is held or stored in a node leads to freed memory, and   *)
(* every allocated node can be reached: a set of nodes that has those held  *)
(* and with each node its successor is the whole heap.  This is so at every *)
(* turn of the loops that turn round, unlink and free nodes.                *)
NoLeak ==
    /\ Held \cup Linked(DOMAIN heap) \subseteq DOMAIN heap \cup {NULL}
    /\ \A S \in SUBSET DOMAIN heap :
          Held \cup Linked(S) \subseteq S \cup {NULL} => S = DOMAIN heap

Size == Len(contents)
At(i) == IF i \in 1 .. Size THEN contents[i].at ELSE NULL

LinksTo(i, a) == heap[At(i)] = [data |-> contents[i].data, next |-> a]

(* At every step of every loop the nodes hold what the calls so far put     *)
(* into the list, and their pointers lead from each to the next; half       *)
(* reversed, to the one before, with the loop's pointers on the two sides.  *)
HoldsContents ==
    CASE pc = "reverse" ->
            \E k \in 1 .. Size + 1 :
               /\ prev = At(k - 1) /\ curr = At(k)
               /\ \A i \in 1 .. Size : LinksTo(i, IF i < k THEN At(i - 1) ELSE At(i + 1))
      [] pc = "free" ->
            \E k \in 1 .. Size + 1 : curr = At(k) /\ \A i \in k .. Size : LinksTo(i, At(i + 1))
      [] OTHER -> head = At(1) /\ \A i \in 1 .. Size : LinksTo(i, At(i + 1))

(* A failed allocation is noticed before the node is written to, as the    *)
(* comment at the end of createNode says.                                  *)
NoNullWrite == pc # "null_write"
=============================================================================
