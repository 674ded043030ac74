--------------------------- MODULE DoublyLinkedList ---------------------------
(***************************************************************************)
(* The doubly linked list of data-structure/linkedlist.c on a heap of      *)
(* malloc'd nodes; a step is one turn of a loop.  malloc may fail at any   *)
(* time, after which an insertion does nothing.                            *)
(***************************************************************************)
EXTENDS Integers, Sequences, Functions

CONSTANTS Addr, NULL, Data

ConstantsOK == NULL \notin Addr

VARIABLES heap,         \* the allocated nodes, a function of their addresses
          head,
          pc, cur,      \* the loop that runs, or "idle", and its pointer
          arg,          \* its new node, or the value it looks for
          contents      \* history: the values the list should hold, each with
                        \* the address of its node

vars == <<heap, head, pc, cur, arg, contents>>

Init == /\ heap = << >> /\ head = NULL
        /\ pc = "idle" /\ cur = NULL /\ arg = NULL /\ contents = <<>>

Enter(loop, a) == pc = "idle" /\ pc' = loop /\ cur' = head /\ arg' = a
Leave == pc' = "idle" /\ cur' = NULL /\ arg' = NULL

(* d_create, with the links the callers then set. *)
Allocated(a, v, next) ==
    [b \in DOMAIN heap \cup {a} |->
        IF b = a THEN [data |-> v, prev |-> NULL, next |-> next] ELSE heap[b]]

NextSet(h, a, b) == IF a = NULL THEN h ELSE [h EXCEPT ![a].next = b]
PrevSet(h, a, b) == IF a = NULL THEN h ELSE [h EXCEPT ![a].prev = b]

d_insert_head(v) ==
    /\ pc = "idle"
    /\ \E a \in Addr \ DOMAIN heap :
          /\ heap' = PrevSet(Allocated(a, v, head), head, a)
          /\ head' = a
          /\ contents' = <<[at |-> a, data |-> v]>> \o contents
    /\ UNCHANGED <<pc, cur, arg>>

d_insert_tail(v) ==
    \E a \in Addr \ DOMAIN heap :
        LET node == [at |-> a, data |-> v] IN
        /\ heap' = Allocated(a, v, NULL)
        /\ IF head = NULL
           THEN /\ pc = "idle" /\ head' = a /\ contents' = <<node>>
                /\ UNCHANGED <<pc, cur, arg>>
           ELSE Enter("tail", node) /\ UNCHANGED <<head, contents>>

TailStep == /\ pc = "tail" /\ heap[cur].next # NULL
            /\ cur' = heap[cur].next
            /\ UNCHANGED <<heap, head, pc, arg, contents>>

TailEnd == /\ pc = "tail" /\ heap[cur].next = NULL
           /\ heap' = [heap EXCEPT ![cur].next = arg.at, ![arg.at].prev = cur]
           /\ contents' = Append(contents, arg)
           /\ Leave /\ UNCHANGED head

DeleteBegin(v) == /\ head # NULL /\ Enter("delete", v)
                  /\ UNCHANGED <<heap, head, contents>>

DeleteStep == /\ pc = "delete" /\ cur # NULL /\ heap[cur].data # arg
              /\ cur' = heap[cur].next
              /\ UNCHANGED <<heap, head, pc, arg, contents>>

(* The list without the first node that holds v. *)
Without(v) ==
    LET n == Len(contents)
        first == CHOOSE i \in 1 .. n : /\ contents[i].data = v
                                       /\ \A j \in 1 .. i - 1 : contents[j].data # v
    IN  SubSeq(contents, 1, first - 1) \o SubSeq(contents, first + 1, n)

Unlinked(node) == PrevSet(NextSet(heap, node.prev, node.next), node.next, node.prev)

DeleteFound == /\ pc = "delete" /\ cur # NULL /\ heap[cur].data = arg
               /\ heap' = Restrict(Unlinked(heap[cur]), DOMAIN heap \ {cur})
               /\ head' = IF heap[cur].prev = NULL THEN heap[cur].next ELSE head
               /\ contents' = Without(arg)
               /\ Leave

DeleteMissing == /\ pc = "delete" /\ cur = NULL
                 /\ Leave /\ UNCHANGED <<heap, head, contents>>

FreeBegin == Enter("free", NULL) /\ UNCHANGED <<heap, head, contents>>

FreeStep == /\ pc = "free" /\ cur # NULL
            /\ cur' = heap[cur].next
            /\ heap' = Restrict(heap, DOMAIN heap \ {cur})
            /\ UNCHANGED <<head, pc, arg, contents>>

FreeEnd == /\ pc = "free" /\ cur = NULL
           /\ head' = NULL /\ contents' = <<>>
           /\ Leave /\ UNCHANGED heap

Next == \/ \E v \in Data : d_insert_head(v) \/ d_insert_tail(v) \/ DeleteBegin(v)
        \/ TailStep \/ TailEnd
        \/ DeleteStep \/ DeleteFound \/ DeleteMissing
        \/ FreeBegin \/ FreeStep \/ FreeEnd

Spec == Init /\ [][Next]_vars

-----------------------------------------------------------------------------
(* The pointers the program holds; while d_free runs, that of its loop. *)
Held == CASE pc = "free" -> {cur}
          [] pc = "tail" -> {head, cur, arg.at}
          [] pc = "delete" -> {head, cur}
          [] OTHER -> {head}

Linked(S) == {heap[a].next : a \in S}

(* The loop of d_free does not look back: the node it stands at has lost    *)
(* its predecessor.                                                         *)
LinkedBack == IF pc = "free" THEN {} ELSE {heap[a].prev : a \in DOMAIN heap}

(* No pointer that is held or stored in a node leads to freed memory, and   *)
(* every allocated node can be reached along next: a set of nodes that has  *)
(* those held and with each node its successor is the whole heap.           *)
NoLeak ==
    /\ Held \cup Linked(DOMAIN heap) \cup LinkedBack \subseteq DOMAIN heap \cup {NULL}
    /\ \A S \in SUBSET DOMAIN heap :
          Held \cup Linked(S) \subseteq S \cup {NULL} => S = DOMAIN heap

Size == Len(contents)
At(i) == IF i \in 1 .. Size THEN contents[i].at ELSE NULL

Linking(i) == heap[At(i)] = [data |-> contents[i].data, prev |-> At(i - 1), next |-> At(i + 1)]

(* The nodes hold what the calls put into the list, and their pointers lead *)
(* from each to the next and back; so do those of the nodes not yet freed.  *)
BothWaysAgree ==
    IF pc = "free" THEN \E k \in 1 .. Size + 1 : cur = At(k) /\ \A i \in k .. Size : Linking(i)
    ELSE head = At(1) /\ \A i \in 1 .. Size : Linking(i)

=============================================================================
