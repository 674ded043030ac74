------------------------------- MODULE ListMerge -------------------------------
(***************************************************************************)
(* merge_sorted_lists of leetcode/day04_merge_sorted_lists.c: two sorted   *)
(* lists are merged by relinking their nodes behind a dummy, one node an   *)
(* iteration.  The nodes of the first list are numbered before those of    *)
(* the second, each list in its order.                                     *)
(***************************************************************************)
EXTENDS Integers, Sequences, Functions

CONSTANTS MaxLength,    \* bound: the longest list
          Data, NULL

ConstantsOK == MaxLength \in Nat /\ Data \subseteq Int /\ NULL \notin Int

VARIABLES n1, n2,       \* the lengths of the two lists
          value, next,  \* the fields of the nodes, and next of the dummy
          list1, list2, tail,
          returned,
          merged        \* history: the nodes in the order they were linked

vars == <<n1, n2, value, next, list1, list2, tail, returned, merged>>

Dummy == -1
Nodes == 1 .. n1 + n2

Init == /\ n1 \in 0 .. MaxLength /\ n2 \in 0 .. MaxLength
        /\ value \in [Nodes -> Data]
        /\ \A i \in Nodes \ {n1, n1 + n2} : value[i] <= value[i + 1]
        /\ next = [a \in Nodes \cup {Dummy} |->
                      IF a \in {n1, n1 + n2, Dummy} THEN NULL ELSE a + 1]
        /\ list1 = IF n1 = 0 THEN NULL ELSE 1
        /\ list2 = IF n2 = 0 THEN NULL ELSE n1 + 1
        /\ tail = Dummy
        /\ returned = FALSE /\ merged = <<>>

BothLeft == ~returned /\ list1 # NULL /\ list2 # NULL

(* Mutant: of equal values the second list's goes first. *)
FirstGoes_Strict == value[list1] < value[list2]

FirstGoes == value[list1] <= value[list2]

TakeFirst == /\ BothLeft /\ FirstGoes
             /\ next' = [next EXCEPT ![tail] = list1]
             /\ list1' = next[list1]
             /\ tail' = list1 /\ merged' = Append(merged, list1)
             /\ UNCHANGED <<n1, n2, value, list2, returned>>

TakeSecond == /\ BothLeft /\ ~FirstGoes
              /\ next' = [next EXCEPT ![tail] = list2]
              /\ list2' = next[list2]
              /\ tail' = list2 /\ merged' = Append(merged, list2)
              /\ UNCHANGED <<n1, n2, value, list1, returned>>

(* What is left of a list that ends with the node `last`. *)
Rest(node, last) == IF node = NULL THEN <<>>
                    ELSE [i \in 1 .. last - node + 1 |-> node + i - 1]

Finish == /\ ~returned /\ ~BothLeft
          /\ next' = [next EXCEPT ![tail] = IF list1 # NULL THEN list1 ELSE list2]
          /\ merged' = merged \o Rest(list1, n1) \o Rest(list2, n1 + n2)
          /\ returned' = TRUE
          /\ UNCHANGED <<n1, n2, value, list1, list2, tail>>

Returned == returned /\ UNCHANGED vars

Next == TakeFirst \/ TakeSecond \/ Finish \/ Returned

Spec == Init /\ [][Next]_vars

-----------------------------------------------------------------------------
Linked(i) == IF i \in DOMAIN merged THEN merged[i] ELSE NULL

(* The pointers lead from the dummy through every node of both lists once, *)
(* in ascending order; equal values keep their order, the first list's     *)
(* before the second's.                                                    *)
MergedInOrder ==
    returned =>
        /\ Range(merged) = Nodes /\ Len(merged) = n1 + n2
        /\ next[Dummy] = Linked(1)
        /\ \A i \in DOMAIN merged : next[merged[i]] = Linked(i + 1)
        /\ \A i, j \in DOMAIN merged :
              i < j => \/ value[merged[i]] < value[merged[j]]
                       \/ value[merged[i]] = value[merged[j]] /\ merged[i] < merged[j]
=============================================================================
