----------------------------- MODULE BinarySearch -----------------------------
(***************************************************************************)
(* The binary searches of the repository, one iteration a step:            *)
(*   first_index     tests/day28_binary_search.c, the first occurrence;    *)
(*   find_first and find_last                                              *)
(*                   seventh_stage/day03/binary_search_bounds.cpp;         *)
(*   binary_search   leetcode/day06_binary_search.c, any occurrence, with  *)
(*                   an exclusive right end.                               *)
(* Every int of the code that is computed here lies between -1 and the     *)
(* length, so the width of an int does not matter.                         *)
(***************************************************************************)
EXTENDS Integers

CONSTANTS MaxSize,      \* bound: the longest array
          Elements      \* the ints in the arrays

ConstantsOK == MaxSize \in Nat /\ Elements \subseteq Int

VARIABLES search,       \* the function that was called
          array, size, target, null,    \* its arguments; null: arr is NULL
          left, right, result,          \* its locals
          finished

arguments == <<search, array, size, target, null>>
vars == <<arguments, left, right, result, finished>>

Closed == {"first_index", "find_first", "find_last"}
Checking == {"first_index", "binary_search"}    \* they test their arguments
First == {"first_index", "find_first"}

Indices == 0 .. size - 1

Sorted == \A i, j \in Indices : i <= j => array[i] <= array[j]

Init == /\ search \in Closed \cup {"binary_search"}
        /\ size \in -1 .. MaxSize
        /\ search = "binary_search" => size >= 0
        /\ array \in [Indices -> Elements]
        /\ Sorted
        /\ target \in Elements
        /\ null \in BOOLEAN
        /\ null => search \in Checking
        /\ left = 0
        /\ right = IF search \in Closed THEN size - 1 ELSE size
        /\ result = -1
        /\ finished = FALSE

Rejected == search \in Checking /\ (null \/ size <= 0)

(* Mutant: an interval of one element is not looked at. *)
Searching_OffByOne == left < right

Searching == IF search \in Closed THEN left <= right ELSE left < right

middle == left + (right - left) \div 2

Running == ~finished /\ ~Rejected

GoRight == /\ Running /\ Searching
           /\ array[middle] < target
           /\ left' = middle + 1
           /\ UNCHANGED <<arguments, right, result, finished>>

GoLeft == /\ Running /\ Searching
          /\ array[middle] > target
          /\ right' = IF search \in Closed THEN middle - 1 ELSE middle
          /\ UNCHANGED <<arguments, left, result, finished>>

(* An equal element: note it and look for an earlier one. *)
NoteFirst == /\ Running /\ Searching /\ search \in First
             /\ array[middle] = target
             /\ result' = middle
             /\ right' = middle - 1
             /\ UNCHANGED <<arguments, left, finished>>

(* An equal element: note it and look for a later one. *)
NoteLast == /\ Running /\ Searching /\ search = "find_last"
            /\ array[middle] = target
            /\ result' = middle
            /\ left' = middle + 1
            /\ UNCHANGED <<arguments, right, finished>>

(* An equal element: return its index. *)
ReturnFound == /\ Running /\ Searching /\ search = "binary_search"
               /\ array[middle] = target
               /\ result' = middle
               /\ finished' = TRUE
               /\ UNCHANGED <<arguments, left, right>>

(* The arguments are refused or the loop has ended. *)
Return == /\ ~finished
          /\ Rejected \/ ~Searching
          /\ finished' = TRUE
          /\ UNCHANGED <<arguments, left, right, result>>

Returned == finished /\ UNCHANGED vars

Next == \/ GoRight \/ GoLeft
        \/ NoteFirst \/ NoteLast
        \/ ReturnFound \/ Return
        \/ Returned

Spec == Init /\ [][Next]_vars

-----------------------------------------------------------------------------
(* Minus one means that the array, if there is one, does not contain the   *)
(* target; any other result is where it stands: the first of equals, or    *)
(* the last, for the functions that promise it.                            *)
ResultIsRight ==
    finished /\ ~null =>
        \/ /\ result = -1
           /\ \A i \in Indices : array[i] # target
        \/ /\ result \in Indices
           /\ array[result] = target
           /\ search \in First => \A i \in 0 .. result - 1 : array[i] # target
           /\ search = "find_last" => \A i \in result + 1 .. size - 1 : array[i] # target

(* No iteration reads outside the array. *)
ReadsInside == Running /\ Searching => middle \in Indices

(* Each iteration leaves less to search, so the loop ends. *)
AlwaysShrinks == [][Running /\ ~finished' => right' - left' < right - left]_vars
=============================================================================
