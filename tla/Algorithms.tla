------------------------------ MODULE Algorithms ------------------------------
(***************************************************************************)
(* The functions of the repository that only compute, each as a fold or a  *)
(* recursive function over its input:                                      *)
(*   is_valid_parentheses     leetcode/day02_valid_parentheses.c           *)
(*   has_cycle                leetcode/day03_linked_list_cycle.c           *)
(*   remove_duplicates        leetcode/day06_remove_duplicates.c           *)
(*   calculate_valid_average  leetcode/day07_sensor_average.c              *)
(*   merge_sorted             cpp/day22_merge_sorted.cpp                   *)
(*   merge_intervals          cpp/day23_merge_intervals.cpp                *)
(*   is_palindrome            data-structure/day1_palindrome.c             *)
(*   array_reverse            data-structure/day1_array_pointer.c          *)
(*   safe_string_copy         data-structure/day1_string_safety.c          *)
(*   set_bit, clear_bit, toggle_bit and get_bit                            *)
(*                            seventh_stage/day04/bit_register.c           *)
(*   dispatch_command         seventh_stage/day03/command_dispatch.c       *)
(*   preorder, inorder and postorder of a tree                             *)
(*                            data-structure/binarytree.c                  *)
(* A behaviour is one call.                                                *)
(***************************************************************************)
EXTENDS Integers, Bitwise, SequencesExt, TLC

CONSTANTS MaxText, MaxItems,    \* bounds: the longest text and the longest array
          MaxPlace,             \* bound: the largest place in a tree
          MaxNodes,             \* bound: the nodes of a list with or without a cycle
          Width,                \* the bits of a register, 32 in the code
          Points,               \* the ints
          Readings              \* the values of a uint8_t of a sample

VARIABLES function, input,
          null,         \* is the pointer the function tests NULL?
          allocated,    \* did malloc succeed?
          output        \* <<>> before the call, then a sequence of one result

vars == <<function, input, null, allocated, output>>

Items(S) == BoundedSeq(S, MaxItems)
Texts == BoundedSeq({"a", "b"}, MaxText)
Ascending(s) == \A i \in 2 .. Len(s) : s[i - 1] <= s[i]

Matching == "(" :> ")" @@ "[" :> "]" @@ "{" :> "}"

Intervals == {v \in [start : Points, end : Points] : v.start <= v.end}
Samples == [int : Readings, dec : Readings, valid : BOOLEAN]
Lists == [next : [1 .. MaxNodes -> 0 .. MaxNodes], head : 0 .. MaxNodes]

(* A tree node is its place: the root 1, the children of n 2 n and 2 n + 1. *)
Trees == {t \in SUBSET (1 .. MaxPlace) : \A n \in t : n = 1 \/ n \div 2 \in t}

Traversals == {"preorder", "inorder", "postorder"}
BitFunctions == {"set_bit", "clear_bit", "toggle_bit"}

(* The arguments callers pass: ascending arrays where the function relies  *)
(* on it, and intervals that do not end before they start.                 *)
Init ==
    /\ \/ function = "is_valid_parentheses"
          /\ input \in BoundedSeq({"(", ")", "[", "]", "{", "}", "x"}, MaxText)
       \/ function = "has_cycle" /\ input \in Lists
       \/ function = "remove_duplicates"
          /\ input \in {s \in Items(Points) : Ascending(s)}
       \/ function = "calculate_valid_average" /\ input \in Items(Samples)
       \/ function = "merge_sorted"
          /\ input \in {p \in Items(Points) \X Items(Points) :
                            Ascending(p[1]) /\ Ascending(p[2])}
       \/ function = "merge_intervals" /\ input \in Items(Intervals)
       \/ function \in {"is_palindrome", "array_reverse"} /\ input \in Texts
       \/ function = "safe_string_copy" /\ input \in Texts \X (0 .. MaxText + 2)
       \/ function \in BitFunctions
          /\ input \in [reg : 0 .. 2 ^ Width - 1, bit : 0 .. Width + 1]
       \/ function = "dispatch_command" /\ input \in -1 .. 5
       \/ function \in Traversals /\ input \in Trees
    /\ null \in BOOLEAN
    /\ function \in {"has_cycle", "merge_sorted", "merge_intervals", "dispatch_command"}
                     \cup Traversals => ~null
    /\ allocated \in BOOLEAN
    /\ function # "is_valid_parentheses" => allocated
    /\ output = <<>>

(* A stack of open brackets; the loop is left at the first bad character.  *)
Bracket(acc, c) ==
    IF ~acc.valid THEN acc
    ELSE IF c \in DOMAIN Matching THEN [acc EXCEPT !.stack = Append(@, c)]
    ELSE IF acc.stack = <<>> THEN [acc EXCEPT !.valid = FALSE]
    ELSE [stack |-> Front(acc.stack), valid |-> Matching[Last(acc.stack)] = c]

is_valid_parentheses(text) ==
    LET end == FoldLeft(Bracket, [stack |-> <<>>, valid |-> TRUE], text)
    IN  ~null /\ allocated /\ end.valid /\ end.stack = <<>>

(* The array is compacted in place: fast reads what slow may have written. *)
Compact(acc, fast) ==
    IF acc.array[acc.slow] = acc.array[fast] THEN acc
    ELSE [slow |-> acc.slow + 1,
          array |-> [acc.array EXCEPT ![acc.slow + 1] = acc.array[fast]]]

remove_duplicates(array) ==
    IF null \/ array = <<>> THEN <<>>
    ELSE LET end == FoldLeft(Compact, [slow |-> 1, array |-> array],
                             [i \in 1 .. Len(array) - 1 |-> i + 1])
         IN  SubSeq(end.array, 1, end.slow)

(* No result, with the outputs left alone, if no sample is valid. *)
Tenths(sample) == sample.int * 10 + sample.dec

calculate_valid_average(samples) ==
    LET valid == SelectSeq(samples, LAMBDA s : s.valid)
        sum == FoldLeft(LAMBDA x, s : x + Tenths(s), 0, valid)
    IN  IF null \/ valid = <<>> THEN "false" ELSE sum \div Len(valid)

(* An equal element is taken from b. *)
merge_sorted(a, b) ==
    LET Merge[i \in 1 .. Len(a) + 1, j \in 1 .. Len(b) + 1] ==
            IF i > Len(a) THEN SubSeq(b, j, Len(b))
            ELSE IF j > Len(b) THEN SubSeq(a, i, Len(a))
            ELSE IF a[i] < b[j] THEN <<a[i]>> \o Merge[i + 1, j]
            ELSE <<b[j]>> \o Merge[i, j + 1]
    IN  Merge[1, 1]

Before(v, w) == v.start < w.start \/ (v.start = w.start /\ v.end < w.end)

(* Mutant: intervals that touch are kept apart. *)
Join_Touching(result, v) ==
    IF result = <<>> \/ v.start >= Last(result).end THEN Append(result, v)
    ELSE [result EXCEPT ![Len(result)].end = IF @ < v.end THEN v.end ELSE @]

Join(result, v) ==
    IF result = <<>> \/ v.start > Last(result).end THEN Append(result, v)
    ELSE [result EXCEPT ![Len(result)].end = IF @ < v.end THEN v.end ELSE @]

merge_intervals(intervals) == FoldLeft(Join, <<>>, SortSeq(intervals, Before))

(* Floyd's slow and fast pointers; 0 is NULL.  The loop is followed for    *)
(* more iterations than it may take.                                       *)
has_cycle(list) ==
    LET After(a) == list.next[a]
        Loop[done \in 0 .. MaxNodes + 1, slow, fast \in 0 .. MaxNodes] ==
            IF fast = 0 \/ done > MaxNodes THEN [found |-> FALSE, iterations |-> done]
            ELSE IF After(fast) = 0 THEN [found |-> FALSE, iterations |-> done]
            ELSE IF After(slow) = After(After(fast))
                 THEN [found |-> TRUE, iterations |-> done + 1]
            ELSE Loop[done + 1, After(slow), After(After(fast))]
    IN  Loop[0, list.head, list.head]

(* Two indices move towards each other; a text of length 0 or 1 is let     *)
(* through before length - 1 is computed.                                  *)
is_palindrome(text) ==
    LET Same[left \in 0 .. Len(text), right \in -1 .. Len(text)] ==
            IF left >= right THEN TRUE
            ELSE text[left + 1] = text[right + 1] /\ Same[left + 1, right - 1]
    IN  ~null /\ (Len(text) < 2 \/ Same[0, Len(text) - 1])

Swapped(s, i, j) == [s EXCEPT ![i] = s[j], ![j] = s[i]]

(* left runs to the middle, right = length - 1 - left. *)
array_reverse(arr) ==
    IF null THEN arr
    ELSE FoldLeft(LAMBDA s, left : Swapped(s, left, Len(arr) + 1 - left),
                  arr, [left \in 1 .. Len(arr) \div 2 |-> left])

(* The bytes of a buffer of `capacity` bytes after the call: a full buffer *)
(* ends the copy, and what is past the terminator is left as it was.       *)
safe_string_copy(source, capacity) ==
    LET Index[i \in 0 .. Len(source)] ==
            IF i < Len(source) /\ i + 1 < capacity THEN Index[i + 1] ELSE i
        index == Index[0]
    IN  IF null \/ capacity = 0 THEN [complete |-> FALSE, destination |-> <<>>]
        ELSE [complete |-> index = Len(source),
              destination |-> [i \in 1 .. index + 1 |->
                                  IF i <= index THEN source[i] ELSE "end"]]

(* ~(1U << bit) in a register of Width bits. *)
Others(bit) == 2 ^ Width - 1 - 2 ^ bit

Registered(f, reg, bit) ==
    IF null \/ bit >= Width THEN reg
    ELSE CASE f = "set_bit" -> reg | (2 ^ bit)
           [] f = "clear_bit" -> reg & Others(bit)
           [] f = "toggle_bit" -> reg ^^ (2 ^ bit)

get_bit(reg, bit) == bit < Width /\ (reg & (2 ^ bit)) # 0

command_handlers == <<"handle_open", "handle_grab", "handle_release", "handle_stop">>

dispatch_command(cmd) ==
    IF cmd < 0 \/ cmd >= Len(command_handlers) THEN "invalid"
    ELSE command_handlers[cmd + 1]

(* Each function calls itself for the two children of a node. *)
Printed(order, tree) ==
    LET Visit[n \in 1 .. 2 * MaxPlace + 1] ==
            IF n \notin tree THEN <<>>
            ELSE CASE order = "preorder" -> <<n>> \o Visit[2 * n] \o Visit[2 * n + 1]
                   [] order = "inorder" -> Visit[2 * n] \o <<n>> \o Visit[2 * n + 1]
                   [] order = "postorder" -> Visit[2 * n] \o Visit[2 * n + 1] \o <<n>>
    IN  Visit[1]

Result ==
    CASE function = "is_valid_parentheses" -> is_valid_parentheses(input)
      [] function = "has_cycle" -> has_cycle(input)
      [] function = "remove_duplicates" -> remove_duplicates(input)
      [] function = "calculate_valid_average" -> calculate_valid_average(input)
      [] function = "merge_sorted" -> merge_sorted(input[1], input[2])
      [] function = "merge_intervals" -> merge_intervals(input)
      [] function = "is_palindrome" -> is_palindrome(input)
      [] function = "array_reverse" -> array_reverse(input)
      [] function = "safe_string_copy" -> safe_string_copy(input[1], input[2])
      [] function \in BitFunctions -> Registered(function, input.reg, input.bit)
      [] function = "dispatch_command" -> dispatch_command(input)
      [] function \in Traversals -> Printed(function, input)

Call == /\ output = <<>>
        /\ output' = <<Result>>
        /\ UNCHANGED <<function, input, null, allocated>>

Returned == output # <<>> /\ UNCHANGED vars

Next == Call \/ Returned

Spec == Init /\ [][Next]_vars

-----------------------------------------------------------------------------
(* The balanced texts of each length, built from shorter ones. *)
Balanced ==
    LET B[n \in 0 .. MaxText] ==
            IF n = 0 THEN {<<>>}
            ELSE UNION {{<<left>> \o u \o <<Matching[left]>> \o v :
                            left \in DOMAIN Matching, u \in B[k], v \in B[n - 2 - k]}
                        : k \in 0 .. n - 2}
    IN  UNION {B[n] : n \in 0 .. MaxText}

(* Twice the points an interval covers, so that intervals that are next to *)
(* each other but do not touch are told apart.                             *)
Covered(intervals) ==
    UNION {2 * intervals[i].start .. 2 * intervals[i].end : i \in DOMAIN intervals}

Count(x, s) == Cardinality({i \in DOMAIN s : s[i] = x})

(* A list has a cycle when MaxNodes steps from its head do not reach its   *)
(* end.                                                                    *)
HasCycle(list) ==
    LET After[k \in 0 .. MaxNodes] ==
            IF k = 0 THEN list.head
            ELSE IF After[k - 1] = 0 THEN 0 ELSE list.next[After[k - 1]]
    IN  After[MaxNodes] # 0

CopyIsRight(source, capacity, out) ==
    LET copied == Front(out.destination) IN
    IF capacity = 0 THEN ~out.complete /\ out.destination = <<>>
    ELSE /\ Len(out.destination) <= capacity
         /\ Last(out.destination) = "end"
         /\ IsPrefix(copied, source)
         /\ out.complete <=> copied = source
         /\ ~out.complete => Len(out.destination) = capacity

Bits(reg) == {b \in 0 .. Width - 1 : get_bit(reg, b)}

BitsAfter(f, bits, bit) ==
    CASE bit >= Width -> bits
      [] f = "set_bit" -> bits \cup {bit}
      [] f = "clear_bit" -> bits \ {bit}
      [] f = "toggle_bit" -> SymDiff(bits, {bit})

(* The nodes of the tree t below n, n included. *)
Below(t, n) == {m \in t : \E k \in 0 .. MaxPlace : 2 ^ k <= MaxPlace /\ m \div 2 ^ k = n}

(* Is n printed before m?  The traversals differ in where a node comes     *)
(* between its two subtrees.                                               *)
Precedes(order, t, n, m) ==
    LET under(c, x) == x \in Below(t, c) IN
    \/ \E r \in t : under(2 * r, n) /\ under(2 * r + 1, m)
    \/ under(n, m) /\ (order = "preorder" \/ (order = "inorder" /\ under(2 * n + 1, m)))
    \/ under(m, n) /\ (order = "postorder" \/ (order = "inorder" /\ under(2 * m, n)))

(* The handler named for each value of the enum Command. *)
HandlerFor == 0 :> "handle_open" @@ 1 :> "handle_grab" @@ 2 :> "handle_release"
              @@ 3 :> "handle_stop"

(* Each result is what the function is for: balanced texts and cyclic      *)
(* lists are recognised, the latter in no more iterations than there are   *)
(* nodes; no value is lost or kept twice, an average lies between the      *)
(* values, a merge is ordered and complete, merged intervals cover the     *)
(* same points and are kept apart; a copy that does not fit is cut, ended  *)
(* and reported; a register operation changes its bit and no other, and a  *)
(* bit the register does not have changes nothing; a command runs its own  *)
(* handler; a traversal prints every node once and in its order.           *)
OutputIsRight ==
    output # <<>> /\ ~null =>
        LET out == output[1] IN
        CASE function = "is_valid_parentheses" ->
                 out = (allocated /\ input \in Balanced)
          [] function = "has_cycle" ->
                 out.found = HasCycle(input) /\ out.iterations <= MaxNodes
          [] function = "remove_duplicates" ->
                 /\ \A i \in 2 .. Len(out) : out[i - 1] < out[i]
                 /\ ToSet(out) = ToSet(input)
          [] function = "calculate_valid_average" ->
                 LET valid == {i \in DOMAIN input : input[i].valid} IN
                 IF valid = {} THEN out = "false"
                 ELSE /\ \E i \in valid : Tenths(input[i]) <= out
                      /\ \E i \in valid : out <= Tenths(input[i])
          [] function = "merge_sorted" ->
                 /\ Ascending(out)
                 /\ \A x \in Points :
                       Count(x, out) = Count(x, input[1]) + Count(x, input[2])
          [] function = "merge_intervals" ->
                 /\ Covered(out) = Covered(input)
                 /\ \A i \in 2 .. Len(out) : out[i - 1].end < out[i].start
          [] function = "is_palindrome" -> out = (Reverse(input) = input)
          [] function = "array_reverse" -> out = Reverse(input)
          [] function = "safe_string_copy" -> CopyIsRight(input[1], input[2], out)
          [] function \in BitFunctions ->
                 Bits(out) = BitsAfter(function, Bits(input.reg), input.bit)
          [] function = "dispatch_command" ->
                 IF input \in DOMAIN HandlerFor THEN out = HandlerFor[input]
                                             ELSE out = "invalid"
          [] function \in Traversals ->
                 /\ ToSet(out) = input
                 /\ \A i, j \in DOMAIN out :
                       i < j => out[i] # out[j] /\ Precedes(function, input, out[i], out[j])
=============================================================================
