------------------------------ MODULE WindowSpec ------------------------------
(***************************************************************************)
(* A sliding window: the last Room values pushed, oldest first.  A push    *)
(* always succeeds, at the cost of the oldest value; any value still in    *)
(* the window can be read by its age.                                      *)
(***************************************************************************)
EXTENDS Integers, Sequences

CONSTANTS Value, Room

VARIABLES window,       \* oldest first
          out,          \* the caller's out-parameter
          answer        \* the last call, its index and its boolean result

vars == <<window, out, answer>>

Init == window = <<>> /\ out \in Value /\ answer = <<>>

Reset == window' = <<>> /\ answer' = <<"init">> /\ UNCHANGED out

Push(v) == /\ window' = IF Len(window) < Room THEN Append(window, v)
                                              ELSE Append(Tail(window), v)
           /\ answer' = <<"push", TRUE>>
           /\ UNCHANGED out

Get(i) == /\ answer' = <<"get", i, i < Len(window)>>
          /\ out' = IF i < Len(window) THEN window[i + 1] ELSE out
          /\ UNCHANGED window

NullArgument == answer' = <<"null", FALSE>> /\ UNCHANGED <<window, out>>

Next == \/ Reset \/ NullArgument
        \/ \E v \in Value : Push(v)
        \/ \E i \in 0 .. Room : Get(i)

Spec == Init /\ [][Next]_vars
=============================================================================
