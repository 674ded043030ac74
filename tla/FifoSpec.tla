------------------------------ MODULE FifoSpec ------------------------------
(***************************************************************************)
(* What the ring buffers of the repository promise a caller: a bounded     *)
(* FIFO whose push answers false exactly when it is full and whose pop and *)
(* peek answer false, and leave the caller's out-parameter alone, exactly  *)
(* when it is empty.  A call with a NULL argument answers false and        *)
(* changes nothing.                                                        *)
(***************************************************************************)
EXTENDS Naturals, Sequences

CONSTANTS Value,        \* what is stored
          Room          \* how many values fit

VARIABLES buf,          \* the stored values, oldest first
          out,          \* the caller's out-parameter
          answer        \* the last call and its boolean result

vars == <<buf, out, answer>>

Init == /\ buf = <<>>
        /\ out \in Value
        /\ answer = <<"init", TRUE>>

Reset == /\ buf' = <<>>
         /\ answer' = <<"init", TRUE>>
         /\ UNCHANGED out

Push(v) == /\ answer' = <<"push", Len(buf) < Room>>
           /\ buf' = IF Len(buf) < Room THEN Append(buf, v) ELSE buf
           /\ UNCHANGED out

Pop == /\ answer' = <<"pop", buf # <<>>>>
       /\ IF buf = <<>> THEN UNCHANGED <<buf, out>>
                        ELSE out' = Head(buf) /\ buf' = Tail(buf)

Peek == /\ answer' = <<"peek", buf # <<>>>>
        /\ out' = IF buf = <<>> THEN out ELSE Head(buf)
        /\ UNCHANGED buf

NullArgument == answer' = <<"null", FALSE>> /\ UNCHANGED <<buf, out>>

Next == Reset \/ Pop \/ Peek \/ NullArgument \/ \E v \in Value : Push(v)

Spec == Init /\ [][Next]_vars
=============================================================================
