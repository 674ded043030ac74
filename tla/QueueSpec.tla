------------------------------ MODULE QueueSpec ------------------------------
(***************************************************************************)
(* What the closable FIFO queues of the repository promise their callers:  *)
(* BlockingQueue<T> of seventh_stage/day12 and BoundedLogQueue of          *)
(* cpp/day22.  Every call takes effect in ONE step between its beginning   *)
(* and its end; there is no mutex, no condition variable and no wait.      *)
(*                                                                         *)
(*   - a put succeeds only while the queue is open and has room;           *)
(*   - a put is refused only when the queue is closed or, in the queues    *)
(*     that do not wait for room (RefuseFull), when it is full;            *)
(*   - a take returns the oldest element, closed or not;                   *)
(*   - a take is refused only when the queue is closed AND drained.        *)
(***************************************************************************)
EXTENDS Naturals, Sequences

CONSTANTS Putters,      \* the threads that put
          Takers,       \* the threads that take
          Element,      \* what can be put
          Capacity,     \* how many elements the queue holds at most
          RefuseFull    \* TRUE: a put on a full queue is refused, not delayed

VARIABLES buf,          \* the elements accepted and not yet delivered
          closed,       \* no further element is accepted
          delivered,    \* the elements taken, oldest first
          busy          \* the threads inside a call

vars == <<buf, closed, delivered, busy>>

Init == /\ buf = <<>>
        /\ closed = FALSE
        /\ delivered = <<>>
        /\ busy = {}

Enter(t) == /\ t \notin busy
            /\ busy' = busy \cup {t}
            /\ UNCHANGED <<buf, closed, delivered>>

Leave(t) == /\ t \in busy
            /\ busy' = busy \ {t}

Put(t, e) == /\ Leave(t)
             /\ ~closed
             /\ Len(buf) < Capacity
             /\ buf' = Append(buf, e)
             /\ UNCHANGED <<closed, delivered>>

RefusePut(t) == /\ Leave(t)
                /\ closed \/ (RefuseFull /\ Len(buf) >= Capacity)
                /\ UNCHANGED <<buf, closed, delivered>>

Take(t) == /\ Leave(t)
           /\ buf # <<>>
           /\ delivered' = Append(delivered, Head(buf))
           /\ buf' = Tail(buf)
           /\ UNCHANGED closed

RefuseTake(t) == /\ Leave(t)
                 /\ closed
                 /\ buf = <<>>
                 /\ UNCHANGED <<buf, closed, delivered>>

Close == /\ closed' = TRUE
         /\ UNCHANGED <<buf, delivered, busy>>

Next == \/ \E t \in Putters \cup Takers : Enter(t)
        \/ \E t \in Putters : RefusePut(t) \/ \E e \in Element : Put(t, e)
        \/ \E t \in Takers : Take(t) \/ RefuseTake(t)
        \/ Close

Spec == Init /\ [][Next]_vars
=============================================================================
