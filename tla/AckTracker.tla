------------------------------ MODULE AckTracker ------------------------------
(***************************************************************************)
(* seventh_stage/day6/ack_tracker.cpp: a mutex-protected note of the       *)
(* sequence number whose ACK is awaited.  Senders call start(), receiver   *)
(* threads on_ack(), anyone is_waiting(), in any order and as often as     *)
(* they like; the critical sections are modelled access by access.         *)
(***************************************************************************)
EXTENDS Naturals, Sequences

CONSTANTS Senders, Receivers, Watchers,
          Seqs, Nobody

Threads == Senders \cup Receivers \cup Watchers

ConstantsOK ==
    /\ Senders \cap Receivers = {} /\ Watchers \cap (Senders \cup Receivers) = {}
    /\ Nobody \notin Threads

VARIABLES waiting_, expected_seq_,
          mutex_,       \* the thread inside a critical section, or Nobody
          pc,           \* where each thread is
          seq,          \* the argument of its call
          result,       \* what its last call returned
          awaited,      \* history: <<the last number started>>, once started
          winners       \* history: the numbers of the calls that returned true
                        \* since, in order

vars == <<waiting_, expected_seq_, mutex_, pc, seq, result, awaited, winners>>

Init == /\ waiting_ = FALSE /\ expected_seq_ \in Seqs
        /\ mutex_ = Nobody
        /\ pc = [t \in Threads |-> "out"]
        /\ seq \in [Threads -> Seqs]
        /\ result = [t \in Threads |-> FALSE]
        /\ awaited = <<>> /\ winners = <<>>

(* The std::lock_guard and its release at the end of the scope. *)
Lock(t) == mutex_ = Nobody /\ mutex_' = t

Unlock(t) == mutex_' = IF mutex_ = t THEN Nobody ELSE mutex_

Goto(t, l) == pc' = [pc EXCEPT ![t] = l]

Enter(t, l) == /\ pc[t] = "out"
               /\ Lock(t)
               /\ Goto(t, l)
               /\ seq' \in {[seq EXCEPT ![t] = s] : s \in Seqs}
               /\ UNCHANGED <<waiting_, expected_seq_, result, awaited, winners>>

(* start(seq): the two assignments. *)
StartSeq(t) == /\ pc[t] = "start"
               /\ expected_seq_' = seq[t]
               /\ Goto(t, "started")
               /\ UNCHANGED <<waiting_, mutex_, seq, result, awaited, winners>>

StartWaiting(t) == /\ pc[t] = "started"
                   /\ waiting_' = TRUE
                   /\ awaited' = <<seq[t]>> /\ winners' = <<>>
                   /\ Unlock(t)
                   /\ Goto(t, "out")
                   /\ UNCHANGED <<expected_seq_, seq, result>>

(* Mutant: any ACK ends the wait. *)
IsAwaited_AnyNumber(t) == waiting_

IsAwaited(t) == waiting_ /\ seq[t] = expected_seq_

(* on_ack(seq): the two tests, then the assignment. *)
AckRefuse(t) == /\ pc[t] = "ack"
                /\ ~IsAwaited(t)
                /\ result' = [result EXCEPT ![t] = FALSE]
                /\ Unlock(t)
                /\ Goto(t, "out")
                /\ UNCHANGED <<waiting_, expected_seq_, seq, awaited, winners>>

AckTest(t) == /\ pc[t] = "ack"
              /\ IsAwaited(t)
              /\ Goto(t, "accept")
              /\ UNCHANGED <<waiting_, expected_seq_, mutex_, seq, result,
                             awaited, winners>>

AckAccept(t) == /\ pc[t] = "accept"
                /\ waiting_' = FALSE
                /\ result' = [result EXCEPT ![t] = TRUE]
                /\ winners' = Append(winners, seq[t])
                /\ Unlock(t)
                /\ Goto(t, "out")
                /\ UNCHANGED <<expected_seq_, seq, awaited>>

is_waiting(t) == /\ pc[t] = "query"
                 /\ result' = [result EXCEPT ![t] = waiting_]
                 /\ Unlock(t)
                 /\ Goto(t, "out")
                 /\ UNCHANGED <<waiting_, expected_seq_, seq, awaited, winners>>

start(t) == Enter(t, "start") \/ StartSeq(t) \/ StartWaiting(t)
on_ack(t) == Enter(t, "ack") \/ AckRefuse(t) \/ AckTest(t) \/ AckAccept(t)

Next == \/ \E t \in Senders : start(t)
        \/ \E t \in Receivers : on_ack(t)
        \/ \E t \in Watchers : Enter(t, "query") \/ is_waiting(t)

Spec == Init /\ [][Next]_vars

-----------------------------------------------------------------------------
TypeOK == /\ waiting_ \in BOOLEAN /\ expected_seq_ \in Seqs
          /\ mutex_ \in Threads \cup {Nobody}
          /\ pc \in [Threads -> {"out", "start", "started", "ack", "accept", "query"}]
          /\ seq \in [Threads -> Seqs] /\ result \in [Threads -> BOOLEAN]
          /\ awaited \in {<<>>} \cup {<<s>> : s \in Seqs}
          /\ winners \in {<<>>, awaited}

(* The wait that a start() begins ends by exactly one call of on_ack, with  *)
(* the number of that start: two threads with the same ACK do not both win, *)
(* and an ACK of an earlier number, however late, does not end this wait.   *)
WaitEndsByOneAck == mutex_ = Nobody /\ awaited # <<>>
                    => winners = IF waiting_ THEN <<>> ELSE awaited
=============================================================================
