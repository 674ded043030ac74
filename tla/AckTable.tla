------------------------------- MODULE AckTable -------------------------------
(***************************************************************************)
(* seventh_stage/day12/ack_table.cpp: the requests that await an ACK, in a *)
(* vector that is searched from the front.                                 *)
(***************************************************************************)
EXTENDS Integers, Sequences, SequencesExt

CONSTANTS Seqs, capacity_

AckState == {"Waiting", "Executing", "Succeeded", "Failed"}

VARIABLES entries_,
          state,        \* the caller's out-parameter of find
          answer        \* the last call, its number and its result

vars == <<entries_, state, answer>>

Init == /\ entries_ = <<>>
        /\ state \in AckState
        /\ answer = <<>>

Positions(s) == {i \in DOMAIN entries_ : entries_[i].seq = s}

Known(s) == Positions(s) # {}

(* The entry the loop meets first. *)
First(s) == CHOOSE i \in Positions(s) : \A j \in Positions(s) : i <= j

Full == Len(entries_) >= capacity_

Inserted(s, a) == /\ ~Known(s) /\ ~Full
                  /\ entries_' = Append(entries_, [seq |-> s, state |-> a])
                  /\ answer' = <<"insert", s, TRUE>>
                  /\ UNCHANGED state

NotInserted(s) == /\ Known(s) \/ Full
                  /\ answer' = <<"insert", s, FALSE>>
                  /\ UNCHANGED <<entries_, state>>

Updated(s, a) == /\ Known(s)
                 /\ entries_' = [entries_ EXCEPT ![First(s)].state = a]
                 /\ answer' = <<"update", s, TRUE>>
                 /\ UNCHANGED state

(* Mutant: the element before the iterator is erased. *)
Erased_Neighbour(s) == /\ Known(s)
                       /\ entries_' = RemoveAt(entries_,
                                               IF First(s) = 1 THEN 1 ELSE First(s) - 1)
                       /\ answer' = <<"erase", s, TRUE>>
                       /\ UNCHANGED state

Erased(s) == /\ Known(s)
             /\ entries_' = RemoveAt(entries_, First(s))
             /\ answer' = <<"erase", s, TRUE>>
             /\ UNCHANGED state

Found(s) == /\ Known(s)
            /\ state' = entries_[First(s)].state
            /\ answer' = <<"find", s, TRUE>>
            /\ UNCHANGED entries_

(* update, find and erase of a number that is not there. *)
Missing(s) == /\ ~Known(s)
              /\ answer' \in {<<"update", s, FALSE>>, <<"find", s, FALSE>>, <<"erase", s, FALSE>>}
              /\ UNCHANGED <<entries_, state>>

Next == \E s \in Seqs : \/ \E a \in AckState : Inserted(s, a) \/ Updated(s, a)
                        \/ NotInserted(s)
                        \/ Found(s) \/ Erased(s) \/ Missing(s)

Spec == Init /\ [][Next]_vars

-----------------------------------------------------------------------------
(* What the vector records of each number in it. *)
Records == [s \in {entries_[i].seq : i \in DOMAIN entries_} |->
              entries_[First(s)].state]

Table == INSTANCE TableSpec
            WITH Key <- Seqs, Data <- AckState, Room <- capacity_,
                 table <- Records, found <- state

(* Whatever order the entries were inserted and erased in, the vector is a *)
(* table: an operation on one number never touches the record of another.  *)
ImplementsTable == Table!Spec
=============================================================================
