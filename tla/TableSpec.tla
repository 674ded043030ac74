------------------------------ MODULE TableSpec ------------------------------
(***************************************************************************)
(* What a table of outstanding requests promises: at most one record for a *)
(* sequence number, at most Room records, and every call answers whether   *)
(* it found what it needed.                                                *)
(***************************************************************************)
EXTENDS Functions, FiniteSets

CONSTANTS Key, Data, Room

VARIABLES table,        \* what is recorded, a function of the numbers present
          found,        \* the caller's out-parameter
          answer        \* the last call, its number and its result

vars == <<table, found, answer>>

Init == /\ table = << >>
        /\ found \in Data
        /\ answer = <<>>

Present(k) == k \in DOMAIN table
Free == Cardinality(DOMAIN table) < Room

Insert(k, d) ==
    LET ok == ~Present(k) /\ Free IN
    /\ answer' = <<"insert", k, ok>>
    /\ table' = IF ok THEN [j \in DOMAIN table \cup {k} |->
                               IF j = k THEN d ELSE table[j]]
                      ELSE table
    /\ UNCHANGED found

Update(k, d) ==
    /\ answer' = <<"update", k, Present(k)>>
    /\ table' = IF Present(k) THEN [table EXCEPT ![k] = d] ELSE table
    /\ UNCHANGED found

Find(k) == /\ answer' = <<"find", k, Present(k)>>
           /\ found' = IF Present(k) THEN table[k] ELSE found
           /\ UNCHANGED table

Erase(k) == /\ answer' = <<"erase", k, Present(k)>>
            /\ table' = Restrict(table, DOMAIN table \ {k})
            /\ UNCHANGED found

Next == \E k \in Key : \/ \E d \in Data : Insert(k, d) \/ Update(k, d)
                       \/ Find(k) \/ Erase(k)

Spec == Init /\ [][Next]_vars
=============================================================================
