---------------------------- MODULE PendingCommands ----------------------------
(***************************************************************************)
(* cpp/day21_pending_commands.cpp: commands by sequence number in a vector *)
(* without a capacity, searched with std::find_if; find returns a copy or  *)
(* std::nullopt.                                                           *)
(***************************************************************************)
EXTENDS Integers, Sequences, SequencesExt, FiniteSets

CONSTANTS Sequence, Name

VARIABLES commands_,
          copy,         \* the name in the last copy find returned
          answer        \* the last call, its number and its result

vars == <<commands_, copy, answer>>

Init == /\ commands_ = <<>>
        /\ copy \in Name
        /\ answer = <<>>

Matches(c, s) == c.sequence = s

(* std::find_if; 0 stands for end(). *)
find_if(s) == SelectInSeq(commands_, LAMBDA c : Matches(c, s))

Added(s, n) == /\ find_if(s) = 0
               /\ commands_' = Append(commands_, [sequence |-> s, name |-> n])
               /\ answer' = <<"insert", s, TRUE>>
               /\ UNCHANGED copy

NotAdded(s) == /\ find_if(s) # 0
               /\ answer' = <<"insert", s, FALSE>>
               /\ UNCHANGED <<commands_, copy>>

Found(s) == /\ find_if(s) # 0
            /\ copy' = commands_[find_if(s)].name
            /\ answer' = <<"find", s, TRUE>>
            /\ UNCHANGED commands_

Removed(s) == /\ find_if(s) # 0
              /\ commands_' = RemoveAt(commands_, find_if(s))
              /\ answer' = <<"erase", s, TRUE>>
              /\ UNCHANGED copy

(* std::nullopt of find, false of remove. *)
Missing(s) == /\ find_if(s) = 0
              /\ answer' \in {<<"find", s, FALSE>>, <<"erase", s, FALSE>>}
              /\ UNCHANGED <<commands_, copy>>

Next == \E s \in Sequence : \/ \E n \in Name : Added(s, n)
                            \/ NotAdded(s)
                            \/ Found(s) \/ Removed(s) \/ Missing(s)

Spec == Init /\ [][Next]_vars

-----------------------------------------------------------------------------
(* What the vector records of each number in it. *)
Records == [s \in {c.sequence : c \in Range(commands_)} |->
              (CHOOSE c \in Range(commands_) : c.sequence = s).name]

Table == INSTANCE TableSpec
            WITH Key <- Sequence, Data <- Name, Room <- Cardinality(Sequence),
                 table <- Records, found <- copy

(* The vector is a table with one record per sequence number and room for  *)
(* all of them; a copy that was returned is not changed by later calls.    *)
ImplementsTable == Table!Spec
=============================================================================
