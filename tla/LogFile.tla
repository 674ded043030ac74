-------------------------------- MODULE LogFile --------------------------------
(***************************************************************************)
(* LogFile of cpp/day21_raii_file.cpp: an object that owns an open FILE,   *)
(* can be moved from and into, and closes the FILE when it is destroyed.   *)
(* Objects are created and destroyed in any order; fopen may fail.  The    *)
(* C library's open files are external.                                    *)
(***************************************************************************)
EXTENDS Integers, FiniteSets

CONSTANTS Objects, Files, nullptr

ConstantsOK == nullptr \notin Files

VARIABLES file_,        \* file_ of the objects alive
          open,         \* external: the FILEs that are open
          thrown,       \* did the last call throw?
          misused       \* history: was a FILE closed or written that is not open?

vars == <<file_, open, thrown, misused>>

Alive == DOMAIN file_

Init == file_ = << >> /\ open = {} /\ thrown = FALSE /\ misused = FALSE

With(o, f) == [p \in Alive \cup {o} |-> IF p = o THEN f ELSE file_[p]]

(* fclose of what the object holds, if it holds something. *)
Closed(o) == IF file_[o] = nullptr THEN open ELSE open \ {file_[o]}

Misuse(o) == misused' = (misused \/ file_[o] \notin open \cup {nullptr})

Construct(o) == /\ o \notin Alive
                /\ \E f \in Files \ open : file_' = With(o, f) /\ open' = open \cup {f}
                /\ thrown' = FALSE
                /\ UNCHANGED misused

(* fopen returns nullptr: no object comes to life. *)
ConstructFails(o) == /\ o \notin Alive
                     /\ thrown' = TRUE
                     /\ UNCHANGED <<file_, open, misused>>

Destroy(o) == /\ o \in Alive
              /\ open' = Closed(o)
              /\ Misuse(o)
              /\ file_' = [p \in Alive \ {o} |-> file_[p]]
              /\ thrown' = FALSE

MoveConstruct(o, other) == /\ o \notin Alive /\ other \in Alive
                           /\ file_' = [With(o, file_[other]) EXCEPT ![other] = nullptr]
                           /\ thrown' = FALSE
                           /\ UNCHANGED <<open, misused>>

MoveAssign(o, other) ==
    /\ o \in Alive /\ other \in Alive /\ o # other
    /\ open' = Closed(o)
    /\ Misuse(o)
    /\ file_' = [file_ EXCEPT ![o] = file_[other], ![other] = nullptr]
    /\ thrown' = FALSE

(* Assignment of an object to itself. *)
MoveSelf(o) == /\ o \in Alive
               /\ thrown' = FALSE
               /\ UNCHANGED <<file_, open, misused>>

Write(o) == /\ o \in Alive
            /\ thrown' = (file_[o] = nullptr)
            /\ Misuse(o)
            /\ UNCHANGED <<file_, open>>

Next == \E o \in Objects : \/ Construct(o) \/ ConstructFails(o) \/ Destroy(o)
                           \/ MoveSelf(o) \/ Write(o)
                           \/ \E other \in Objects :
                                 MoveConstruct(o, other) \/ MoveAssign(o, other)

Spec == Init /\ [][Next]_vars

-----------------------------------------------------------------------------
(* However objects are moved and destroyed, every open FILE has exactly    *)
(* one living owner, no object keeps a FILE that is closed, and nothing is *)
(* closed twice or written after it was closed.                            *)
OneOwnerPerFile ==
    /\ open = {file_[o] : o \in Alive} \ {nullptr}
    /\ \A o, p \in Alive : file_[o] = file_[p] /\ file_[o] # nullptr => o = p
    /\ ~misused
=============================================================================
