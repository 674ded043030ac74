------------------------------ MODULE StreamFramer ------------------------------
(***************************************************************************)
(* leetcode/day09_stream_framer.c: text lines cut out of a byte stream, one *)
(* byte a call, with a buffer of fixed size, lines that overflow it, and    *)
(* callers whose output area may be too small for the line.                 *)
(***************************************************************************)
EXTENDS Integers, Sequences

CONSTANTS Text,                  \* the bytes that are no delimiter
          Zero,                  \* what framer_init fills the buffer with
          Delimiter,             \* carriage return and line feed
          FRAME_BUFFER_SIZE,     \* 16 in the code
          Capacities,            \* output_capacity, as callers pass it
          MaxLine                \* bound of the model: the longest line sent

ConstantsOK == /\ FRAME_BUFFER_SIZE \in Nat \ {0}
               /\ Capacities \subseteq Nat
               /\ MaxLine \in Nat
               /\ Text \cap Delimiter = {}

VARIABLES buffer, length, discarding,
          result, output,        \* what the last call returned and wrote
          line, ended,           \* history: the line as sent, and whether the
                                 \* last byte ended it
          overflows              \* history: FRAME_OVERFLOW answers for line

framer == <<buffer, length, discarding>>
history == <<line, ended, overflows>>
vars == <<framer, result, output, history>>

Usable == FRAME_BUFFER_SIZE - 1      \* one place is kept for the final zero
Slots == 0 .. FRAME_BUFFER_SIZE - 1
Stored == [i \in 1 .. length |-> buffer[i - 1]]

is_delimiter(byte) == byte \in Delimiter

(* Zeroed by framer_init. *)
Init == /\ buffer = [i \in Slots |-> Zero] /\ length = 0 /\ discarding = FALSE
        /\ result = "FRAMER_WAITING" /\ output = <<>>
        /\ line = <<>> /\ ended = FALSE /\ overflows = 0

(* The line the next byte belongs to. *)
Sent == IF ended THEN <<>> ELSE line

Received(byte) ==
    /\ line' = IF is_delimiter(byte) THEN Sent ELSE Append(Sent, byte)
    /\ ended' = is_delimiter(byte)
    /\ overflows' = (IF ended THEN 0 ELSE overflows)
                    + (IF result' = "FRAMER_FRAME_OVERFLOW" THEN 1 ELSE 0)

Invalid(capacity) == /\ capacity = 0
                     /\ result' = "FRAMER_INVALID_ARGUMENT"
                     /\ UNCHANGED <<framer, output, history>>

Discard(byte) == /\ discarding
                 /\ discarding' = ~ is_delimiter(byte)
                 /\ result' = "FRAMER_WAITING"
                 /\ UNCHANGED <<buffer, length, output>>

EmptyLine(byte) == /\ ~ discarding /\ is_delimiter(byte) /\ length = 0
                   /\ result' = "FRAMER_WAITING"
                   /\ UNCHANGED <<framer, output>>

TooSmall(capacity) == length + 1 > capacity

Refuse(byte, capacity) == /\ ~ discarding /\ is_delimiter(byte) /\ length # 0
                          /\ TooSmall(capacity)
                          /\ length' = 0
                          /\ result' = "FRAMER_OUTPUT_TOO_SMALL"
                          /\ UNCHANGED <<buffer, discarding, output>>

Ready(byte, capacity) == /\ ~ discarding /\ is_delimiter(byte) /\ length # 0
                         /\ ~ TooSmall(capacity)
                         /\ output' = Stored
                         /\ length' = 0
                         /\ result' = "FRAMER_FRAME_READY"
                         /\ UNCHANGED <<buffer, discarding>>

(* Mutant: the place of the final zero is used. *)
Full_OffByOne == length > Usable

Full == length >= Usable

Overflow(byte) == /\ ~ discarding /\ ~ is_delimiter(byte) /\ Full
                  /\ length' = 0
                  /\ discarding' = TRUE
                  /\ result' = "FRAMER_FRAME_OVERFLOW"
                  /\ UNCHANGED <<buffer, output>>

Store(byte) == /\ ~ discarding /\ ~ is_delimiter(byte) /\ ~ Full
               /\ buffer' = [buffer EXCEPT ![length] = byte]
               /\ length' = length + 1
               /\ result' = "FRAMER_WAITING"
               /\ UNCHANGED <<discarding, output>>

framer_feed_byte(byte, capacity) ==
    \/ Invalid(capacity)
    \/ /\ capacity # 0
       /\ \/ Discard(byte)
          \/ EmptyLine(byte) \/ Refuse(byte, capacity) \/ Ready(byte, capacity)
          \/ Overflow(byte) \/ Store(byte)
       /\ Received(byte)

Next == \E byte \in Text \cup Delimiter, capacity \in Capacities :
            /\ is_delimiter(byte) \/ Len(Sent) < MaxLine
            /\ framer_feed_byte(byte, capacity)

Spec == Init /\ [][Next]_vars

-----------------------------------------------------------------------------
(* The stored bytes leave the place of the final zero free. *)
TypeOK == /\ length \in 0 .. Usable
          /\ discarding \in BOOLEAN
          /\ DOMAIN buffer = Slots

(* Every line gets the verdict its length deserves, whatever lines came      *)
(* before: it is discarded exactly when it is longer than the buffer, with   *)
(* one FRAME_OVERFLOW for the whole of it, and is otherwise held unchanged.  *)
LineIsKept ==
    /\ overflows = IF Len(line) > Usable THEN 1 ELSE 0
    /\ ~ ended => /\ discarding <=> Len(line) > Usable
                  /\ ~ discarding => Stored = line
    /\ ended => ~ discarding /\ length = 0

(* A frame is reported only at the end of a line, whole and unmixed with     *)
(* another.                                                                 *)
ReadyIsTheLine ==
    result = "FRAMER_FRAME_READY" => ended /\ output = line /\ line # <<>>

(* The delimiter of a line that fits the buffer is never swallowed: it is    *)
(* answered with the line or with OUTPUT_TOO_SMALL, which is the answer only *)
(* when the line and its final zero do not fit the caller's area.           *)
EndIsAnswered ==
    [][\A capacity \in Capacities \ {0}, byte \in Delimiter :
          framer_feed_byte(byte, capacity) /\ Len(Sent) \in 1 .. Usable
          => result' = IF Len(Sent) < capacity THEN "FRAMER_FRAME_READY"
                                               ELSE "FRAMER_OUTPUT_TOO_SMALL"]_vars
=============================================================================
