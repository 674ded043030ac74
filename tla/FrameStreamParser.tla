--------------------------- MODULE FrameStreamParser ---------------------------
(***************************************************************************)
(* seventh_stage/day07/frame_stream_parser.c: the byte-by-byte parser of   *)
(* HEAD LEN PAYLOAD CHECKSUM TAIL.  Bytes may be anything, as on a noisy   *)
(* line; a byte that does not fit makes the parser look for a head again,  *)
(* starting with that byte.                                                *)
(*                                                                         *)
(* The default case of the switch needs a state outside the enum, which no *)
(* operation stores; it is not modelled.                                   *)
(***************************************************************************)
EXTENDS Integers, Sequences, Bytes

CONSTANTS Byte,                 \* 0 .. 255 in the code
          FRAME_HEAD, FRAME_TAIL,
          MAX_PAYLOAD           \* 16 in the code

ASSUME BytesAssumption == /\ Byte \subseteq Nat
                          /\ FRAME_HEAD \in Byte /\ FRAME_TAIL \in Byte
                          /\ FRAME_HEAD > MAX_PAYLOAD
                          /\ MAX_PAYLOAD \in Nat

VARIABLES state, length, index, checksum, payload,
          completed,    \* what the last parser_feed returned
          recent        \* history: the last bytes, and whether each one was
                        \* free: read for a head, or rejected by a frame

parser == <<state, length, index, checksum, payload>>
vars == <<parser, completed, recent>>

Slots == 0 .. MAX_PAYLOAD - 1
LongestFrame == MAX_PAYLOAD + 4

(* parser_init does not clear the payload. *)
Init == /\ state = "WAIT_HEAD"
        /\ checksum = 0 /\ index = 0 /\ length = 0
        /\ payload \in [Slots -> Byte]
        /\ completed = FALSE
        /\ recent = <<>>

(* A byte is read, and the result of the call noted. *)
Read(byte, free, result) ==
    LET seen == Append(recent, [byte |-> byte, free |-> free]) IN
    /\ recent' = IF Len(seen) > LongestFrame THEN Tail(seen) ELSE seen
    /\ completed' = result

(* Mutant: the offending byte is never taken for a head. *)
Recover_Skips(byte) == /\ length' = 0 /\ index' = 0 /\ checksum' = 0
                       /\ state' = "WAIT_HEAD"
                       /\ UNCHANGED payload

Recover(byte) == /\ length' = 0 /\ index' = 0 /\ checksum' = 0
                 /\ state' = IF byte = FRAME_HEAD THEN "WAIT_LEN" ELSE "WAIT_HEAD"
                 /\ UNCHANGED payload

Head_(byte) == /\ state = "WAIT_HEAD"
               /\ state' = IF byte = FRAME_HEAD THEN "WAIT_LEN" ELSE state
               /\ UNCHANGED <<length, index, checksum, payload>>
               /\ Read(byte, TRUE, FALSE)

LenTooLong(byte) == /\ state = "WAIT_LEN" /\ byte > MAX_PAYLOAD
                    /\ Recover(byte)
                    /\ Read(byte, TRUE, FALSE)

LenStored(byte) == /\ state = "WAIT_LEN" /\ byte <= MAX_PAYLOAD
                   /\ length' = byte /\ index' = 0 /\ checksum' = byte
                   /\ state' = IF byte = 0 THEN "WAIT_CHECKSUM" ELSE "WAIT_PAYLOAD"
                   /\ UNCHANGED payload
                   /\ Read(byte, FALSE, FALSE)

Complete(i) == i = length

Payload(byte) == /\ state = "WAIT_PAYLOAD"
                 /\ payload' = [payload EXCEPT ![index] = byte]
                 /\ checksum' = Xor(checksum, byte)
                 /\ index' = index + 1
                 /\ state' = IF Complete(index + 1) THEN "WAIT_CHECKSUM" ELSE state
                 /\ UNCHANGED length
                 /\ Read(byte, FALSE, FALSE)

ChecksumGood(byte) == /\ state = "WAIT_CHECKSUM" /\ byte = checksum
                      /\ state' = "WAIT_TAIL"
                      /\ UNCHANGED <<length, index, checksum, payload>>
                      /\ Read(byte, FALSE, FALSE)

ChecksumBad(byte) == /\ state = "WAIT_CHECKSUM" /\ byte # checksum
                     /\ Recover(byte)
                     /\ Read(byte, TRUE, FALSE)

TailGood(byte) == /\ state = "WAIT_TAIL" /\ byte = FRAME_TAIL
                  /\ state' = "WAIT_HEAD"
                  /\ UNCHANGED <<length, index, checksum, payload>>
                  /\ Read(byte, FALSE, TRUE)

TailBad(byte) == /\ state = "WAIT_TAIL" /\ byte # FRAME_TAIL
                 /\ Recover(byte)
                 /\ Read(byte, TRUE, FALSE)

parser_feed(byte) == \/ Head_(byte)
                     \/ LenTooLong(byte) \/ LenStored(byte)
                     \/ Payload(byte)
                     \/ ChecksumGood(byte) \/ ChecksumBad(byte)
                     \/ TailGood(byte) \/ TailBad(byte)

Next == \E byte \in Byte : parser_feed(byte)

Spec == Init /\ [][Next]_vars

-----------------------------------------------------------------------------
TypeOK == /\ state \in {"WAIT_HEAD", "WAIT_LEN", "WAIT_PAYLOAD",
                        "WAIT_CHECKSUM", "WAIT_TAIL"}
          /\ length \in 0 .. MAX_PAYLOAD
          /\ index \in 0 .. length
          /\ state = "WAIT_PAYLOAD" => index \in Slots
          /\ DOMAIN payload = Slots

(* The last n bytes are one well-formed frame. *)
LastBytes(n) == [i \in 1 .. n |-> recent[Len(recent) - n + i].byte]

IsFrame(f) ==
    LET n == Len(f) - 4 IN
    /\ n >= 0
    /\ f[1] = FRAME_HEAD /\ f[2] = n /\ f[Len(f)] = FRAME_TAIL
    /\ f[n + 3] = ChecksumOf(f, n)

(* When parser_feed answers true, the bytes just read are a frame with a   *)
(* right checksum, and length and payload hold its contents, whatever      *)
(* broken frames came before.                                              *)
AcceptedIsFrame ==
    completed => /\ Len(recent) >= length + 4
                 /\ IsFrame(LastBytes(length + 4))
                 /\ \A i \in 1 .. length : payload[i - 1] = LastBytes(length + 4)[i + 2]

(* A frame that begins while the parser waits for a head, or with the very *)
(* byte that breaks another frame at its length, checksum or tail, is never *)
(* missed: its last byte completes it.                                      *)
FrameIsNotMissed ==
    \A n \in 4 .. Len(recent) :
        IsFrame(LastBytes(n)) /\ recent[Len(recent) - n + 1].free => completed
=============================================================================
