------------------------------ MODULE FrameChecks ------------------------------
(***************************************************************************)
(* The functions that judge a complete frame:                              *)
(*   frame_validate        tests/day28_frame_validate.c, HEAD LEN PAYLOAD  *)
(*                         CHECKSUM TAIL with an exclusive-or checksum;    *)
(*   parse_command_frame   seventh_stage/day09/command_frame_parser.c, a   *)
(*                         line "SEQ:<number> CMD:HAND_<command>";         *)
(*   frame_crc_valid       seventh_stage/day12/crc16_modbus.c, a payload   *)
(*                         followed by its CRC-16/MODBUS.                  *)
(* A behaviour is one call, a step one turn of its loop.  Bytes of the     *)
(* first are numbers, those of the last are the sets of their one bits; a  *)
(* line is a record of its parts.  NULL pointers and frames shorter than a *)
(* CRC, which are refused at once, are left out.                           *)
(***************************************************************************)
EXTENDS Integers, SequencesExt, Bytes

CONSTANTS Byte, FRAME_HEAD, FRAME_TAIL,
          MAX_LEN,              \* 32 in the code
          Radix, UINT_MAX,      \* 10 and 2^32 - 1 in the code
          MaxDigits,            \* bound: the longest number
          CrcBytes, MaxData,    \* bound: the payloads that are sealed by a CRC
          Patterns              \* bound: what up to sixteen bits in a row suffer

ConstantsOK == /\ Byte \subseteq Nat /\ MAX_LEN \in Nat
               /\ MaxDigits \in Nat /\ MaxData \in Nat
               /\ Radix \in Nat \ {0} /\ UINT_MAX \in Nat /\ Radix <= UINT_MAX + 1
               /\ CrcBytes \subseteq SUBSET (0 .. 7)
               /\ Patterns \subseteq SUBSET (0 .. 15)

VARIABLES check, input,
          k,                    \* payload bytes, digits or bits taken so far
          value,                \* checksum, parsed_seq or crc
          meant,                \* history: the number the digits spell so far,
                                \* or the CRC of the bytes before the damage
          answered, accepted,
          result                \* what the output parameters point to

vars == <<check, input, k, value, meant, answered, accepted, result>>

Unset == [len |-> -1]           \* what they pointed to before the call

Commands == {"OPEN", "GRAB", "RELEASE", "STOP"}
Ends == {"", "\n", "\r\n"}

Lines == [prefix : BOOLEAN, digits : BoundedSeq(0 .. Radix - 1, MaxDigits),
          middle : BOOLEAN, command : Commands \cup {"other"},
          end : Ends \cup {"\r", "other"}]

Differ(S, T) == (S \ T) \cup (T \ S)

Bits(data) == 8 * Len(data)

(* A payload and the CRC the sender appends, with a pattern of damage.      *)
Sent == {[data |-> data, flipped |-> {first + b : b \in p} \cap 0 .. Bits(data) + 15] :
            data \in BoundedSeq(CrcBytes, MaxData), p \in Patterns,
            first \in 0 .. 8 * MaxData + 15}

(* What happened to the bits from, from + 1, ... *)
Damage(from, width) == {b - from : b \in input.flipped \cap from .. from + width - 1}

Start == /\ k = 0 /\ meant = IF check = "frame_crc_valid" THEN 0 .. 15 ELSE 0
         /\ value = IF check = "frame_validate" /\ Len(input) >= 2 THEN input[2] ELSE meant
         /\ answered = FALSE /\ accepted = FALSE /\ result = Unset

Init == /\ \/ check = "frame_validate" /\ input \in BoundedSeq(Byte, MAX_LEN + 5)
           \/ check = "parse_command_frame" /\ input \in Lines
           \/ check = "frame_crc_valid" /\ input \in Sent
        /\ Start

Judging(function) == check = function /\ ~answered /\ UNCHANGED <<check, input>>

Turn == k' = k + 1 /\ UNCHANGED <<answered, accepted, result>>

Return(verdict, output) == /\ answered' = TRUE /\ accepted' = verdict
                           /\ result' = IF verdict THEN output ELSE result
                           /\ UNCHANGED <<k, value>>

-----------------------------------------------------------------------------
HeaderGood == /\ Len(input) >= 4
              /\ input[1] = FRAME_HEAD
              /\ input[2] <= MAX_LEN
              /\ Len(input) = input[2] + 4
              /\ input[input[2] + 4] = FRAME_TAIL

SumPayload == /\ Judging("frame_validate") /\ HeaderGood /\ k < input[2]
              /\ value' = Xor(value, input[k + 3])
              /\ Turn /\ UNCHANGED meant

Validate == /\ Judging("frame_validate") /\ (HeaderGood => k = input[2])
            /\ Return(HeaderGood /\ value = input[k + 3], [len |-> input[2]])
            /\ UNCHANGED meant

-----------------------------------------------------------------------------
(* Mutant: the digit is forgotten in the test. *)
Overflows_Late(seq, digit) == seq > UINT_MAX \div Radix

Overflows(seq, digit) == seq > (UINT_MAX - digit) \div Radix

Digit == input.digits[k + 1]

AtDigit == /\ Judging("parse_command_frame") /\ input.prefix
           /\ k < Len(input.digits)
           /\ meant' = meant * Radix + Digit

TakeDigit == /\ AtDigit /\ ~Overflows(value, Digit)
             /\ value' = (value * Radix + Digit) % (UINT_MAX + 1)
             /\ Turn

DigitTooMuch == /\ AtDigit /\ Overflows(value, Digit)
                /\ Return(FALSE, Unset)

WellFormed == /\ input.prefix /\ input.middle
              /\ input.command \in Commands /\ input.end \in Ends

Parse == /\ Judging("parse_command_frame")
         /\ (input.prefix => k = Len(input.digits))
         /\ Return(WellFormed /\ k > 0 /\ value # 0,
                   [seq |-> value, command |-> input.command])
         /\ UNCHANGED meant

-----------------------------------------------------------------------------
Polynomial == {0, 13, 15}       \* 0xA001

Shifted(crc) == LET half == {b - 1 : b \in crc \ {0}}
                IN  IF 0 \in crc THEN Differ(half, Polynomial) ELSE half

(* A byte is mixed in before the first of its eight bits. *)
Mixed(crc, byte) == IF k % 8 = 0 THEN Differ(crc, byte) ELSE crc

ShiftBit == /\ Judging("frame_crc_valid") /\ k < Bits(input.data)
            /\ LET byte == input.data[(k \div 8) + 1] IN
               /\ value' = Shifted(Mixed(value, Differ(byte, Damage(k, 8))))
               /\ meant' = Shifted(Mixed(meant, byte))
            /\ Turn

(* The last two bytes are the CRC as it arrives, the low byte first. *)
expected_crc == Differ(meant, Damage(k, 16))

Verify == /\ Judging("frame_crc_valid") /\ k = Bits(input.data)
          /\ Return(value = expected_crc, result)
          /\ UNCHANGED meant

Next == \/ SumPayload \/ Validate
        \/ TakeDigit \/ DigitTooMuch \/ Parse
        \/ ShiftBit \/ Verify
        \/ answered /\ UNCHANGED vars

Spec == Init /\ [][Next]_vars

-----------------------------------------------------------------------------
IsFrame(f) ==
    LET n == Len(f) - 4 IN
    /\ n \in 0 .. MAX_LEN
    /\ f[1] = FRAME_HEAD /\ f[2] = n /\ f[n + 4] = FRAME_TAIL
    /\ f[n + 3] = ChecksumOf(f, n)

(* An accepted frame is what the outputs say: a frame with its checksum and *)
(* as many payload bytes as its length, the number that was written and not *)
(* that number modulo the width of an int; and no frame is accepted that    *)
(* damage to up to sixteen bits in a row has hit.  A rejected frame leaves   *)
(* the outputs alone.                                                       *)
AcceptedIsRight ==
    answered =>
        CASE ~accepted -> result = Unset
          [] accepted /\ check = "frame_validate" ->
                IsFrame(input) /\ result.len = Len(input) - 4
          [] accepted /\ check = "parse_command_frame" ->
                /\ WellFormed /\ k = Len(input.digits)
                /\ result = [seq |-> meant, command |-> input.command] /\ meant # 0
          [] accepted /\ check = "frame_crc_valid" -> input.flipped = {}

(* No good frame is rejected: a number up to the very largest, a payload    *)
(* up to the longest, a frame that arrived undamaged.                       *)
GoodIsAccepted ==
    answered /\ ~accepted =>
        CASE check = "frame_validate" -> ~IsFrame(input)
          [] check = "parse_command_frame" ->
                \/ ~WellFormed
                \/ meant > UINT_MAX
                \/ k = Len(input.digits) /\ meant = 0
          [] check = "frame_crc_valid" -> input.flipped # {}
=============================================================================
