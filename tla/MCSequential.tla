---------------------------- MODULE MCSequential ----------------------------
(***************************************************************************)
(* The programs that take one piece of input after another, one a          *)
(* behaviour: the three that cut frames out of a byte stream (the          *)
(* byte-by-byte parser, the TCP decoder, the line framer), the functions   *)
(* that judge a frame that has arrived, and the binary searches.           *)
(***************************************************************************)
EXTENDS FrameStreamParser

CONSTANTS Base, MaxPayload, MaxChunk, MaxStream,
          Text, Zero, Delimiter, FRAME_BUFFER_SIZE, Capacities, MaxLine,
          Radix, UINT_MAX, MaxDigits, CrcBytes, MaxData, Patterns,
          MaxSize, Elements

VARIABLES chosen,
          d_buffer, d_looping, d_ok, d_frames, d_stream, d_sent,
          l_buffer, l_length, l_discarding, l_result, l_output,
          l_line, l_ended, l_overflows,
          c_check, c_input, c_k, c_value, c_meant,
          c_answered, c_accepted, c_result,
          search, array, size, target, null, left, right, result, finished

tcp == <<d_buffer, d_looping, d_ok, d_frames, d_stream, d_sent>>
lines == <<l_buffer, l_length, l_discarding, l_result, l_output,
           l_line, l_ended, l_overflows>>
judge == <<c_check, c_input, c_k, c_value, c_meant, c_answered, c_accepted, c_result>>
lookup == <<search, array, size, target, null, left, right, result, finished>>

Decoder == INSTANCE LengthFrameDecoder
              WITH buffer_ <- d_buffer, looping <- d_looping, ok <- d_ok,
                   frames <- d_frames, stream <- d_stream, sent <- d_sent
Framer == INSTANCE StreamFramer
             WITH buffer <- l_buffer, length <- l_length,
                  discarding <- l_discarding, result <- l_result,
                  output <- l_output, line <- l_line, ended <- l_ended,
                  overflows <- l_overflows
Checks == INSTANCE FrameChecks
             WITH MAX_LEN <- MAX_PAYLOAD,
                  check <- c_check, input <- c_input, k <- c_k, value <- c_value,
                  meant <- c_meant, answered <- c_answered,
                  accepted <- c_accepted, result <- c_result
Search == INSTANCE BinarySearch

ASSUME StreamsAssumption == Decoder!ConstantsOK /\ Framer!ConstantsOK
ASSUME ChecksAssumption == Checks!ConstantsOK
ASSUME SearchAssumption == Search!ConstantsOK

SuiteInit ==
    /\ chosen \in {"parser", "decoder", "framer", "checks", "search"}
    /\ Init /\ Decoder!Init /\ Framer!Init
    /\ chosen # "parser" => \A i \in Slots : payload[i] = 0
    /\ IF chosen = "checks" THEN Checks!Init
       ELSE c_check = "frame_validate" /\ c_input = <<>> /\ Checks!Start
    /\ IF chosen = "search" THEN TRUE
       ELSE /\ search = "first_index" /\ null = TRUE /\ size = -1
            /\ target = CHOOSE e \in Elements : TRUE
    /\ Search!Init

SuiteNext ==
    /\ UNCHANGED chosen
    /\ \/ chosen = "parser" /\ Next
          /\ UNCHANGED <<tcp, lines, judge, lookup>>
       \/ chosen = "decoder" /\ Decoder!Next
          /\ UNCHANGED <<vars, lines, judge, lookup>>
       \/ chosen = "framer" /\ Framer!Next
          /\ UNCHANGED <<vars, tcp, judge, lookup>>
       \/ chosen = "checks" /\ Checks!Next
          /\ UNCHANGED <<vars, tcp, lines, lookup>>
       \/ chosen = "search" /\ Search!Next
          /\ UNCHANGED <<vars, tcp, lines, judge>>

SuiteSpec == SuiteInit /\ [][SuiteNext]_<<chosen, vars, tcp, lines, judge, lookup>>

-----------------------------------------------------------------------------
(* No byte is ever stored outside a buffer, whatever comes down the line,  *)
(* and the TCP buffer stays below one longest frame.                       *)
BuffersFit == TypeOK /\ Decoder!TypeOK /\ Framer!TypeOK

(* What is delivered was sent: a frame with its checksum, the next frame   *)
(* of the stream however it is cut into chunks, a line unmixed with others. *)
FramesAreWhole ==
    AcceptedIsFrame /\ Decoder!StreamIsFrames /\ Framer!ReadyIsTheLine

(* What was sent is delivered: a frame that begins with the byte that      *)
(* breaks another, every frame the buffer holds, every line that fits; and *)
(* each delimiter of such a line gets its answer.                          *)
NothingIsMissed ==
    /\ [](/\ FrameIsNotMissed /\ Decoder!NothingCompleteIsHeld
         /\ Framer!LineIsKept)
    /\ Framer!EndIsAnswered

(* A complete frame is judged good exactly when it is what its sender      *)
(* sealed, with the number and the length it was given.                    *)
JudgesAreRight == Checks!AcceptedIsRight /\ Checks!GoodIsAccepted

(* A search that ends gives the first, the last or any index of its target, *)
(* as it promises, and -1 only when there is none; and it ends: each       *)
(* iteration reads inside the array and leaves less to search.             *)
SearchesAreRight ==
    [](Search!ResultIsRight /\ Search!ReadsInside) /\ Search!AlwaysShrinks
=============================================================================
