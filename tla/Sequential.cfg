\* Bytes of two bits for the parser and of one for the decoder, so that
\* lengths, checksums and delimiters also occur inside payloads.  Numbers of
\* four bits in base three; the CRC has its real width.
\* Arrays of up to five elements.
CONSTANTS
    Byte = {0, 1, 2, 3}
    FRAME_HEAD = 3
    FRAME_TAIL = 2
    MAX_PAYLOAD = 2
    Base = 2
    MaxPayload = 2
    MaxChunk = 7
    MaxStream = 10
    Text = {a, b}
    Delimiter = {CR, LF}
    Zero = Zero
    FRAME_BUFFER_SIZE = 4
    Capacities = {0, 2, 3, 4}
    MaxLine = 5
    Radix = 3
    UINT_MAX = 15
    MaxDigits = 4
    CrcBytes = {{}, {0, 4, 5}}
    MaxData = 2
    Patterns = {{}, {0}, {0, 1}, {0, 8}, {0, 15}, {0, 3, 7, 13},
                {0, 1, 2, 3, 4, 5, 6, 7, 8, 9, 10, 11, 12, 13, 14, 15}}
    MaxSize = 5
    Elements = {1, 2, 3}
SPECIFICATION SuiteSpec
INVARIANTS
    BuffersFit
    FramesAreWhole
    JudgesAreRight
PROPERTIES
    NothingIsMissed
    SearchesAreRight
