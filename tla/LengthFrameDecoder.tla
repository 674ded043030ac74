--------------------------- MODULE LengthFrameDecoder ---------------------------
(***************************************************************************)
(* seventh_stage/day10/tcp_frame_decoder.cpp: frames with a two-byte       *)
(* big-endian length, cut out of a TCP stream whose chunks need not respect *)
(* the frames.  One feed appends a chunk and delivers every frame that is   *)
(* complete.                                                                *)
(***************************************************************************)
EXTENDS Integers, Sequences, SequencesExt

CONSTANTS Base,          \* the values of a byte; 256 in the code
          MaxPayload,    \* 32 in the code
          MaxChunk,      \* bound of the model: the bytes of one feed
          MaxStream      \* bound of the model: the bytes between two resets

ConstantsOK == /\ Base \in Nat \ {0} /\ MaxPayload \in 1 .. Base * Base - 1
               /\ MaxChunk \in Nat /\ MaxStream \in Nat

VARIABLES buffer_,
          looping,       \* is the loop of a feed running?
          ok,            \* what the last feed returned; TRUE while one runs
          frames,        \* the frames delivered since the buffer was last reset
          stream, sent   \* history: the bytes fed since then, and frames as
                         \* their sender encodes them

vars == <<buffer_, looping, ok, frames, stream, sent>>

WireByte == 0 .. Base - 1
HeaderSize == 2

(* Mutant: the low byte first. *)
payload_len_Little(b) == b[2] * Base + b[1]

payload_len(b) == b[1] * Base + b[2]
frame_size(b) == HeaderSize + payload_len(b)

BadLength(b) == payload_len(b) = 0 \/ payload_len(b) > MaxPayload

Incomplete(b) == Len(b) < frame_size(b)

(* External: a frame as its sender encodes it. *)
Wire(frame) == <<Len(frame) \div Base, Len(frame) % Base>> \o frame

Init == /\ buffer_ = <<>> /\ looping = FALSE /\ ok = TRUE
        /\ frames = <<>> /\ stream = <<>> /\ sent = <<>>

(* A call of feed that does not fail at once.  What was noted of the stream *)
(* restarts with the first call after a refusal.                           *)
Called(chunk) ==
    LET since(x) == IF ok THEN x ELSE <<>> IN
    /\ ~looping
    /\ frames' = since(frames) /\ sent' = since(sent)
    /\ stream' = since(stream) \o chunk
    /\ ok' = TRUE

FeedChunk(chunk) == /\ chunk # <<>>
                    /\ Called(chunk)
                    /\ Len(stream') <= MaxStream
                    /\ buffer_' = buffer_ \o chunk
                    /\ looping' = TRUE

FeedNothing == Called(<<>>) /\ UNCHANGED <<buffer_, looping>>

(* The buffer is cleared. *)
Reset == /\ buffer_' = <<>>
         /\ frames' = <<>> /\ stream' = <<>> /\ sent' = <<>>

(* A null pointer with a size. *)
FeedNull == /\ ~looping /\ Reset /\ ok' = FALSE /\ UNCHANGED looping

ResetCall == ~looping /\ Reset /\ UNCHANGED <<looping, ok>>

(* One iteration of the loop of feed: a frame is delivered, ... *)
Deliver ==
    LET frame == SubSeq(buffer_, HeaderSize + 1, frame_size(buffer_)) IN
    /\ looping /\ Len(buffer_) >= HeaderSize
    /\ ~BadLength(buffer_) /\ ~Incomplete(buffer_)
    /\ frames' = Append(frames, frame) /\ sent' = sent \o Wire(frame)
    /\ buffer_' = SubSeq(buffer_, frame_size(buffer_) + 1, Len(buffer_))
    /\ UNCHANGED <<looping, ok, stream>>

(* ... or the length is refused and the buffer cleared, ... *)
Refuse == /\ looping /\ Len(buffer_) >= HeaderSize /\ BadLength(buffer_)
          /\ buffer_' = <<>>
          /\ ok' = FALSE
          /\ looping' = FALSE
          /\ UNCHANGED <<frames, stream, sent>>

(* ... or the bytes of a whole frame are not there yet. *)
Wait == /\ looping
        /\ Len(buffer_) >= HeaderSize => ~BadLength(buffer_) /\ Incomplete(buffer_)
        /\ looping' = FALSE
        /\ UNCHANGED <<buffer_, ok, frames, stream, sent>>

Next == \/ \E chunk \in BoundedSeq(WireByte, MaxChunk) : FeedChunk(chunk)
        \/ FeedNothing \/ FeedNull
        \/ Deliver \/ Refuse \/ Wait
        \/ ResetCall

Spec == Init /\ [][Next]_vars

-----------------------------------------------------------------------------
(* Only payloads a sender may send are delivered, and between two calls the *)
(* buffer stays below one longest frame, however the stream is cut.         *)
TypeOK == /\ ok \in BOOLEAN /\ looping \in BOOLEAN
          /\ \A i \in DOMAIN frames : Len(frames[i]) \in 1 .. MaxPayload
          /\ ~looping => Len(buffer_) < HeaderSize + MaxPayload
          /\ \A i \in DOMAIN buffer_ : buffer_[i] \in WireByte

(* Sticky and split packets: the bytes received are, in order, the encodings *)
(* of the frames delivered and then the buffer; after a refusal, the bytes  *)
(* after the delivered frames start with a header no sender writes.         *)
StreamIsFrames ==
    IF ok THEN stream = sent \o buffer_
    ELSE /\ buffer_ = <<>>
         /\ IsPrefix(sent, stream)
         /\ stream # <<>> =>
              LET bad == SubSeq(stream, Len(sent) + 1, Len(stream)) IN
              /\ Len(bad) >= HeaderSize
              /\ bad[1] * Base + bad[2] \notin 1 .. MaxPayload

(* No frame waits for bytes of the next one: what the buffer holds is a      *)
(* proper part of a frame.                                                  *)
NothingCompleteIsHeld ==
    ~looping /\ Len(buffer_) >= HeaderSize =>
        /\ buffer_[1] * Base + buffer_[2] \in 1 .. MaxPayload
        /\ Len(buffer_) < HeaderSize + buffer_[1] * Base + buffer_[2]
=============================================================================
