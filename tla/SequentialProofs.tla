--------------------------- MODULE SequentialProofs ---------------------------
(***************************************************************************)
(* Proofs about programs that answer one call after another: the three     *)
(* that cut frames out of a byte stream, for every size of their buffers   *)
(* and every stream, the judges of a frame, for every frame and all damage *)
(* to sixteen bits in a row, and the binary searches, for every array.  In *)
(* a suite behaviour each of them moves or stands still, so each is proved *)
(* by itself and the suite's properties follow.                            *)
(*                                                                         *)
(* Current says that the parser's variables describe the last bytes read,  *)
(* Tracking that a frame begun by a free head is the one it is in; FramerInv *)
(* and DecoderInv that what is held and what was delivered make up what    *)
(* came in; CheckInv that a checksum, a number and a CRC are those of what *)
(* was read, but for the damage; SearchInv what a search has ruled out.    *)
(***************************************************************************)
EXTENDS MCSequential, SequenceTheorems, WellFoundedInduction, TLAPS

-----------------------------------------------------------------------------
(* The byte-by-byte parser *)

Received == [byte : Byte, free : BOOLEAN]

(* How many bytes of a frame the parser has taken. *)
Position == IF state = "WAIT_HEAD" THEN 0
            ELSE IF state = "WAIT_LEN" THEN 1
            ELSE IF state = "WAIT_PAYLOAD" THEN 2 + index
            ELSE IF state = "WAIT_CHECKSUM" THEN 2 + length
            ELSE 3 + length

(* Byte j of the last k. *)
ByteOf(k, j) == recent[Len(recent) - k + j].byte

(* g holds the sums of the first 0, 1, ... n payload bytes of the last k    *)
(* bytes, which announce len of them.                                       *)
Sums(g, k, len, n) ==
    /\ g[0] = len
    /\ \A i \in 1 .. n : g[i] = Xor(g[i - 1], ByteOf(k, i + 2))

ParserTyping == /\ TypeOK
                /\ payload \in [Slots -> Byte]
                /\ state = "WAIT_PAYLOAD" => index < length
                /\ state \in {"WAIT_CHECKSUM", "WAIT_TAIL"} => index = length
                /\ recent \in Seq(Received) /\ Len(recent) <= LongestFrame

(* The last k bytes are the part of a frame the parser holds.               *)
InFrame(k) ==
    /\ k <= Len(recent)
    /\ k >= 1 => ByteOf(k, 1) = FRAME_HEAD
    /\ k >= 2 =>
          /\ ByteOf(k, 2) = length
          /\ \A i \in 1 .. index : payload[i - 1] = ByteOf(k, i + 2)
          /\ \E g : Sums(g, k, length, index) /\ checksum = g[index]
    /\ state = "WAIT_TAIL" => ByteOf(k, length + 3) = checksum

Current == \A k \in Nat : Position = k => InFrame(k)

(* Did the last n bytes begin with a head that was free? *)
Started(n) == recent[Len(recent) - n + 1].free /\ ByteOf(n, 1) = FRAME_HEAD

(* The first part of a frame that began with a free head is the one the     *)
(* parser is in.                                                            *)
Tracking ==
    \A n \in 1 .. Len(recent) : Started(n) =>
        /\ n = 1 => Position = 1
        /\ n >= 2 /\ ByteOf(n, 2) <= MAX_PAYLOAD =>
              /\ n <= ByteOf(n, 2) + 2 => Position = n
              /\ n = ByteOf(n, 2) + 3 =>
                    \E g : /\ Sums(g, n, ByteOf(n, 2), ByteOf(n, 2))
                           /\ ByteOf(n, n) = g[ByteOf(n, 2)] => Position = n

ParserInv == ParserTyping /\ Current /\ Tracking /\ AcceptedIsFrame /\ FrameIsNotMissed

(* One more byte at the end; those before move on by one place. *)
Shifted(byte, free) ==
    /\ recent' \in Seq(Received) /\ Len(recent') \in Nat
    /\ Len(recent') >= 1 /\ Len(recent') <= LongestFrame
    /\ Len(recent') <= Len(recent) + 1
    /\ recent'[Len(recent')] = [byte |-> byte, free |-> free]
    /\ \A n \in 0 .. Len(recent) : n < LongestFrame =>
          /\ n + 1 <= Len(recent')
          /\ \A j \in 1 .. n : recent'[Len(recent') - (n + 1) + j]
                                 = recent[Len(recent) - n + j]

LEMMA ParserConstants == /\ Byte \subseteq Nat /\ MAX_PAYLOAD \in Nat
                         /\ FRAME_HEAD \in Byte
                         /\ LongestFrame \in Nat /\ LongestFrame = MAX_PAYLOAD + 4
  BY BytesAssumption DEF BytesAssumption, LongestFrame

LEMMA ReadShifts ==
    ASSUME ParserTyping, NEW byte \in Byte, NEW free \in BOOLEAN, NEW answer,
           Read(byte, free, answer)
    PROVE  Shifted(byte, free)
<1> DEFINE new == [byte |-> byte, free |-> free]
           seen == Append(recent, new)
<1>1. /\ recent \in Seq(Received) /\ Len(recent) \in Nat /\ Len(recent) <= LongestFrame
      /\ new \in Received
  BY DEF ParserTyping, Received
<1>2. recent' = IF Len(seen) > LongestFrame THEN Tail(seen) ELSE seen
  BY DEF Read
<1>3. /\ seen \in Seq(Received) /\ Len(seen) = Len(recent) + 1
      /\ seen[Len(recent) + 1] = new
      /\ \A j \in 1 .. Len(recent) : seen[j] = recent[j]
  BY <1>1
<1>4. new = [byte |-> byte, free |-> free]
  OBVIOUS
<1> HIDE DEF new, seen
<1>5. CASE Len(seen) > LongestFrame
  <2>1. Len(recent) = LongestFrame /\ recent' = Tail(seen)
    BY <1>1, <1>2, <1>3, <1>5, ParserConstants
  <2>2. /\ recent' \in Seq(Received) /\ Len(recent') = Len(recent)
        /\ \A j \in 1 .. Len(recent) : recent'[j] = seen[j + 1]
    <3>1. Len(seen) >= 1 /\ seen # <<>>
      BY <1>1, <1>3
    <3>2. /\ Tail(seen) \in Seq(Received) /\ Len(Tail(seen)) = Len(seen) - 1
          /\ \A j \in 1 .. Len(seen) - 1 : Tail(seen)[j] = seen[j + 1]
      BY <1>3, <3>1
    <3>3. QED
      BY <1>1, <1>3, <2>1, <3>2
  <2>3. recent'[Len(recent)] = new
    BY <1>1, <1>3, <2>1, <2>2, ParserConstants
  <2>4. ASSUME NEW n \in 0 .. Len(recent), n < LongestFrame, NEW j \in 1 .. n
        PROVE  recent'[Len(recent') - (n + 1) + j] = recent[Len(recent) - n + j]
    <3>1. /\ Len(recent) - (n + 1) + j \in 1 .. Len(recent)
          /\ Len(recent) - n + j \in 1 .. Len(recent)
          /\ (Len(recent) - (n + 1) + j) + 1 = Len(recent) - n + j
      BY <1>1, <2>1, <2>4
    <3>2. recent'[Len(recent) - (n + 1) + j] = seen[Len(recent) - n + j]
      BY <2>2, <3>1
    <3>3. QED
      BY <1>3, <2>2, <3>1, <3>2
  <2>5. /\ Len(recent') \in Nat /\ Len(recent') >= 1 /\ Len(recent') <= LongestFrame
        /\ Len(recent') <= Len(recent) + 1
        /\ \A n \in 0 .. Len(recent) : n < LongestFrame => n + 1 <= Len(recent')
    BY <1>1, <2>1, <2>2, ParserConstants
  <2>6. recent' \in Seq(Received) /\ recent'[Len(recent')] = [byte |-> byte, free |-> free]
    BY <1>4, <2>2, <2>3
  <2>7. QED
    BY <2>4, <2>5, <2>6 DEF Shifted
<1>6. CASE ~(Len(seen) > LongestFrame)
  <2>1. /\ recent' = seen /\ Len(recent') = Len(recent) + 1
        /\ Len(recent') <= LongestFrame
    BY <1>1, <1>2, <1>3, <1>6, ParserConstants
  <2>2. ASSUME NEW n \in 0 .. Len(recent), NEW j \in 1 .. n
        PROVE  recent'[Len(recent') - (n + 1) + j] = recent[Len(recent) - n + j]
    <3>1. /\ Len(recent') - (n + 1) + j = Len(recent) - n + j
          /\ Len(recent) - n + j \in 1 .. Len(recent)
      BY <1>1, <2>1
    <3>2. QED
      BY <1>3, <2>1, <3>1
  <2>3. /\ Len(recent') \in Nat /\ Len(recent') >= 1 /\ Len(recent') <= LongestFrame
        /\ Len(recent') <= Len(recent) + 1
        /\ \A n \in 0 .. Len(recent) : n < LongestFrame => n + 1 <= Len(recent')
    BY <1>1, <2>1, ParserConstants
  <2>4. recent' \in Seq(Received) /\ recent'[Len(recent')] = [byte |-> byte, free |-> free]
    BY <1>3, <1>4, <2>1
  <2>5. QED
    BY <2>2, <2>3, <2>4 DEF Shifted
<1>7. QED
  BY <1>5, <1>6

(* The bytes a frame had before the last one was read are still there.      *)
LEMMA BytesMove ==
    ASSUME ParserTyping, NEW byte \in Byte, NEW free \in BOOLEAN, Shifted(byte, free)
    PROVE  /\ \A n \in 0 .. Len(recent) : n < LongestFrame =>
                 /\ n + 1 <= Len(recent')
                 /\ \A j \in 1 .. n : ByteOf(n + 1, j)' = ByteOf(n, j)
                 /\ n >= 1 => (Started(n + 1)' <=> Started(n))
           /\ \A n \in 1 .. Len(recent') : ByteOf(n, n)' = byte
           /\ Started(1)' => free
<1>0. Len(recent) \in Nat /\ Len(recent') \in Nat /\ LongestFrame \in Nat
  BY ParserConstants DEF ParserTyping, Shifted
<1>1. ASSUME NEW n \in 0 .. Len(recent), n < LongestFrame
      PROVE  /\ n + 1 <= Len(recent')
             /\ \A j \in 1 .. n : /\ recent'[Len(recent') - (n + 1) + j]
                                       = recent[Len(recent) - n + j]
                                  /\ ByteOf(n + 1, j)' = ByteOf(n, j)
  BY <1>1 DEF Shifted, ByteOf
<1>2. ASSUME NEW n \in 1 .. Len(recent), n < LongestFrame
      PROVE  Started(n + 1)' <=> Started(n)
  <2>1. n \in 0 .. Len(recent) /\ 1 \in 1 .. n
    BY <1>0
  <2>2. /\ recent'[Len(recent') - (n + 1) + 1] = recent[Len(recent) - n + 1]
        /\ ByteOf(n + 1, 1)' = ByteOf(n, 1)
    BY <1>1, <1>2, <2>1
  <2>3. QED
    BY <2>2 DEF Started
<1>3. ASSUME NEW n \in 1 .. Len(recent') PROVE ByteOf(n, n)' = byte
  <2>1. Len(recent') - n + n = Len(recent')
    BY <1>0
  <2>2. QED
    BY <2>1 DEF ByteOf, Shifted
<1>4. Started(1)' => free
  <2>1. Len(recent') - 1 + 1 = Len(recent')
    BY <1>0
  <2>2. QED
    BY <2>1 DEF Started, Shifted
<1>5. QED
  <2>1. ASSUME NEW n \in 0 .. Len(recent), n < LongestFrame, n >= 1
        PROVE  Started(n + 1)' <=> Started(n)
    BY <1>0, <1>2, <2>1
  <2>2. QED
    BY <1>1, <1>3, <1>4, <2>1

(* No byte is stored outside the payload.                                   *)
LEMMA ParserTypingKept ==
    ASSUME ParserTyping, NEW byte \in Byte, parser_feed(byte)
    PROVE  ParserTyping'
<1>0. /\ length \in Nat /\ length <= MAX_PAYLOAD /\ index \in Nat /\ index <= length
      /\ payload \in [Slots -> Byte] /\ byte \in Nat
      /\ state = "WAIT_PAYLOAD" => index < length
      /\ state \in {"WAIT_CHECKSUM", "WAIT_TAIL"} => index = length
  BY ParserConstants DEF ParserTyping, TypeOK
<1>1. recent' \in Seq(Received) /\ Len(recent') <= LongestFrame
  <2>1. PICK free \in BOOLEAN, answer \in BOOLEAN : Read(byte, free, answer)
    BY DEF parser_feed, Head_, LenTooLong, LenStored, Payload, ChecksumGood, ChecksumBad,
           TailGood, TailBad
  <2>2. QED
    BY <2>1, ReadShifts DEF Shifted
<1> DEFINE Rest == /\ TypeOK' /\ payload' \in [Slots -> Byte]
                   /\ (state' = "WAIT_PAYLOAD" => index' < length')
                   /\ (state' \in {"WAIT_CHECKSUM", "WAIT_TAIL"} => index' = length')
<1>2. CASE Recover(byte)
  <2>1. /\ length' = 0 /\ index' = 0 /\ payload' = payload
        /\ state' \in {"WAIT_LEN", "WAIT_HEAD"}
    BY <1>2 DEF Recover
  <2>2. Rest
    BY <1>0, <2>1, ParserConstants DEF TypeOK
  <2>3. QED
    BY <1>1, <2>2 DEF ParserTyping
<1>3. CASE Head_(byte) \/ TailGood(byte)
  <2>1. /\ length' = length /\ index' = index /\ payload' = payload
        /\ state' \in {"WAIT_LEN", "WAIT_HEAD"}
    BY <1>3 DEF Head_, TailGood
  <2>2. Rest
    BY <1>0, <2>1, ParserConstants DEF TypeOK
  <2>3. QED
    BY <1>1, <2>2 DEF ParserTyping
<1>4. CASE LenStored(byte)
  <2>1. /\ byte <= MAX_PAYLOAD /\ length' = byte /\ index' = 0 /\ payload' = payload
        /\ byte = 0 => state' = "WAIT_CHECKSUM"
        /\ byte # 0 => state' = "WAIT_PAYLOAD"
    BY <1>4 DEF LenStored
  <2>2. Rest
    BY <1>0, <2>1, ParserConstants DEF TypeOK, Slots
  <2>3. QED
    BY <1>1, <2>2 DEF ParserTyping
<1>5. CASE Payload(byte)
  <2>1. /\ state = "WAIT_PAYLOAD" /\ length' = length /\ index' = index + 1
        /\ payload' = [payload EXCEPT ![index] = byte]
        /\ index + 1 = length => state' = "WAIT_CHECKSUM"
        /\ index + 1 # length => state' = "WAIT_PAYLOAD"
    BY <1>5 DEF Payload, Complete
  <2>2. payload' \in [Slots -> Byte]
    BY <1>0, <2>1
  <2>3. Rest
    BY <1>0, <2>1, <2>2, ParserConstants DEF TypeOK, Slots
  <2>4. QED
    BY <1>1, <2>3 DEF ParserTyping
<1>6. CASE ChecksumGood(byte)
  <2>1. /\ state = "WAIT_CHECKSUM" /\ length' = length /\ index' = index
        /\ payload' = payload /\ state' = "WAIT_TAIL"
    BY <1>6 DEF ChecksumGood
  <2>2. Rest
    BY <1>0, <2>1, ParserConstants DEF TypeOK
  <2>3. QED
    BY <1>1, <2>2 DEF ParserTyping
<1>7. QED
  BY <1>2, <1>3, <1>4, <1>5, <1>6
     DEF parser_feed, LenTooLong, ChecksumBad, TailBad

(* A recursive function on 0 .. n is the one its equations say.             *)
Smaller == {ss \in Nat \X Nat : ss[1] < ss[2]}

LEMMA SmallerIsWellFounded == IsWellFoundedOn(Smaller, Nat)
  BY NatLessThanWellFounded DEF OpToRel, Smaller

LEMMA ChecksumIsSum ==
    ASSUME NEW f, NEW n \in Nat, NEW g,
           g[0] = n,
           \A i \in 1 .. n : g[i] = Xor(g[i - 1], f[i + 2])
    PROVE  ChecksumOf(f, n) = g[n]
<1> DEFINE R(s) == s = [i \in 0 .. n |-> IF i = 0 THEN n ELSE Xor(s[i - 1], f[i + 2])]
           s == CHOOSE x : R(x)
<1>1. PICK h : h = [i \in 0 .. n |-> g[i]]
  OBVIOUS
<1>2. R(h)
  <2>1. \A i \in 0 .. n : g[i] = IF i = 0 THEN n ELSE Xor(g[i - 1], f[i + 2])
    <3> SUFFICES ASSUME NEW i \in 0 .. n
                 PROVE  g[i] = IF i = 0 THEN n ELSE Xor(g[i - 1], f[i + 2])
      OBVIOUS
    <3>1. CASE i = 0
      BY <3>1
    <3>2. CASE i # 0
      <4>1. i \in 1 .. n
        BY <3>2
      <4>2. g[i] = Xor(g[i - 1], f[i + 2])
        BY <4>1
      <4>3. QED
        BY <3>2, <4>2
    <3>3. QED
      BY <3>1, <3>2
  <2>2. \A i \in 0 .. n : i # 0 => h[i - 1] = g[i - 1]
    BY <1>1
  <2>3. h = [i \in 0 .. n |-> IF i = 0 THEN n ELSE Xor(h[i - 1], f[i + 2])]
    BY <1>1, <2>1, <2>2
  <2>4. QED
    BY <2>3
<1>3. R(s)
  BY <1>2
<1>4. ChecksumOf(f, n) = s[n]
  BY DEF ChecksumOf
<1> HIDE DEF s
<1>5. \A i \in 0 .. n : s[i] = IF i = 0 THEN n ELSE Xor(s[i - 1], f[i + 2])
  BY <1>3
<1>6. \A i \in 0 .. n : s[i] = g[i]
  <2> DEFINE T == {i \in 0 .. n : s[i] # g[i]}
  <2>1. T = {}
    <3> SUFFICES ASSUME T # {} PROVE FALSE
      OBVIOUS
    <3>1. T \subseteq Nat
      OBVIOUS
    <3>2. PICK x \in T : \A y \in T : ~(<<y, x>> \in Smaller)
      <4> HIDE DEF T
      <4>1. QED
        BY <3>1, SmallerIsWellFounded, WFMin
    <3>3. x \in 0 .. n /\ s[x] # g[x]
      OBVIOUS
    <3>4. x # 0
      BY <1>5, <3>3
    <3>5. x - 1 \in 0 .. n /\ <<x - 1, x>> \in Smaller
      BY <3>3, <3>4 DEF Smaller
    <3>6. s[x - 1] = g[x - 1]
      BY <3>2, <3>5
    <3>7. s[x] = Xor(s[x - 1], f[x + 2])
      BY <1>5, <3>3, <3>4
    <3>8. g[x] = Xor(g[x - 1], f[x + 2])
      <4>1. x \in 1 .. n
        BY <3>3, <3>4
      <4>2. QED
        BY <4>1
    <3>9. QED
      BY <3>3, <3>6, <3>7, <3>8
  <2>2. QED
    BY <2>1
<1>7. QED
  BY <1>4, <1>6

LEMMA ChecksumIsTheSum ==
    \A n \in Nat : \A f, g :
        /\ g[0] = n
        /\ \A i \in 1 .. n : g[i] = Xor(g[i - 1], f[i + 2])
        => ChecksumOf(f, n) = g[n]
  BY ChecksumIsSum

LEMMA PositionIsSmall == ParserTyping => Position \in Nat /\ Position <= MAX_PAYLOAD + 3
  BY ParserConstants DEF ParserTyping, TypeOK, Position

LEMMA CurrentKept ==
    ASSUME ParserTyping, Current, NEW byte \in Byte, parser_feed(byte)
    PROVE  Current'
<1>0. /\ length \in Nat /\ index \in Nat /\ payload \in [Slots -> Byte]
      /\ (state = "WAIT_PAYLOAD" => index < length)
      /\ (state \in {"WAIT_CHECKSUM", "WAIT_TAIL"} => index = length)
      /\ index \in 0 .. length
  BY ParserConstants DEF ParserTyping, TypeOK
<1>1. PICK k \in Nat : k = Position /\ k <= MAX_PAYLOAD + 3
  BY PositionIsSmall
<1>2. InFrame(k)
  BY <1>1 DEF Current
<1>3. ASSUME NEW free \in BOOLEAN, NEW answer, Read(byte, free, answer)
      PROVE  /\ 1 <= Len(recent') /\ k + 1 <= Len(recent')
             /\ \A j \in 1 .. k : ByteOf(k + 1, j)' = ByteOf(k, j)
             /\ ByteOf(k + 1, k + 1)' = byte
             /\ ByteOf(1, 1)' = byte
  <2>1. Shifted(byte, free)
    BY <1>3, ReadShifts
  <2>2. Len(recent) \in Nat /\ k <= Len(recent) /\ k < LongestFrame
    BY <1>1, <1>2, ParserConstants DEF ParserTyping, InFrame
  <2>3. k + 1 <= Len(recent') /\ \A j \in 1 .. k : ByteOf(k + 1, j)' = ByteOf(k, j)
    BY <2>1, <2>2, BytesMove
  <2>4. 1 <= Len(recent') /\ Len(recent') \in Nat
    BY <2>1 DEF Shifted
  <2>5. ByteOf(k + 1, k + 1)' = byte /\ ByteOf(1, 1)' = byte
    <3>1. k + 1 \in 1 .. Len(recent') /\ 1 \in 1 .. Len(recent')
      BY <2>3, <2>4
    <3>2. QED
      BY <2>1, <3>1, BytesMove
  <2>6. QED
    BY <2>3, <2>4, <2>5
<1>4. CASE \/ Head_(byte) \/ LenTooLong(byte) \/ ChecksumBad(byte) \/ TailBad(byte)
  <2>1. /\ state' = (IF byte = FRAME_HEAD THEN "WAIT_LEN" ELSE "WAIT_HEAD")
        /\ Read(byte, TRUE, FALSE)
    BY <1>4 DEF Head_, LenTooLong, ChecksumBad, TailBad, Recover
  <2>2. ByteOf(1, 1)' = byte /\ 1 <= Len(recent') /\ Len(recent') \in Nat
    <3>1. Shifted(byte, TRUE)
      BY <2>1, ReadShifts
    <3>2. QED
      BY <1>3, <2>1, <3>1 DEF Shifted
  <2>3. CASE byte = FRAME_HEAD
    <3>1. Position' = 1 /\ state' = "WAIT_LEN"
      BY <2>1, <2>3 DEF Position
    <3>2. InFrame(1)'
      BY <2>2, <2>3, <3>1 DEF InFrame
    <3>3. QED
      BY <3>1, <3>2 DEF Current
  <2>4. CASE byte # FRAME_HEAD
    <3>1. Position' = 0 /\ state' = "WAIT_HEAD"
      BY <2>1, <2>4 DEF Position
    <3>2. InFrame(0)'
      BY <2>2, <3>1 DEF InFrame
    <3>3. QED
      BY <3>1, <3>2 DEF Current
  <2>5. QED
    BY <2>3, <2>4
<1>5. CASE TailGood(byte)
  <2>1. state' = "WAIT_HEAD" /\ Read(byte, FALSE, TRUE)
    BY <1>5 DEF TailGood
  <2>2. Position' = 0 /\ Len(recent') \in Nat
    <3>1. Shifted(byte, FALSE)
      BY <2>1, ReadShifts
    <3>2. QED
      BY <2>1, <3>1 DEF Shifted, Position
  <2>3. InFrame(0)'
    BY <2>1, <2>2 DEF InFrame
  <2>4. QED
    BY <2>2, <2>3 DEF Current
<1>6. CASE LenStored(byte)
  <2>1. /\ state = "WAIT_LEN" /\ length' = byte /\ index' = 0 /\ checksum' = byte
        /\ byte = 0 => state' = "WAIT_CHECKSUM"
        /\ byte # 0 => state' = "WAIT_PAYLOAD"
        /\ Read(byte, FALSE, FALSE)
    BY <1>6 DEF LenStored
  <2>2. k = 1 /\ Position' = 2 /\ state' # "WAIT_TAIL"
    BY <1>1, <2>1 DEF Position
  <2>3. /\ 2 <= Len(recent') /\ ByteOf(2, 1)' = FRAME_HEAD /\ ByteOf(2, 2)' = byte
    <3>1. k + 1 = 2 /\ 1 \in 1 .. k
      BY <2>2
    <3>2. ByteOf(k, 1) = FRAME_HEAD
      BY <1>2, <2>2 DEF InFrame
    <3>3. QED
      BY <1>3, <2>1, <3>1, <3>2
  <2>4. \E g : Sums(g, 2, length, index)' /\ checksum' = g[index']
    <3>1. PICK g : g = [i \in 0 .. 0 |-> byte]
      OBVIOUS
    <3>2. g[0] = byte /\ 1 .. 0 = {}
      BY <3>1
    <3>3. QED
      BY <2>1, <3>2 DEF Sums
  <2>5. InFrame(2)'
    <3>1. 1 .. index' = {}
      BY <2>1
    <3>2. QED
      BY <2>1, <2>2, <2>3, <2>4, <3>1 DEF InFrame
  <2>6. QED
    BY <2>2, <2>5 DEF Current
<1>7. CASE Payload(byte)
  <2>1. /\ state = "WAIT_PAYLOAD" /\ length' = length /\ index' = index + 1
        /\ payload' = [payload EXCEPT ![index] = byte]
        /\ checksum' = Xor(checksum, byte)
        /\ index + 1 = length => state' = "WAIT_CHECKSUM"
        /\ index + 1 # length => state' = "WAIT_PAYLOAD"
        /\ Read(byte, FALSE, FALSE)
    BY <1>7 DEF Payload, Complete
  <2>2. k = 2 + index /\ Position' = k + 1 /\ state' # "WAIT_TAIL"
    BY <1>0, <1>1, <2>1 DEF Position
  <2>3. /\ k + 1 <= Len(recent')
        /\ \A j \in 1 .. k : ByteOf(k + 1, j)' = ByteOf(k, j)
        /\ ByteOf(k + 1, k + 1)' = byte
    BY <1>3, <2>1
  <2>4. PICK g : Sums(g, k, length, index) /\ checksum = g[index]
    BY <1>0, <1>2, <2>2 DEF InFrame
  <2>5. /\ ByteOf(k, 1) = FRAME_HEAD /\ ByteOf(k, 2) = length
        /\ \A i \in 1 .. index : payload[i - 1] = ByteOf(k, i + 2)
    BY <1>0, <1>2, <2>2 DEF InFrame
  <2>6. ByteOf(k + 1, 1)' = FRAME_HEAD /\ ByteOf(k + 1, 2)' = length'
    <3>1. 1 \in 1 .. k /\ 2 \in 1 .. k
      BY <1>0, <2>2
    <3>2. QED
      BY <2>1, <2>3, <2>5, <3>1
  <2>7. \A i \in 1 .. index + 1 : payload'[i - 1] = ByteOf(k + 1, i + 2)'
    <3> SUFFICES ASSUME NEW i \in 1 .. index + 1
                 PROVE  payload'[i - 1] = ByteOf(k + 1, i + 2)'
      OBVIOUS
    <3>1. i - 1 \in Slots /\ index \in Slots
      BY <1>0, <2>1, ParserConstants DEF Slots, ParserTyping, TypeOK
    <3>2. CASE i = index + 1
      <4>1. i - 1 = index /\ i + 2 = k + 1
        BY <1>0, <2>2, <3>2
      <4>2. payload'[index] = byte
        BY <1>0, <2>1, <3>1
      <4>3. QED
        BY <2>3, <4>1, <4>2
    <3>3. CASE i # index + 1
      <4>1. i \in 1 .. index /\ i + 2 \in 1 .. k /\ i - 1 # index
        BY <1>0, <2>2, <3>3
      <4>2. payload'[i - 1] = payload[i - 1]
        BY <1>0, <2>1, <3>1, <4>1
      <4>3. QED
        BY <2>3, <2>5, <4>1, <4>2
    <3>4. QED
      BY <3>2, <3>3
  <2>8. \E h : Sums(h, k + 1, length, index)' /\ checksum' = h[index']
    <3>1. PICK h : h = [i \in 0 .. index + 1 |->
                          IF i = index + 1 THEN Xor(checksum, byte) ELSE g[i]]
      OBVIOUS
    <3>2. /\ h[index + 1] = Xor(checksum, byte)
          /\ \A i \in 0 .. index : h[i] = g[i]
      BY <1>0, <3>1
    <3>3. h[0] = length'
      <4>1. g[0] = length
        BY <2>4 DEF Sums
      <4>2. 0 \in 0 .. index
        BY <1>0
      <4>3. QED
        BY <2>1, <3>2, <4>1, <4>2
    <3>4. \A i \in 1 .. index + 1 : h[i] = Xor(h[i - 1], ByteOf(k + 1, i + 2)')
      <4> SUFFICES ASSUME NEW i \in 1 .. index + 1
                   PROVE  h[i] = Xor(h[i - 1], ByteOf(k + 1, i + 2)')
        OBVIOUS
      <4>1. CASE i = index + 1
        <5>1. i - 1 = index /\ i + 2 = k + 1 /\ index \in 0 .. index
          BY <1>0, <2>2, <4>1
        <5>2. h[i - 1] = checksum /\ ByteOf(k + 1, i + 2)' = byte
          BY <2>3, <2>4, <3>2, <5>1
        <5>3. QED
          BY <3>2, <4>1, <5>2
      <4>2. CASE i # index + 1
        <5>1. i \in 1 .. index /\ i \in 0 .. index /\ i - 1 \in 0 .. index /\ i + 2 \in 1 .. k
          BY <1>0, <2>2, <4>2
        <5>2. g[i] = Xor(g[i - 1], ByteOf(k, i + 2))
          BY <2>4, <5>1 DEF Sums
        <5>3. h[i] = g[i] /\ h[i - 1] = g[i - 1] /\ ByteOf(k + 1, i + 2)' = ByteOf(k, i + 2)
          BY <2>3, <3>2, <5>1
        <5>4. QED
          BY <5>2, <5>3
      <4>3. QED
        BY <4>1, <4>2
    <3>5. Sums(h, k + 1, length, index)'
      BY <2>1, <3>2, <3>3, <3>4 DEF Sums
    <3>6. QED
      BY <2>1, <3>2, <3>5
  <2>9. InFrame(k + 1)'
    BY <2>1, <2>2, <2>3, <2>6, <2>7, <2>8 DEF InFrame
  <2>10. QED
    BY <2>2, <2>9 DEF Current
<1>8. CASE ChecksumGood(byte)
  <2>1. /\ state = "WAIT_CHECKSUM" /\ state' = "WAIT_TAIL" /\ byte = checksum
        /\ length' = length /\ index' = index /\ checksum' = checksum /\ payload' = payload
        /\ Read(byte, FALSE, FALSE)
    BY <1>8 DEF ChecksumGood
  <2>2. k = 2 + length /\ index = length /\ Position' = k + 1 /\ k + 1 = length + 3
    BY <1>0, <1>1, <2>1 DEF Position
  <2>3. /\ k + 1 <= Len(recent')
        /\ \A j \in 1 .. k : ByteOf(k + 1, j)' = ByteOf(k, j)
        /\ ByteOf(k + 1, k + 1)' = byte
    BY <1>3, <2>1
  <2>4. PICK g : Sums(g, k, length, index) /\ checksum = g[index]
    BY <1>0, <1>2, <2>2 DEF InFrame
  <2>5. /\ ByteOf(k, 1) = FRAME_HEAD /\ ByteOf(k, 2) = length
        /\ \A i \in 1 .. index : payload[i - 1] = ByteOf(k, i + 2)
    BY <1>0, <1>2, <2>2 DEF InFrame
  <2>6. ByteOf(k + 1, 1)' = FRAME_HEAD /\ ByteOf(k + 1, 2)' = length'
    <3>1. 1 \in 1 .. k /\ 2 \in 1 .. k
      BY <1>0, <2>2
    <3>2. QED
      BY <2>1, <2>3, <2>5, <3>1
  <2>7. \A i \in 1 .. index : /\ ByteOf(k + 1, i + 2)' = ByteOf(k, i + 2)
                              /\ payload'[i - 1] = ByteOf(k + 1, i + 2)'
    <3>1. \A i \in 1 .. index : i + 2 \in 1 .. k
      BY <1>0, <2>2
    <3>2. QED
      BY <2>1, <2>3, <2>5, <3>1
  <2>8. Sums(g, k + 1, length, index)' /\ checksum' = g[index']
    <3>1. Sums(g, k + 1, length, index)'
      BY <2>1, <2>4, <2>7 DEF Sums
    <3>2. QED
      BY <2>1, <2>4, <3>1
  <2>9. ByteOf(k + 1, length + 3)' = checksum'
    <3>1. ByteOf(k + 1, k + 1)' = checksum
      BY <2>1, <2>3
    <3>2. ByteOf(k + 1, length + 3)' = ByteOf(k + 1, k + 1)'
      BY <2>1, <2>2 DEF ByteOf
    <3>3. QED
      BY <2>1, <3>1, <3>2
  <2>10. InFrame(k + 1)'
    BY <2>1, <2>3, <2>6, <2>7, <2>8, <2>9 DEF InFrame
  <2>11. QED
    BY <2>2, <2>10 DEF Current
<1>9. QED
  BY <1>4, <1>5, <1>6, <1>7, <1>8 DEF parser_feed

(* What the bytes say when the last n + 4 of them are a frame.              *)
LEMMA FrameBytes ==
    ASSUME NEW n \in Nat
    PROVE  /\ IsFrame(LastBytes(n + 4)) <=>
                 /\ ByteOf(n + 4, 1) = FRAME_HEAD /\ ByteOf(n + 4, 2) = n
                 /\ ByteOf(n + 4, n + 4) = FRAME_TAIL
                 /\ ByteOf(n + 4, n + 3) = ChecksumOf(LastBytes(n + 4), n)
           /\ \A g : Sums(g, n + 4, n, n) => ChecksumOf(LastBytes(n + 4), n) = g[n]
<1> DEFINE f == LastBytes(n + 4)
<1>1. /\ Len(f) = n + 4 /\ Len(f) - 4 = n
      /\ \A i \in 1 .. n + 4 : f[i] = ByteOf(n + 4, i)
  <2>1. f = [i \in 1 .. n + 4 |-> ByteOf(n + 4, i)]
    BY DEF LastBytes, ByteOf
  <2> HIDE DEF f
  <2>2. QED
    BY <2>1
<1> HIDE DEF f
<1>2. f[1] = ByteOf(n + 4, 1) /\ f[2] = ByteOf(n + 4, 2)
      /\ f[n + 4] = ByteOf(n + 4, n + 4) /\ f[n + 3] = ByteOf(n + 4, n + 3)
  BY <1>1
<1>3. IsFrame(f) <=> /\ f[1] = FRAME_HEAD /\ f[2] = n /\ f[n + 4] = FRAME_TAIL
                     /\ f[n + 3] = ChecksumOf(f, n)
  BY <1>1 DEF IsFrame
<1>4. ASSUME NEW g, Sums(g, n + 4, n, n) PROVE ChecksumOf(f, n) = g[n]
  <2>1. \A i \in 1 .. n : g[i] = Xor(g[i - 1], f[i + 2])
    <3>1. \A i \in 1 .. n : f[i + 2] = ByteOf(n + 4, i + 2)
      BY <1>1
    <3>2. QED
      BY <1>4, <3>1 DEF Sums
  <2>2. g[0] = n
    BY <1>4 DEF Sums
  <2>3. QED
    BY <2>1, <2>2, ChecksumIsSum
<1>5. QED
  BY <1>2, <1>3, <1>4 DEF f

LEMMA AcceptedKept ==
    ASSUME ParserTyping, Current, NEW byte \in Byte, parser_feed(byte)
    PROVE  AcceptedIsFrame'
<1>1. CASE TailGood(byte)
  <2>1. /\ state = "WAIT_TAIL" /\ byte = FRAME_TAIL /\ Read(byte, FALSE, TRUE)
        /\ length' = length /\ payload' = payload
    BY <1>1 DEF TailGood
  <2>2. PICK n \in Nat : n = length
    BY ParserConstants DEF ParserTyping, TypeOK
  <2>3. index = n /\ n <= MAX_PAYLOAD /\ Len(recent) \in Nat
    BY <2>1, <2>2, ParserConstants DEF ParserTyping, TypeOK
  <2>4. InFrame(n + 3)
    <3>1. Position = n + 3 /\ n + 3 \in Nat
      BY <2>1, <2>2 DEF Position
    <3>2. QED
      BY <3>1 DEF Current
  <2>5. /\ n + 3 <= Len(recent)
        /\ ByteOf(n + 3, 1) = FRAME_HEAD /\ ByteOf(n + 3, 2) = n
        /\ \A i \in 1 .. n : payload[i - 1] = ByteOf(n + 3, i + 2)
        /\ ByteOf(n + 3, n + 3) = checksum
    BY <2>1, <2>2, <2>3, <2>4 DEF InFrame
  <2>6. PICK g : Sums(g, n + 3, n, n) /\ checksum = g[n]
    BY <2>2, <2>3, <2>4 DEF InFrame
  <2>7. /\ n + 4 <= Len(recent')
        /\ \A j \in 1 .. n + 3 : ByteOf(n + 4, j)' = ByteOf(n + 3, j)
        /\ ByteOf(n + 4, n + 4)' = FRAME_TAIL
    <3>1. Shifted(byte, FALSE)
      BY <2>1, ReadShifts
    <3>2. n + 3 \in 0 .. Len(recent) /\ n + 3 < LongestFrame /\ (n + 3) + 1 = n + 4
      BY <2>3, <2>5, ParserConstants
    <3>3. /\ n + 4 <= Len(recent')
          /\ \A j \in 1 .. n + 3 : ByteOf(n + 4, j)' = ByteOf(n + 3, j)
      BY <3>1, <3>2, BytesMove
    <3>4. n + 4 \in 1 .. Len(recent')
      BY <3>1, <3>3 DEF Shifted
    <3>5. QED
      BY <2>1, <3>1, <3>3, <3>4, BytesMove
  <2>8. Sums(g, n + 4, n, n)'
    <3>1. \A i \in 1 .. n : i + 2 \in 1 .. n + 3
      OBVIOUS
    <3>2. QED
      BY <2>6, <2>7, <3>1 DEF Sums
  <2>9. /\ ByteOf(n + 4, 1)' = FRAME_HEAD /\ ByteOf(n + 4, 2)' = n
        /\ ByteOf(n + 4, n + 3)' = g[n]
        /\ \A i \in 1 .. n : payload'[i - 1] = ByteOf(n + 4, i + 2)'
    <3>1. /\ 1 \in 1 .. n + 3 /\ 2 \in 1 .. n + 3 /\ n + 3 \in 1 .. n + 3
          /\ \A i \in 1 .. n : i + 2 \in 1 .. n + 3
      OBVIOUS
    <3>2. QED
      BY <2>1, <2>5, <2>6, <2>7, <3>1
  <2>10. ChecksumOf(LastBytes(n + 4), n)' = g[n]
    <3>0. PICK f : f = LastBytes(n + 4)'
      OBVIOUS
    <3>1. \A i \in 1 .. n : f[i + 2] = ByteOf(n + 4, i + 2)'
      BY <3>0 DEF LastBytes, ByteOf
    <3>2. g[0] = n
      BY <2>8 DEF Sums
    <3>3. \A i \in 1 .. n : g[i] = Xor(g[i - 1], f[i + 2])
      BY <2>8, <3>1 DEF Sums
    <3>4. n \in Nat
      BY <2>2
    <3>5. ChecksumOf(f, n) = g[n]
      BY <3>2, <3>3, <3>4, ChecksumIsTheSum
    <3>6. ChecksumOf(LastBytes(n + 4), n)' = ChecksumOf(f, n)
      BY <3>0 DEF ChecksumOf
    <3>7. QED
      BY <3>5, <3>6
  <2>11. IsFrame(LastBytes(n + 4))'
    <3>1. (/\ ByteOf(n + 4, 1) = FRAME_HEAD /\ ByteOf(n + 4, 2) = n
           /\ ByteOf(n + 4, n + 4) = FRAME_TAIL
           /\ ByteOf(n + 4, n + 3) = ChecksumOf(LastBytes(n + 4), n))'
      BY <2>7, <2>9, <2>10
    <3>2. QED
      BY <3>1, FrameBytes, PTL
  <2>12. \A i \in 1 .. n : payload'[i - 1] = LastBytes(n + 4)'[i + 2]
    <3>1. \A i \in 1 .. n : i + 2 \in 1 .. n + 4
      OBVIOUS
    <3>2. QED
      BY <2>9, <3>1 DEF LastBytes, ByteOf
  <2>13. length' = n
    BY <2>1, <2>2
  <2>14. IsFrame(LastBytes(length + 4))'
    BY <2>11, <2>13 DEF LastBytes
  <2>15. QED
    BY <2>7, <2>12, <2>13, <2>14 DEF AcceptedIsFrame, LastBytes
<1>2. CASE ~TailGood(byte)
  <2>1. completed' = FALSE
    BY <1>2 DEF parser_feed, Head_, LenTooLong, LenStored, Payload, ChecksumGood,
                ChecksumBad, TailBad, Read
  <2>2. QED
    BY <2>1 DEF AcceptedIsFrame
<1>3. QED
  BY <1>1, <1>2

(* After a free head the parser waits for the length.                       *)
LEMMA TrackedHead ==
    ASSUME ParserTyping, Tracking, 1 \in 1 .. Len(recent), Started(1)
    PROVE  state = "WAIT_LEN"
<1>1. Position = 1
  BY DEF Tracking
<1>2. QED
  BY <1>1 DEF Position, ParserTyping, TypeOK

(* The parser in a frame that began with a free head takes its next byte:   *)
(* the length, a payload byte, or the right checksum.                       *)
LEMMA TrackingKept ==
    ASSUME ParserTyping, Current, Tracking, NEW byte \in Byte, parser_feed(byte)
    PROVE  Tracking'
<1>0. /\ length \in Nat /\ index \in Nat /\ length <= MAX_PAYLOAD
      /\ (state = "WAIT_PAYLOAD" => index < length)
      /\ (state \in {"WAIT_CHECKSUM", "WAIT_TAIL"} => index = length)
      /\ state \in {"WAIT_HEAD", "WAIT_LEN", "WAIT_PAYLOAD", "WAIT_CHECKSUM", "WAIT_TAIL"}
      /\ recent \in Seq(Received) /\ Len(recent) \in Nat /\ byte \in Nat
  BY ParserConstants DEF ParserTyping, TypeOK
<1>1. PICK free \in BOOLEAN, answer \in BOOLEAN : Read(byte, free, answer)
  BY DEF parser_feed, Head_, LenTooLong, LenStored, Payload, ChecksumGood, ChecksumBad,
         TailGood, TailBad
<1>2. Shifted(byte, free)
  BY <1>1, ReadShifts
<1>3. Len(recent') \in Nat /\ Len(recent') <= LongestFrame /\ Len(recent') <= Len(recent) + 1
  BY <1>2 DEF Shifted
<1> SUFFICES ASSUME NEW m \in 1 .. Len(recent'), Started(m)'
             PROVE  (/\ m = 1 => Position = 1
                     /\ m >= 2 /\ ByteOf(m, 2) <= MAX_PAYLOAD =>
                          /\ m <= ByteOf(m, 2) + 2 => Position = m
                          /\ m = ByteOf(m, 2) + 3 =>
                               \E g : /\ Sums(g, m, ByteOf(m, 2), ByteOf(m, 2))
                                      /\ ByteOf(m, m) = g[ByteOf(m, 2)] => Position = m)'
  BY DEF Tracking
<1>4. CASE m = 1
  <2>1. free /\ byte = FRAME_HEAD
    <3>1. ByteOf(1, 1)' = byte /\ (Started(1)' => free)
      BY <1>2, <1>3, <1>4, BytesMove
    <3>2. QED
      BY <1>4, <3>1 DEF Started
  <2>2. Head_(byte) \/ LenTooLong(byte) \/ ChecksumBad(byte) \/ TailBad(byte)
    <3>1. ASSUME Read(byte, FALSE, FALSE) \/ Read(byte, FALSE, TRUE) PROVE FALSE
      <4>1. Shifted(byte, FALSE)
        BY <3>1, ReadShifts
      <4>2. QED
        BY <1>2, <2>1, <4>1 DEF Shifted
    <3>2. QED
      BY <3>1 DEF parser_feed, LenStored, Payload, ChecksumGood, TailGood
  <2>3. state' = "WAIT_LEN"
    BY <2>1, <2>2 DEF Head_, LenTooLong, ChecksumBad, TailBad, Recover
  <2>4. Position' = 1
    BY <2>3 DEF Position
  <2>5. QED
    BY <1>4, <2>4
<1>5. CASE m # 1
  <2> DEFINE n == m - 1
  <2>1. /\ n \in 1 .. Len(recent) /\ n \in 0 .. Len(recent) /\ n < LongestFrame
        /\ m = n + 1 /\ n >= 1 /\ n \in Nat /\ m \in Nat
    BY <1>0, <1>3, <1>5, ParserConstants
  <2> HIDE DEF n
  <2>2. /\ Started(n) /\ ByteOf(m, m)' = byte
        /\ \A j \in 1 .. n : ByteOf(m, j)' = ByteOf(n, j)
    BY <1>2, <2>1, BytesMove
  <2>3. CASE n = 1
    <3>1. state = "WAIT_LEN"
      BY <2>1, <2>2, <2>3, TrackedHead
    <3>2. m = 2 /\ ByteOf(m, 2)' = byte
      BY <2>1, <2>2, <2>3
    <3>3. CASE byte <= MAX_PAYLOAD
      <4>1. LenStored(byte)
        <5>1. ~LenTooLong(byte)
          <6> SUFFICES ASSUME LenTooLong(byte) PROVE FALSE
            OBVIOUS
          <6>1. byte > MAX_PAYLOAD
            BY DEF LenTooLong
          <6>2. byte \in Nat /\ MAX_PAYLOAD \in Nat
            BY <1>0, ParserConstants
          <6>3. QED
            BY <3>3, <6>1, <6>2
        <5>2. QED
          BY <3>1, <5>1 DEF parser_feed, Head_, Payload, ChecksumGood, ChecksumBad,
                            TailGood, TailBad
      <4>2. Position' = 2
        BY <4>1 DEF LenStored, Position
      <4>3. ~(m = ByteOf(m, 2)' + 3)
        BY <1>0, <3>2
      <4>4. QED
        BY <3>2, <4>2, <4>3
    <3>4. CASE ~(byte <= MAX_PAYLOAD)
      BY <3>2, <3>4
    <3>5. QED
      BY <3>3, <3>4
  <2>4. CASE n # 1
    <3> DEFINE L == ByteOf(n, 2)
    <3>1. n >= 2 /\ m >= 2 /\ 2 \in 1 .. n
      BY <2>1, <2>4
    <3>2. ByteOf(m, 2)' = L /\ L \in Nat
      <4>1. Len(recent) - n + 2 \in 1 .. Len(recent)
        BY <1>0, <2>1, <3>1
      <4>2. recent[Len(recent) - n + 2] \in Received
        BY <1>0, <4>1
      <4>3. QED
        BY <2>2, <3>1, <4>2, ParserConstants DEF ByteOf, Received
    <3> HIDE DEF L
    <3> SUFFICES ASSUME L <= MAX_PAYLOAD
                 PROVE  /\ m <= L + 2 => Position' = m
                        /\ m = L + 3 => \E g : /\ g[0] = L
                                               /\ \A i \in 1 .. L :
                                                     g[i] = Xor(g[i - 1], ByteOf(m, i + 2)')
                                               /\ byte = g[L] => Position' = m
      BY <2>2, <3>1, <3>2, <1>5 DEF Sums
    <3>3. ASSUME m <= L + 3 PROVE Position = n
      <4>1. n <= L + 2
        BY <2>1, <3>2, <3>3
      <4>2. QED
        BY <2>1, <2>2, <3>1, <3>2, <4>1 DEF Tracking, L
    <3>4. ASSUME m <= L + 3 PROVE L = length
      <4>1. InFrame(n)
        BY <2>1, <3>3, <3>4 DEF Current
      <4>2. QED
        BY <3>1, <4>1 DEF InFrame, L
    <3>5. ASSUME m <= L + 2 PROVE Position' = m
      <4>1. Position = n /\ L = length
        BY <2>1, <3>2, <3>3, <3>4, <3>5
      <4>2. state = "WAIT_PAYLOAD" /\ n = 2 + index
        BY <1>0, <2>1, <3>1, <3>5, <4>1 DEF Position
      <4>3. Payload(byte)
        BY <4>2 DEF parser_feed, Head_, LenTooLong, LenStored, Payload, ChecksumGood,
                    ChecksumBad, TailGood, TailBad
      <4>4. QED
        BY <1>0, <2>1, <4>2, <4>3 DEF Payload, Complete, Position
    <3>6. ASSUME m = L + 3
          PROVE  \E g : /\ g[0] = L
                        /\ \A i \in 1 .. L : g[i] = Xor(g[i - 1], ByteOf(m, i + 2)')
                        /\ byte = g[L] => Position' = m
      <4>1. Position = n /\ L = length /\ n = L + 2
        BY <2>1, <3>2, <3>3, <3>4, <3>6
      <4>2. state = "WAIT_CHECKSUM" /\ index = L
        BY <1>0, <2>1, <3>1, <4>1 DEF Position
      <4>3. InFrame(n)
        BY <2>1, <4>1 DEF Current
      <4>4. PICK g : Sums(g, n, L, L) /\ checksum = g[L]
        BY <3>1, <4>1, <4>2, <4>3 DEF InFrame
      <4>5. g[0] = L
        BY <4>4 DEF Sums
      <4>6. \A i \in 1 .. L : g[i] = Xor(g[i - 1], ByteOf(m, i + 2)')
        <5>1. \A i \in 1 .. L : i + 2 \in 1 .. n
          BY <3>2, <4>1
        <5>2. QED
          BY <2>2, <4>4, <5>1 DEF Sums
      <4>7. ASSUME byte = g[L] PROVE Position' = m
        <5>1. ChecksumGood(byte)
          BY <4>2, <4>4, <4>7
             DEF parser_feed, Head_, LenTooLong, LenStored, Payload, ChecksumGood,
                 ChecksumBad, TailGood, TailBad
        <5>2. QED
          BY <1>0, <3>2, <3>6, <4>1, <5>1 DEF ChecksumGood, Position
      <4>8. QED
        BY <4>5, <4>6, <4>7
    <3>7. QED
      BY <3>5, <3>6
  <2>5. QED
    BY <2>3, <2>4
<1>6. QED
  BY <1>4, <1>5

LEMMA MissedKept ==
    ASSUME ParserTyping, Current, Tracking, NEW byte \in Byte, parser_feed(byte)
    PROVE  FrameIsNotMissed'
<1>0. /\ length \in Nat /\ (state = "WAIT_PAYLOAD" => index < length) /\ index \in Nat
      /\ state \in {"WAIT_HEAD", "WAIT_LEN", "WAIT_PAYLOAD", "WAIT_CHECKSUM", "WAIT_TAIL"}
      /\ Len(recent) \in Nat
  BY ParserConstants DEF ParserTyping, TypeOK
<1>1. PICK free \in BOOLEAN, answer \in BOOLEAN : Read(byte, free, answer)
  BY DEF parser_feed, Head_, LenTooLong, LenStored, Payload, ChecksumGood, ChecksumBad,
         TailGood, TailBad
<1>2. Shifted(byte, free)
  BY <1>1, ReadShifts
<1>3. Len(recent') \in Nat /\ Len(recent') <= LongestFrame /\ Len(recent') <= Len(recent) + 1
  BY <1>2 DEF Shifted
<1> SUFFICES ASSUME NEW m \in 4 .. Len(recent'), IsFrame(LastBytes(m))',
                    recent'[Len(recent') - m + 1].free
             PROVE  completed'
  BY DEF FrameIsNotMissed
<1>4. PICK n, L : n = m - 1 /\ L = m - 4
  OBVIOUS
<1>5. /\ n \in 1 .. Len(recent) /\ n \in 0 .. Len(recent) /\ n < LongestFrame
      /\ m = n + 1 /\ n = L + 3 /\ n >= 2 /\ n \in Nat /\ m \in Nat /\ L \in Nat
      /\ L <= MAX_PAYLOAD /\ m \in 1 .. Len(recent')
  BY <1>0, <1>3, <1>4, ParserConstants
<1>6. PICK f : f = LastBytes(m)'
  OBVIOUS
<1>7. Len(f) = m /\ \A i \in 1 .. m : f[i] = ByteOf(m, i)'
  <2>1. f = [i \in 1 .. m |-> ByteOf(m, i)']
    BY <1>6 DEF LastBytes, ByteOf
  <2>2. QED
    BY <1>5, <2>1
<1>8. /\ f[1] = FRAME_HEAD /\ f[2] = L /\ f[m] = FRAME_TAIL
      /\ f[n] = ChecksumOf(f, L)
  <2>1. IsFrame(f)
    BY <1>6 DEF IsFrame
  <2>2. Len(f) - 4 = L /\ L + 3 = n
    BY <1>4, <1>5, <1>7
  <2>3. QED
    BY <1>7, <2>1, <2>2 DEF IsFrame
<1>9. /\ ByteOf(m, m)' = byte
      /\ \A j \in 1 .. n : ByteOf(m, j)' = ByteOf(n, j)
      /\ (Started(m)' <=> Started(n))
  BY <1>2, <1>5, BytesMove
<1>10. /\ \A j \in 1 .. n : f[j] = ByteOf(n, j)
       /\ f[m] = byte
  <2>1. \A j \in 1 .. n : j \in 1 .. m
    BY <1>5
  <2>2. m \in 1 .. m
    BY <1>5
  <2>3. QED
    BY <1>7, <1>9, <2>1, <2>2
<1>11. Started(n)
  <2>1. ByteOf(m, 1)' = FRAME_HEAD
    BY <1>5, <1>7, <1>8
  <2>2. QED
    BY <1>9, <2>1 DEF Started
<1>12. ByteOf(n, 2) = L
  BY <1>5, <1>8, <1>10
<1>13. PICK g : Sums(g, n, L, L) /\ (ByteOf(n, n) = g[L] => Position = n)
  BY <1>5, <1>11, <1>12 DEF Tracking
<1>14. ChecksumOf(f, L) = g[L]
  <2>1. \A i \in 1 .. L : i + 2 \in 1 .. n
    BY <1>5
  <2>2. g[0] = L /\ \A i \in 1 .. L : g[i] = Xor(g[i - 1], f[i + 2])
    BY <1>10, <1>13, <2>1 DEF Sums
  <2>3. QED
    BY <1>5, <2>2, ChecksumIsTheSum
<1>15. Position = n
  <2>1. n \in 1 .. n
    BY <1>5
  <2>2. ByteOf(n, n) = g[L]
    BY <1>8, <1>10, <1>14, <2>1
  <2>3. QED
    BY <1>13, <2>2
<1>16. L = length
  <2>1. InFrame(n)
    BY <1>5, <1>15 DEF Current
  <2>2. QED
    BY <1>5, <1>12, <2>1 DEF InFrame
<1>17. state = "WAIT_TAIL"
  BY <1>0, <1>5, <1>15, <1>16 DEF Position
<1>18. TailGood(byte)
  BY <1>8, <1>10, <1>17
     DEF parser_feed, Head_, LenTooLong, LenStored, Payload, ChecksumGood, ChecksumBad,
         TailGood, TailBad
<1>19. QED
  BY <1>18 DEF TailGood, Read

LEMMA ParserInitInv == Init => ParserInv
<1> SUFFICES ASSUME Init PROVE ParserInv
  OBVIOUS
<1>1. /\ state = "WAIT_HEAD" /\ index = 0 /\ length = 0
      /\ payload \in [Slots -> Byte] /\ completed = FALSE
      /\ recent = <<>> /\ Len(recent) = 0
  BY DEF Init
<1>2. ParserTyping
  BY <1>1, ParserConstants DEF ParserTyping, TypeOK
<1>3. Current
  <2>1. Position = 0 /\ state # "WAIT_TAIL"
    BY <1>1 DEF Position
  <2>2. QED
    BY <1>1, <2>1 DEF Current, InFrame
<1>4. Tracking /\ FrameIsNotMissed /\ AcceptedIsFrame
  <2>1. 1 .. Len(recent) = {} /\ 4 .. Len(recent) = {}
    BY <1>1
  <2>2. QED
    BY <1>1, <2>1 DEF Tracking, FrameIsNotMissed, AcceptedIsFrame
<1>5. QED
  BY <1>2, <1>3, <1>4 DEF ParserInv

LEMMA ParserNextInv == ParserInv /\ [Next]_vars => ParserInv'
<1> SUFFICES ASSUME ParserInv, [Next]_vars PROVE ParserInv'
  OBVIOUS
<1>0. ParserTyping /\ Current /\ Tracking
  BY DEF ParserInv
<1>1. ASSUME NEW byte \in Byte, parser_feed(byte) PROVE ParserInv'
  BY <1>0, <1>1, ParserTypingKept, CurrentKept, TrackingKept, AcceptedKept, MissedKept
     DEF ParserInv
<1>2. CASE UNCHANGED vars
  <2>1. /\ state' = state /\ length' = length /\ index' = index /\ checksum' = checksum
        /\ payload' = payload /\ completed' = completed /\ recent' = recent
    BY <1>2 DEF vars, parser
  <2>2. ParserTyping'
    BY <1>0, <2>1 DEF ParserTyping, TypeOK
  <2>3. Current'
    BY <1>0, <2>1 DEF Current, InFrame, Sums, ByteOf, Position
  <2>4. Tracking'
    BY <1>0, <2>1 DEF Tracking, Started, Sums, ByteOf, Position
  <2>5. AcceptedIsFrame' /\ FrameIsNotMissed'
    BY <2>1 DEF ParserInv, AcceptedIsFrame, FrameIsNotMissed, LastBytes
  <2>6. QED
    BY <2>2, <2>3, <2>4, <2>5 DEF ParserInv
<1>3. QED
  BY <1>1, <1>2 DEF Next

(* On every noisy line, whatever values a byte takes: no byte is stored     *)
(* outside the payload, a frame reported is one whole frame with a right    *)
(* checksum, and a frame that begins with a free head is reported.          *)
THEOREM ParserIsRight == Spec => [](TypeOK /\ AcceptedIsFrame /\ FrameIsNotMissed)
<1>1. ParserInv => TypeOK /\ AcceptedIsFrame /\ FrameIsNotMissed
  BY DEF ParserInv, ParserTyping
<1>2. QED
  BY <1>1, ParserInitInv, ParserNextInv, PTL DEF Spec
-----------------------------------------------------------------------------
(* The line framer *)

FramerBytes == Text \cup Delimiter \cup {Zero}

FramerInv == /\ Framer!TypeOK /\ Framer!LineIsKept /\ Framer!ReadyIsTheLine
             /\ l_buffer \in [Framer!Slots -> FramerBytes]
             /\ l_line \in Seq(Text) /\ l_ended \in BOOLEAN
             /\ l_overflows \in Nat
             /\ l_discarding => l_length = 0

LEMMA FramerConstants == /\ FRAME_BUFFER_SIZE \in Nat \ {0}
                         /\ Text \cap Delimiter = {}
                         /\ Framer!Usable \in Nat
  BY StreamsAssumption DEF StreamsAssumption, Framer!ConstantsOK, Framer!Usable

LEMMA FramerInitInv == Framer!Init => FramerInv
<1> SUFFICES ASSUME Framer!Init PROVE FramerInv
  OBVIOUS
<1>1. l_line = <<>> /\ Len(l_line) = 0 /\ l_length = 0
  BY DEF Framer!Init
<1>2. l_buffer \in [Framer!Slots -> FramerBytes]
  BY DEF Framer!Init, FramerBytes
<1>3. Framer!Stored = <<>>
  <2>1. Framer!Stored = [i \in 1 .. 0 |-> l_buffer[i - 1]]
    BY <1>1 DEF Framer!Stored
  <2>2. QED
    BY <2>1
<1>4. Framer!LineIsKept
  <2>1. ~l_ended /\ ~l_discarding /\ l_overflows = 0
    BY DEF Framer!Init
  <2>2. ~(Len(l_line) > Framer!Usable)
    BY <1>1, FramerConstants
  <2>3. QED
    BY <1>1, <1>3, <2>1, <2>2 DEF Framer!LineIsKept
<1>5. QED
  <2>1. /\ l_line = <<>> /\ l_ended = FALSE /\ l_overflows = 0
        /\ l_discarding = FALSE /\ l_result = "FRAMER_WAITING"
    BY Zenon DEF Framer!Init
  <2>2. l_length \in 0 .. Framer!Usable /\ DOMAIN l_buffer = Framer!Slots
    BY <1>1, <1>2, FramerConstants
  <2>3. l_line \in Seq(Text) /\ l_ended \in BOOLEAN /\ l_overflows \in Nat
        /\ l_discarding \in BOOLEAN
    <3>1. l_ended \in BOOLEAN /\ l_discarding \in BOOLEAN
      BY <2>1, Zenon
    <3>2. l_line \in Seq(Text) /\ l_overflows \in Nat
      BY <2>1
    <3>3. QED
      BY <3>1, <3>2
  <2>4. Framer!ReadyIsTheLine
    BY <2>1 DEF Framer!ReadyIsTheLine
  <2>5. QED
    BY <1>2, <1>4, <2>1, <2>2, <2>3, <2>4 DEF FramerInv, Framer!TypeOK

(* The bytes stored are the line so far, so there are as many of them.     *)
LEMMA StoredIsSent ==
    ASSUME FramerInv
    PROVE  /\ Framer!Sent \in Seq(Text) /\ Len(Framer!Sent) \in Nat
           /\ Framer!Stored \in Seq(FramerBytes) /\ Len(Framer!Stored) = l_length
           /\ l_length \in Nat /\ l_length <= Framer!Usable
           /\ ~l_discarding => /\ Framer!Stored = Framer!Sent
                               /\ l_length = Len(Framer!Sent)
           /\ l_discarding => ~l_ended /\ Len(Framer!Sent) > Framer!Usable
<1>1. /\ l_length \in 0 .. Framer!Usable /\ l_line \in Seq(Text)
      /\ l_buffer \in [Framer!Slots -> FramerBytes]
      /\ Framer!LineIsKept
  BY DEF FramerInv, Framer!TypeOK
<1>2. Framer!Sent \in Seq(Text)
  BY <1>1 DEF Framer!Sent
<1>3. Framer!Stored \in Seq(FramerBytes) /\ Len(Framer!Stored) = l_length
  <2>1. \A i \in 1 .. l_length : i - 1 \in Framer!Slots
    BY <1>1, FramerConstants DEF Framer!Slots, Framer!Usable
  <2>2. Framer!Stored \in [1 .. l_length -> FramerBytes] /\ l_length \in Nat
    BY <1>1, <2>1 DEF Framer!Stored
  <2>3. QED
    BY <2>2
<1>4. CASE l_ended
  <2>1. ~l_discarding /\ l_length = 0 /\ Framer!Sent = <<>>
    BY <1>1, <1>4 DEF Framer!LineIsKept, Framer!Sent
  <2>2. Framer!Stored = <<>>
    BY <1>3, <2>1
  <2>3. QED
    BY <1>1, <1>2, <1>3, <2>1, <2>2, FramerConstants
<1>5. CASE ~l_ended
  <2>1. /\ Framer!Sent = l_line
        /\ l_discarding <=> Len(l_line) > Framer!Usable
        /\ ~l_discarding => Framer!Stored = l_line
    BY <1>1, <1>5 DEF Framer!LineIsKept, Framer!Sent
  <2>2. QED
    BY <1>1, <1>2, <1>3, <1>5, <2>1, FramerConstants
<1>6. QED
  BY <1>4, <1>5

LEMMA FramerNextInv == FramerInv /\ [Framer!Next]_(Framer!vars) => FramerInv'
<1> SUFFICES ASSUME FramerInv, [Framer!Next]_(Framer!vars) PROVE FramerInv'
  OBVIOUS
<1>0. /\ Framer!TypeOK /\ Framer!LineIsKept /\ Framer!ReadyIsTheLine
      /\ l_buffer \in [Framer!Slots -> FramerBytes]
      /\ l_line \in Seq(Text) /\ l_ended \in BOOLEAN /\ l_overflows \in Nat
      /\ l_length \in 0 .. Framer!Usable /\ l_discarding \in BOOLEAN
      /\ (l_discarding => l_length = 0)
      /\ Framer!Usable \in Nat
  BY FramerConstants DEF FramerInv, Framer!TypeOK
<1>1. CASE UNCHANGED Framer!vars
  BY <1>0, <1>1
     DEF FramerInv, Framer!vars, Framer!framer, Framer!history, Framer!TypeOK,
         Framer!LineIsKept, Framer!ReadyIsTheLine, Framer!Stored
<1>2. ASSUME NEW byte \in Text \cup Delimiter, NEW capacity \in Capacities,
             Framer!framer_feed_byte(byte, capacity)
      PROVE  FramerInv'
  <2>1. CASE Framer!Invalid(capacity)
    BY <1>0, <2>1
       DEF FramerInv, Framer!Invalid, Framer!framer, Framer!history, Framer!TypeOK,
           Framer!LineIsKept, Framer!ReadyIsTheLine, Framer!Stored
  <2>2. CASE capacity # 0
    <3> DEFINE sent == Framer!Sent
    <3>1. /\ sent \in Seq(Text) /\ Len(sent) \in Nat
          /\ Framer!Stored \in Seq(FramerBytes) /\ Len(Framer!Stored) = l_length
          /\ (~l_discarding => Framer!Stored = sent /\ l_length = Len(sent))
          /\ (l_discarding => ~l_ended /\ Len(sent) > Framer!Usable)
      BY StoredIsSent
    <3>2. /\ l_ended' = (byte \in Delimiter)
          /\ byte \in Delimiter => l_line' = sent
          /\ byte \notin Delimiter => l_line' = Append(sent, byte)
          /\ l_overflows' = (IF l_ended THEN 0 ELSE l_overflows)
                              + (IF l_result' = "FRAMER_FRAME_OVERFLOW" THEN 1 ELSE 0)
      <4>1. Framer!Received(byte)
        BY <1>2, <2>2 DEF Framer!framer_feed_byte, Framer!Invalid
      <4>2. QED
        BY <4>1 DEF Framer!Received, Framer!is_delimiter
    <3>3. (IF l_ended THEN 0 ELSE l_overflows)
             = (IF Len(sent) > Framer!Usable THEN 1 ELSE 0)
      BY <1>0, <3>1 DEF Framer!LineIsKept, Framer!Sent
    <3>4. byte \notin Delimiter =>
             /\ byte \in Text /\ l_line' \in Seq(Text)
             /\ Len(l_line') = Len(sent) + 1
      BY <3>1, <3>2
    <3>5. l_line' \in Seq(Text) /\ l_ended' \in BOOLEAN /\ l_overflows' \in Nat
      <4>1. l_line' \in Seq(Text)
        BY <3>1, <3>2, <3>4
      <4>2. l_ended' \in BOOLEAN
        <5>1. l_ended' = (byte \in Delimiter)
          BY <3>2
        <5>2. (byte \in Delimiter) \in BOOLEAN
          OBVIOUS
        <5>3. QED
          BY <5>1, <5>2, Zenon
      <4>3. l_overflows' \in Nat
        <5>1. PICK old, new : /\ old = (IF l_ended THEN 0 ELSE l_overflows)
                              /\ new = (IF l_result' = "FRAMER_FRAME_OVERFLOW" THEN 1 ELSE 0)
          OBVIOUS
        <5>2. l_overflows' = old + new /\ old \in Nat /\ new \in Nat
          BY <1>0, <3>2, <5>1
        <5>3. QED
          BY <5>2
      <4>4. QED
        BY <4>1, <4>2, <4>3
    <3> HIDE DEF sent
    <3>6. CASE Framer!Discard(byte)
      <4>1. /\ l_discarding /\ l_discarding' = (byte \notin Delimiter)
            /\ l_result' = "FRAMER_WAITING" /\ l_length' = l_length
            /\ l_buffer' = l_buffer /\ l_output' = l_output
        BY <3>6 DEF Framer!Discard, Framer!is_delimiter
      <4>2. l_overflows' = 1 /\ Len(l_line') > Framer!Usable
        BY <1>0, <3>1, <3>2, <3>3, <3>4, <4>1
      <4>3. Framer!LineIsKept'
        BY <1>0, <3>2, <4>1, <4>2 DEF Framer!LineIsKept
      <4>4. QED
        BY <1>0, <3>5, <4>1, <4>3 DEF FramerInv, Framer!TypeOK, Framer!ReadyIsTheLine
    <3>7. CASE Framer!EmptyLine(byte) \/ Framer!Refuse(byte, capacity)
      <4>1. /\ ~l_discarding /\ byte \in Delimiter /\ l_discarding' = l_discarding
            /\ l_result' \in {"FRAMER_WAITING", "FRAMER_OUTPUT_TOO_SMALL"}
            /\ l_length' = 0 /\ l_buffer' = l_buffer
        BY <3>7 DEF Framer!EmptyLine, Framer!Refuse, Framer!is_delimiter, Framer!framer
      <4>2. l_overflows' = 0 /\ ~(Len(l_line') > Framer!Usable)
        BY <1>0, <3>1, <3>2, <3>3, <4>1
      <4>3. Framer!LineIsKept'
        BY <1>0, <3>2, <4>1, <4>2 DEF Framer!LineIsKept
      <4>4. QED
        BY <1>0, <3>5, <4>1, <4>3 DEF FramerInv, Framer!TypeOK, Framer!ReadyIsTheLine
    <3>8. CASE Framer!Ready(byte, capacity)
      <4>1. /\ ~l_discarding /\ byte \in Delimiter /\ l_discarding' = l_discarding
            /\ l_result' = "FRAMER_FRAME_READY" /\ l_output' = Framer!Stored
            /\ l_length # 0 /\ l_length' = 0 /\ l_buffer' = l_buffer
        BY <3>8 DEF Framer!Ready, Framer!is_delimiter
      <4>2. l_overflows' = 0 /\ ~(Len(l_line') > Framer!Usable)
        BY <1>0, <3>1, <3>2, <3>3, <4>1
      <4>3. Framer!LineIsKept'
        BY <1>0, <3>2, <4>1, <4>2 DEF Framer!LineIsKept
      <4>4. l_ended' /\ l_output' = l_line' /\ l_line' # <<>>
        <5>1. l_ended' /\ l_line' = sent /\ l_output' = sent
          BY <3>1, <3>2, <4>1
        <5>2. Len(sent) # 0
          BY <3>1, <4>1
        <5>3. QED
          BY <5>1, <5>2
      <4>5. QED
        BY <1>0, <3>5, <4>1, <4>3, <4>4 DEF FramerInv, Framer!TypeOK, Framer!ReadyIsTheLine
    <3>9. CASE Framer!Overflow(byte)
      <4>1. /\ ~l_discarding /\ byte \notin Delimiter /\ l_length >= Framer!Usable
            /\ l_discarding' = TRUE /\ l_result' = "FRAMER_FRAME_OVERFLOW"
            /\ l_length' = 0 /\ l_buffer' = l_buffer
        BY <3>9 DEF Framer!Overflow, Framer!Full, Framer!is_delimiter
      <4>2. l_overflows' = 1 /\ Len(l_line') > Framer!Usable
        BY <1>0, <3>1, <3>2, <3>3, <3>4, <4>1
      <4>3. Framer!LineIsKept'
        BY <1>0, <3>2, <4>1, <4>2 DEF Framer!LineIsKept
      <4>4. QED
        BY <1>0, <3>5, <4>1, <4>3 DEF FramerInv, Framer!TypeOK, Framer!ReadyIsTheLine
    <3>10. CASE Framer!Store(byte)
      <4>1. /\ ~l_discarding /\ byte \notin Delimiter /\ l_length < Framer!Usable
            /\ l_discarding' = l_discarding /\ l_result' = "FRAMER_WAITING"
            /\ l_length' = l_length + 1
            /\ l_buffer' = [l_buffer EXCEPT ![l_length] = byte]
        BY <1>0, <3>10 DEF Framer!Store, Framer!Full, Framer!is_delimiter
      <4>2. l_overflows' = 0 /\ ~(Len(l_line') > Framer!Usable)
        BY <1>0, <3>1, <3>2, <3>3, <3>4, <4>1
      <4>3. l_length \in Framer!Slots /\ byte \in FramerBytes
        BY <1>0, <4>1, FramerConstants DEF Framer!Slots, Framer!Usable, FramerBytes
      <4>4. l_buffer' \in [Framer!Slots -> FramerBytes]
        BY <1>0, <4>1, <4>3
      <4>5. Framer!Stored' = Append(Framer!Stored, byte)
        <5>1. Framer!Stored' = [i \in 1 .. l_length + 1 |-> l_buffer'[i - 1]]
          BY <4>1 DEF Framer!Stored
        <5>2. l_buffer'[l_length] = byte
          BY <1>0, <4>1, <4>3
        <5>3. \A i \in 1 .. l_length : /\ i - 1 \in Framer!Slots
                                       /\ l_buffer'[i - 1] = l_buffer[i - 1]
          BY <1>0, <4>1, <4>3, FramerConstants DEF Framer!Slots, Framer!Usable
        <5>4. Framer!Stored = [i \in 1 .. l_length |-> l_buffer[i - 1]]
          BY DEF Framer!Stored
        <5>5. QED
          BY <1>0, <3>1, <4>1, <4>3, <5>1, <5>2, <5>3, <5>4
      <4>6. Framer!LineIsKept'
        BY <1>0, <3>1, <3>2, <4>1, <4>2, <4>5 DEF Framer!LineIsKept
      <4>7. QED
        BY <1>0, <3>5, <4>1, <4>4, <4>6 DEF FramerInv, Framer!TypeOK, Framer!ReadyIsTheLine
    <3>11. QED
      BY <1>2, <2>2, <3>6, <3>7, <3>8, <3>9, <3>10 DEF Framer!framer_feed_byte, Framer!Invalid
  <2>3. QED
    BY <1>2, <2>1, <2>2 DEF Framer!framer_feed_byte
<1>3. QED
  BY <1>1, <1>2 DEF Framer!Next

(* For every size of the buffer and of the output areas: nothing is stored *)
(* outside the buffer, each line gets the verdict its length deserves and  *)
(* is kept unchanged, and what is reported is one whole line.              *)
THEOREM FramerIsRight ==
    Framer!Spec => [](Framer!TypeOK /\ Framer!LineIsKept /\ Framer!ReadyIsTheLine)
<1>1. FramerInv => Framer!TypeOK /\ Framer!LineIsKept /\ Framer!ReadyIsTheLine
  BY DEF FramerInv
<1>2. QED
  BY <1>1, FramerInitInv, FramerNextInv, PTL DEF Framer!Spec

(* The delimiter of a line that fits is answered, as the caller's area     *)
(* allows.                                                                 *)
THEOREM FramerAnswers == Framer!Spec => Framer!EndIsAnswered
<1> DEFINE Answered(byte, capacity) ==
             Framer!framer_feed_byte(byte, capacity) /\ Len(Framer!Sent) \in 1 .. Framer!Usable
             => l_result' = IF Len(Framer!Sent) < capacity THEN "FRAMER_FRAME_READY"
                                                      ELSE "FRAMER_OUTPUT_TOO_SMALL"
<1>1. ASSUME FramerInv, NEW capacity \in Capacities \ {0}, NEW byte \in Delimiter
      PROVE  Answered(byte, capacity)
  <2> SUFFICES ASSUME Framer!framer_feed_byte(byte, capacity),
                      Len(Framer!Sent) \in 1 .. Framer!Usable
               PROVE  l_result' = IF Len(Framer!Sent) < capacity THEN "FRAMER_FRAME_READY"
                                                      ELSE "FRAMER_OUTPUT_TOO_SMALL"
    OBVIOUS
  <2>1. l_length = Len(Framer!Sent) /\ ~l_discarding /\ l_length # 0
    BY <1>1, StoredIsSent, FramerConstants
  <2>2. capacity \in Nat
    BY StreamsAssumption DEF StreamsAssumption, Framer!ConstantsOK
  <2>3. Framer!Refuse(byte, capacity) \/ Framer!Ready(byte, capacity)
    BY <2>1 DEF Framer!framer_feed_byte, Framer!Invalid, Framer!Discard, Framer!EmptyLine,
                Framer!Overflow, Framer!Store, Framer!is_delimiter
  <2>4. QED
    BY <2>1, <2>2, <2>3, FramerConstants DEF Framer!Refuse, Framer!Ready, Framer!TooSmall
<1>2. FramerInv => [\A capacity \in Capacities \ {0}, byte \in Delimiter :
                       Answered(byte, capacity)]_(Framer!vars)
  BY <1>1
<1>3. QED
  BY <1>2, FramerInitInv, FramerNextInv, PTL DEF Framer!Spec, Framer!EndIsAnswered

-----------------------------------------------------------------------------
(* The length decoder *)

WireSeq == Seq(Decoder!WireByte)

(* A buffer whose whole frames have all been taken out. *)
Drained(b) == Len(b) >= 2 => ~Decoder!BadLength(b) /\ Decoder!Incomplete(b)

DecoderTyping == /\ d_looping \in BOOLEAN /\ d_ok \in BOOLEAN
                 /\ d_buffer \in WireSeq /\ d_stream \in WireSeq /\ d_sent \in WireSeq
                 /\ d_frames \in Seq(WireSeq)
                 /\ \A i \in 1 .. Len(d_frames) : Len(d_frames[i]) \in 1 .. MaxPayload

DecoderInv == /\ DecoderTyping
              /\ Decoder!StreamIsFrames
              /\ d_looping => d_ok
              /\ ~d_looping => Drained(d_buffer)

(* Pieces of a stream may be joined in any grouping.                       *)
LEMMA Regrouped ==
    \A s, t, u \in Seq(Decoder!WireByte) : (s \o t) \o u = s \o (t \o u)
  BY ConcatAssociative

LEMMA DecoderConstants == /\ Base \in Nat \ {0} /\ MaxPayload \in Nat \ {0}
                          /\ MaxPayload <= Base * Base - 1
                          /\ 0 \in Decoder!WireByte
<1>1. Base \in Nat \ {0} /\ MaxPayload \in 1 .. Base * Base - 1
  BY StreamsAssumption DEF StreamsAssumption, Decoder!ConstantsOK
<1>2. Base * Base - 1 \in Int
  BY <1>1
<1>3. QED
  BY <1>1, <1>2 DEF Decoder!WireByte

(* The two digits of a number below Base * Base. *)
LEMMA DigitsOf ==
    \A n, low, a \in Nat, high \in Int :
        n > 0 /\ low < n /\ a = n * high + low => a \div n = high /\ a % n = low
<1> SUFFICES ASSUME NEW n \in Nat, n > 0, NEW high \in Int, NEW low \in Nat, low < n,
                    NEW a \in Nat, a = n * high + low
             PROVE  a \div n = high /\ a % n = low
  OBVIOUS
<1> DEFINE q == a \div n
           r == a % n
<1>1. q \in Int /\ r \in Nat /\ r < n /\ a = n * q + r
  OBVIOUS
<1> HIDE DEF q, r
<1>2. n * (q - high) = low - r
  BY <1>1
<1>3. ~(q - high >= 1)
  <2> SUFFICES ASSUME q - high >= 1 PROVE FALSE
    OBVIOUS
  <2>1. n * (q - high) >= n
    BY <1>1
  <2>2. QED
    BY <1>1, <1>2, <2>1
<1>4. ~(q - high <= -1)
  <2> SUFFICES ASSUME q - high <= -1 PROVE FALSE
    OBVIOUS
  <2>1. n * (q - high) <= 0 - n
    BY <1>1
  <2>2. QED
    BY <1>1, <1>2, <2>1
<1>5. q = high /\ r = low
  BY <1>1, <1>2, <1>3, <1>4
<1>6. QED
  BY <1>5 DEF q, r

LEMMA PairOf ==
    ASSUME NEW S, NEW s \in Seq(S), Len(s) = 2
    PROVE  s = <<s[1], s[2]>>
  OBVIOUS

(* A frame that is taken out of a buffer, encoded again, is what was there. *)
LEMMA TakenIsWire ==
    ASSUME NEW b \in WireSeq, Len(b) >= 2,
           ~Decoder!BadLength(b), ~Decoder!Incomplete(b)
    PROVE  LET frame == SubSeq(b, Decoder!HeaderSize + 1, Decoder!frame_size(b))
               rest == SubSeq(b, Decoder!frame_size(b) + 1, Len(b))
           IN  /\ frame \in WireSeq /\ Len(frame) \in 1 .. MaxPayload
               /\ rest \in WireSeq
               /\ Decoder!Wire(frame) \in WireSeq
               /\ b = Decoder!Wire(frame) \o rest
<1> DEFINE S == Decoder!WireByte
           n == b[1] * Base + b[2]
           frame == SubSeq(b, 3, n + 2)
           rest == SubSeq(b, n + 3, Len(b))
<1>1. b \in Seq(S) /\ Len(b) \in Nat /\ b[1] \in S /\ b[2] \in S
  BY DEF WireSeq
<1>2. /\ n \in 1 .. MaxPayload /\ n \in Nat /\ n + 2 <= Len(b)
      /\ n \div Base = b[1] /\ n % Base = b[2]
  <2>1. b[1] \in 0 .. Base - 1 /\ b[2] \in 0 .. Base - 1
    BY <1>1 DEF Decoder!WireByte
  <2>2. b[1] * Base \in Nat
    BY <2>1, DecoderConstants
  <2>3. n \in Nat
    BY <2>1, <2>2
  <2>4. n # 0 /\ ~(n > MaxPayload)
    BY DEF Decoder!BadLength, Decoder!payload_len
  <2>5. ~(Len(b) < 2 + n)
    BY DEF Decoder!Incomplete, Decoder!frame_size, Decoder!payload_len, Decoder!HeaderSize
  <2>6. n \div Base = b[1] /\ n % Base = b[2]
    <3>1. n = Base * b[1] + b[2] /\ b[1] \in Int /\ b[2] \in Nat /\ b[2] < Base
          /\ Base \in Nat /\ Base > 0
      BY <2>1, DecoderConstants
    <3> HIDE DEF n
    <3>2. QED
      BY <2>3, <3>1, DigitsOf
  <2> HIDE DEF n
  <2>7. QED
    BY <1>1, <2>3, <2>4, <2>5, <2>6, DecoderConstants
<1>3. /\ SubSeq(b, Decoder!HeaderSize + 1, Decoder!frame_size(b)) = frame
      /\ SubSeq(b, Decoder!frame_size(b) + 1, Len(b)) = rest
  <2>1. /\ Decoder!frame_size(b) = 2 + n /\ Decoder!HeaderSize = 2
        /\ 2 + n = n + 2 /\ (2 + n) + 1 = n + 3 /\ 2 + 1 = 3
    <3>1. Decoder!frame_size(b) = 2 + n /\ Decoder!HeaderSize = 2
      BY DEF Decoder!frame_size, Decoder!payload_len, Decoder!HeaderSize
    <3> HIDE DEF n
    <3>2. QED
      BY <1>2, <3>1
  <2>2. QED
    BY <2>1
<1> HIDE DEF n
<1>4. frame \in Seq(S) /\ Len(frame) = n /\ rest \in Seq(S)
  BY <1>1, <1>2
<1>5. Decoder!Wire(frame) = <<b[1], b[2]>> \o frame
  BY <1>2, <1>4 DEF Decoder!Wire
<1>6. SubSeq(b, 1, n + 2) = <<b[1], b[2]>> \o frame
  <2>1. /\ SubSeq(b, 1, n + 2) = SubSeq(b, 1, 2) \o SubSeq(b, 3, n + 2)
    <3>1. 1 \in 1 .. Len(b) + 1 /\ 2 \in 1 - 1 .. Len(b) /\ n + 2 \in 2 .. Len(b) /\ 2 + 1 = 3
      BY <1>1, <1>2
    <3>2. QED
      BY <1>1, <3>1, ConcatAdjacentSubSeq
  <2>2. SubSeq(b, 1, 2) = <<b[1], b[2]>>
    <3>1. /\ SubSeq(b, 1, 2) \in Seq(S) /\ Len(SubSeq(b, 1, 2)) = 2
          /\ SubSeq(b, 1, 2)[1] = b[1] /\ SubSeq(b, 1, 2)[2] = b[2]
      BY <1>1, <1>2
    <3>2. QED
      BY <3>1, PairOf
  <2>3. QED
    BY <2>1, <2>2
<1>7. b = SubSeq(b, 1, n + 2) \o rest
  <2>1. /\ 1 \in 1 .. Len(b) + 1 /\ n + 2 \in 1 - 1 .. Len(b)
        /\ Len(b) \in n + 2 .. Len(b) /\ (n + 2) + 1 = n + 3
    BY <1>1, <1>2
  <2>2. SubSeq(b, 1, n + 2) \o SubSeq(b, (n + 2) + 1, Len(b)) = SubSeq(b, 1, Len(b))
    BY <1>1, <2>1, ConcatAdjacentSubSeq
  <2>3. SubSeq(b, 1, Len(b)) = b
    BY <1>1, SubSeqFull
  <2>4. QED
    BY <2>1, <2>2, <2>3
<1>8. <<b[1], b[2]>> \o frame \in Seq(S)
  <2>1. <<b[1], b[2]>> \in Seq(S)
    BY <1>1
  <2>2. QED
    BY <1>4, <2>1, ConcatProperties
<1>9. QED
  BY <1>2, <1>3, <1>4, <1>5, <1>6, <1>7, <1>8 DEF WireSeq

(* A decoder with nothing delivered or held. *)
EmptyDecoder == /\ d_looping \in BOOLEAN /\ d_ok \in BOOLEAN
                /\ d_buffer = <<>> /\ d_stream = <<>> /\ d_sent = <<>> /\ d_frames = <<>>

LEMMA EmptyIsTyped == EmptyDecoder => DecoderTyping
<1> SUFFICES ASSUME EmptyDecoder PROVE DecoderTyping
  OBVIOUS
<1>1. /\ d_buffer \in WireSeq /\ d_stream \in WireSeq /\ d_sent \in WireSeq
      /\ d_frames \in Seq(WireSeq)
  BY DEF EmptyDecoder, WireSeq
<1>2. 1 .. Len(d_frames) = {}
  BY DEF EmptyDecoder
<1>3. QED
  BY <1>1, <1>2 DEF EmptyDecoder, DecoderTyping

LEMMA DecoderInitInv == Decoder!Init => DecoderInv
<1> SUFFICES ASSUME Decoder!Init PROVE DecoderInv
  OBVIOUS
<1>1. /\ d_buffer = <<>> /\ d_stream = <<>> /\ d_sent = <<>> /\ d_frames = <<>>
      /\ d_ok = TRUE /\ d_looping = FALSE
  BY DEF Decoder!Init
<1>2. DecoderTyping
  <2>1. d_ok \in BOOLEAN /\ d_looping \in BOOLEAN
    BY <1>1, Zenon
  <2>2. QED
    BY <1>1, <2>1, EmptyIsTyped DEF EmptyDecoder
<1>3. Decoder!StreamIsFrames
  BY <1>1 DEF Decoder!StreamIsFrames
<1>4. Drained(d_buffer)
  BY <1>1 DEF Drained
<1>5. QED
  BY <1>1, <1>2, <1>3, <1>4 DEF DecoderInv

LEMMA ChunkIsSeq ==
    ASSUME NEW chunk \in Decoder!BoundedSeq(Decoder!WireByte, MaxChunk)
    PROVE  chunk \in WireSeq
<1>1. PICK m \in 0 .. MaxChunk : chunk \in [1 .. m -> Decoder!WireByte]
  BY DEF Decoder!BoundedSeq, Decoder!SeqOf
<1>2. m \in Nat
  BY <1>1, StreamsAssumption DEF StreamsAssumption, Decoder!ConstantsOK
<1>3. QED
  BY <1>1, <1>2 DEF WireSeq

(* A call starts from what the last one left, or from nothing after a      *)
(* refusal.                                                                *)
LEMMA CallContinues ==
    ASSUME DecoderInv, NEW chunk \in WireSeq, Decoder!Called(chunk)
    PROVE  /\ ~d_looping /\ d_ok' = TRUE
           /\ d_stream' = d_sent' \o (d_buffer \o chunk)
           /\ d_stream' \in WireSeq /\ d_sent' \in WireSeq
           /\ d_frames' \in Seq(WireSeq)
           /\ \A i \in 1 .. Len(d_frames') : Len(d_frames'[i]) \in 1 .. MaxPayload
<1>0. /\ DecoderTyping /\ Decoder!StreamIsFrames /\ ~d_looping /\ d_ok' = TRUE
      /\ chunk \in Seq(Decoder!WireByte)
      /\ d_buffer \in Seq(Decoder!WireByte) /\ d_sent \in Seq(Decoder!WireByte)
  BY DEF DecoderInv, DecoderTyping, Decoder!Called, WireSeq
<1>1. CASE d_ok
  <2>1. /\ d_frames' = d_frames /\ d_sent' = d_sent /\ d_stream' = d_stream \o chunk
        /\ d_stream = d_sent \o d_buffer
    BY <1>0, <1>1 DEF Decoder!Called, Decoder!StreamIsFrames
  <2>2. (d_sent \o d_buffer) \o chunk = d_sent \o (d_buffer \o chunk)
    BY <1>0, ConcatAssociative
  <2>3. d_stream \o chunk \in Seq(Decoder!WireByte)
    BY <1>0, ConcatProperties DEF DecoderTyping, WireSeq
  <2>4. QED
    BY <1>0, <2>1, <2>2, <2>3 DEF DecoderTyping, WireSeq
<1>2. CASE ~d_ok
  <2>1. /\ d_frames' = <<>> /\ d_sent' = <<>> /\ d_stream' = <<>> \o chunk
        /\ d_buffer = <<>>
    BY <1>0, <1>2 DEF Decoder!Called, Decoder!StreamIsFrames
  <2>2. <<>> \o chunk = chunk
    BY <1>0, ConcatEmptySeq
  <2>3. d_buffer \o chunk = chunk
    BY <2>1, <2>2
  <2>4. d_stream' = d_sent' \o (d_buffer \o chunk)
    BY <2>1, <2>2, <2>3
  <2>5. QED
    BY <1>0, <2>1, <2>2, <2>4 DEF WireSeq
<1>3. QED
  BY <1>1, <1>2

LEMMA DecoderNextInv == DecoderInv /\ [Decoder!Next]_(Decoder!vars) => DecoderInv'
<1> SUFFICES ASSUME DecoderInv, [Decoder!Next]_(Decoder!vars) PROVE DecoderInv'
  OBVIOUS
<1>0. /\ DecoderTyping /\ Decoder!StreamIsFrames
      /\ (d_looping => d_ok) /\ (~d_looping => Drained(d_buffer))
      /\ d_looping \in BOOLEAN /\ d_ok \in BOOLEAN
      /\ d_buffer \in Seq(Decoder!WireByte) /\ d_sent \in Seq(Decoder!WireByte)
      /\ d_stream \in Seq(Decoder!WireByte) /\ d_frames \in Seq(WireSeq)
      /\ \A i \in 1 .. Len(d_frames) : Len(d_frames[i]) \in 1 .. MaxPayload
  BY DEF DecoderInv, DecoderTyping, WireSeq
<1>1. CASE UNCHANGED Decoder!vars
  BY <1>0, <1>1 DEF DecoderInv, Decoder!vars, DecoderTyping, Decoder!StreamIsFrames
<1>2. ASSUME NEW chunk \in Decoder!BoundedSeq(Decoder!WireByte, MaxChunk),
             Decoder!FeedChunk(chunk)
      PROVE  DecoderInv'
  <2>1. /\ chunk \in WireSeq /\ Decoder!Called(chunk)
        /\ d_buffer' = d_buffer \o chunk /\ d_looping' = TRUE
    BY <1>2, ChunkIsSeq DEF Decoder!FeedChunk
  <2>2. /\ d_ok' = TRUE /\ d_stream' = d_sent' \o d_buffer'
        /\ d_stream' \in WireSeq /\ d_sent' \in WireSeq /\ d_frames' \in Seq(WireSeq)
        /\ \A i \in 1 .. Len(d_frames') : Len(d_frames'[i]) \in 1 .. MaxPayload
    BY <2>1, CallContinues
  <2>3. d_buffer' \in WireSeq
    BY <1>0, <2>1, ConcatProperties DEF WireSeq
  <2>4. QED
    BY <2>1, <2>2, <2>3 DEF DecoderInv, DecoderTyping, Decoder!StreamIsFrames
<1>3. CASE Decoder!FeedNothing
  <2>1. /\ <<>> \in WireSeq /\ Decoder!Called(<<>>)
        /\ d_buffer' = d_buffer /\ d_looping' = d_looping
    BY <1>3 DEF Decoder!FeedNothing, WireSeq
  <2>2. /\ d_ok' = TRUE /\ ~d_looping /\ d_stream' = d_sent' \o (d_buffer \o <<>>)
        /\ d_stream' \in WireSeq /\ d_sent' \in WireSeq /\ d_frames' \in Seq(WireSeq)
        /\ \A i \in 1 .. Len(d_frames') : Len(d_frames'[i]) \in 1 .. MaxPayload
    BY <2>1, CallContinues
  <2>3. d_buffer \o <<>> = d_buffer
    BY <1>0, ConcatEmptySeq
  <2>4. d_stream' = d_sent' \o d_buffer'
    BY <2>1, <2>2, <2>3
  <2>5. d_buffer' \in WireSeq /\ Drained(d_buffer)' /\ ~d_looping'
    BY <1>0, <2>1, <2>2 DEF WireSeq, Drained
  <2>6. QED
    BY <2>1, <2>2, <2>4, <2>5 DEF DecoderInv, DecoderTyping, Decoder!StreamIsFrames
<1>4. CASE Decoder!FeedNull \/ Decoder!ResetCall
  <2>1. /\ d_buffer' = <<>> /\ d_frames' = <<>> /\ d_stream' = <<>> /\ d_sent' = <<>>
        /\ ~d_looping /\ d_looping' = d_looping
        /\ d_ok' = FALSE \/ d_ok' = d_ok
    BY <1>4 DEF Decoder!FeedNull, Decoder!ResetCall, Decoder!Reset
  <2>2. DecoderTyping'
    <3>1. d_ok' \in BOOLEAN /\ d_looping' \in BOOLEAN
      BY <1>0, <2>1, Zenon
    <3>2. EmptyDecoder'
      BY <2>1, <3>1 DEF EmptyDecoder
    <3>3. QED
      BY <3>2, EmptyIsTyped, PTL
  <2>3. Drained(d_buffer)'
    BY <2>1 DEF Drained
  <2>4. Decoder!StreamIsFrames'
    BY <2>1 DEF Decoder!StreamIsFrames, Decoder!IsPrefix
  <2>5. QED
    BY <2>1, <2>2, <2>3, <2>4 DEF DecoderInv
<1>5. CASE Decoder!Deliver
  <2> DEFINE frame == SubSeq(d_buffer, Decoder!HeaderSize + 1, Decoder!frame_size(d_buffer))
             rest == SubSeq(d_buffer, Decoder!frame_size(d_buffer) + 1, Len(d_buffer))
             wire == Decoder!Wire(frame)
  <2>1. /\ d_looping /\ Len(d_buffer) >= 2
        /\ ~Decoder!BadLength(d_buffer) /\ ~Decoder!Incomplete(d_buffer)
        /\ d_frames' = Append(d_frames, frame) /\ d_sent' = d_sent \o wire
        /\ d_buffer' = rest
        /\ d_looping' = d_looping /\ d_ok' = d_ok /\ d_stream' = d_stream
    BY <1>5 DEF Decoder!Deliver, Decoder!HeaderSize
  <2>2. /\ frame \in WireSeq /\ Len(frame) \in 1 .. MaxPayload
        /\ rest \in Seq(Decoder!WireByte) /\ wire \in Seq(Decoder!WireByte)
        /\ d_buffer = wire \o rest
    BY <1>0, <2>1, TakenIsWire DEF WireSeq
  <2> HIDE DEF frame, rest, wire
  <2>3. d_stream' = d_sent' \o d_buffer'
    <3>1. d_stream = d_sent \o (wire \o rest)
      <4>1. d_stream = d_sent \o d_buffer
        <5>1. d_ok
          BY <1>0, <2>1
        <5>2. QED
          BY <1>0, <5>1 DEF Decoder!StreamIsFrames
      <4>2. d_buffer = wire \o rest
        BY <2>2
      <4>3. QED
        BY <4>1, <4>2, Zenon
    <3>2. d_sent \o (wire \o rest) = (d_sent \o wire) \o rest
      <4>1. /\ d_sent \in Seq(Decoder!WireByte) /\ wire \in Seq(Decoder!WireByte)
            /\ rest \in Seq(Decoder!WireByte)
        BY <1>0, <2>2
      <4>2. (d_sent \o wire) \o rest = d_sent \o (wire \o rest)
        BY <4>1, Regrouped
      <4>3. QED
        BY <4>2
    <3>3. d_stream' = d_stream /\ d_sent' = d_sent \o wire /\ d_buffer' = rest
      BY <2>1
    <3>4. QED
      BY <3>1, <3>2, <3>3
  <2>4. d_sent \o wire \in Seq(Decoder!WireByte)
    BY <1>0, <2>2, ConcatProperties
  <2>5. d_frames' \in Seq(WireSeq)
    BY <1>0, <2>1, <2>2
  <2>6. \A i \in 1 .. Len(d_frames') : Len(d_frames'[i]) \in 1 .. MaxPayload
    <3>1. /\ Len(d_frames') = Len(d_frames) + 1 /\ Len(d_frames) \in Nat
          /\ d_frames'[Len(d_frames) + 1] = frame
          /\ \A i \in 1 .. Len(d_frames) : d_frames'[i] = d_frames[i]
      BY <1>0, <2>1, <2>2
    <3> SUFFICES ASSUME NEW i \in 1 .. Len(d_frames')
                 PROVE  Len(d_frames'[i]) \in 1 .. MaxPayload
      OBVIOUS
    <3>2. CASE i = Len(d_frames) + 1
      BY <2>2, <3>1, <3>2
    <3>3. CASE i # Len(d_frames) + 1
      <4>1. i \in 1 .. Len(d_frames)
        BY <3>1, <3>3
      <4>2. Len(d_frames[i]) \in 1 .. MaxPayload
        BY <1>0, <4>1 DEF DecoderTyping
      <4>3. QED
        BY <3>1, <4>1, <4>2
    <3>4. QED
      BY <3>2, <3>3
  <2>7. DecoderTyping'
    BY <1>0, <2>1, <2>2, <2>4, <2>5, <2>6 DEF DecoderTyping, WireSeq
  <2>8. QED
    BY <1>0, <2>1, <2>3, <2>7 DEF DecoderInv, Decoder!StreamIsFrames
<1>6. CASE Decoder!Refuse
  <2>1. /\ d_looping /\ Len(d_buffer) >= 2 /\ Decoder!BadLength(d_buffer)
        /\ d_buffer' = <<>> /\ d_ok' = FALSE /\ d_looping' = FALSE
        /\ d_frames' = d_frames /\ d_stream' = d_stream /\ d_sent' = d_sent
    BY <1>6 DEF Decoder!Refuse, Decoder!HeaderSize
  <2>2. d_stream = d_sent \o d_buffer /\ Len(d_buffer) \in Nat /\ Len(d_sent) \in Nat
    BY <1>0, <2>1 DEF Decoder!StreamIsFrames
  <2>3. Len(d_stream) = Len(d_sent) + Len(d_buffer)
    BY <1>0, <2>2, ConcatProperties
  <2>4. Decoder!IsPrefix(d_sent, d_stream)
    <3>1. CASE Len(d_sent) = 0
      <4>1. SubSeq(d_sent, 1, 0) = <<>> /\ SubSeq(d_stream, 1, 0) = <<>>
        BY SubSeqEmpty
      <4>2. QED
        BY <2>2, <2>3, <3>1, <4>1 DEF Decoder!IsPrefix
    <3>2. CASE Len(d_sent) # 0
      <4>1. SubSeq(d_stream, 1, Len(d_sent)) = SubSeq(d_sent, 1, Len(d_sent))
        BY <1>0, <2>2, <3>2, SubSeqOfConcat1
      <4>2. QED
        BY <2>2, <2>3, <4>1 DEF Decoder!IsPrefix
    <3>3. QED
      BY <3>1, <3>2
  <2>5. SubSeq(d_stream, Len(d_sent) + 1, Len(d_stream)) = d_buffer
    <3>1. SubSeq(d_stream, Len(d_sent) + 1, Len(d_stream))
             = SubSeq(d_buffer, Len(d_sent) + 1 - Len(d_sent), Len(d_stream) - Len(d_sent))
      BY <1>0, <2>1, <2>2, <2>3, SubSeqOfConcat2
    <3>2. Len(d_sent) + 1 - Len(d_sent) = 1 /\ Len(d_stream) - Len(d_sent) = Len(d_buffer)
      BY <2>2, <2>3
    <3>3. QED
      BY <1>0, <3>1, <3>2, SubSeqFull
  <2>6. d_buffer[1] * Base + d_buffer[2] \notin 1 .. MaxPayload
    BY <2>1, DecoderConstants DEF Decoder!BadLength, Decoder!payload_len
  <2>7. Decoder!StreamIsFrames'
    BY <2>1, <2>4, <2>5, <2>6 DEF Decoder!StreamIsFrames, Decoder!HeaderSize
  <2>8. DecoderTyping'
    <3>1. d_ok' \in BOOLEAN /\ d_looping' \in BOOLEAN
      BY <2>1, Zenon
    <3>2. d_buffer' \in WireSeq
      BY <2>1 DEF WireSeq
    <3>3. QED
      BY <1>0, <2>1, <3>1, <3>2 DEF DecoderTyping
  <2>9. Drained(d_buffer)'
    BY <2>1 DEF Drained
  <2>10. QED
    BY <2>1, <2>7, <2>8, <2>9 DEF DecoderInv
<1>7. CASE Decoder!Wait
  <2>1. /\ d_looping /\ Drained(d_buffer) /\ d_looping' = FALSE
        /\ d_buffer' = d_buffer /\ d_ok' = d_ok
        /\ d_frames' = d_frames /\ d_stream' = d_stream /\ d_sent' = d_sent
    BY <1>7 DEF Decoder!Wait, Drained, Decoder!HeaderSize
  <2>2. DecoderTyping' /\ Decoder!StreamIsFrames' /\ Drained(d_buffer)'
    BY <1>0, <2>1 DEF DecoderTyping, Decoder!StreamIsFrames, Drained, WireSeq
  <2>3. QED
    BY <2>1, <2>2 DEF DecoderInv
<1>8. QED
  BY <1>1, <1>2, <1>3, <1>4, <1>5, <1>6, <1>7 DEF Decoder!Next

(* However the stream is cut into chunks and for every length of a frame:  *)
(* the frames delivered and the buffer are the bytes received, in order,   *)
(* and between two calls the buffer holds less than one frame.             *)
THEOREM DecoderIsRight ==
    Decoder!Spec => [](/\ Decoder!TypeOK /\ Decoder!StreamIsFrames
                       /\ Decoder!NothingCompleteIsHeld)
<1>1. DecoderInv => Decoder!TypeOK /\ Decoder!NothingCompleteIsHeld
  <2> SUFFICES ASSUME DecoderInv PROVE Decoder!TypeOK /\ Decoder!NothingCompleteIsHeld
    OBVIOUS
  <2>0. /\ DecoderTyping /\ (~d_looping => Drained(d_buffer))
        /\ d_buffer \in Seq(Decoder!WireByte) /\ Len(d_buffer) \in Nat
        /\ d_frames \in Seq(WireSeq)
    BY DEF DecoderInv, DecoderTyping, WireSeq
  <2>1. ASSUME ~d_looping, Len(d_buffer) >= 2
        PROVE  /\ d_buffer[1] * Base + d_buffer[2] \in 1 .. MaxPayload
               /\ Len(d_buffer) < 2 + (d_buffer[1] * Base + d_buffer[2])
    <3> DEFINE n == d_buffer[1] * Base + d_buffer[2]
    <3>1. n # 0 /\ ~(n > MaxPayload) /\ Len(d_buffer) < 2 + n
      BY <2>0, <2>1 DEF Drained, Decoder!BadLength, Decoder!Incomplete, Decoder!frame_size,
                        Decoder!payload_len, Decoder!HeaderSize
    <3>2. n \in Nat
      <4>1. d_buffer[1] \in Nat /\ d_buffer[2] \in Nat
        BY <2>0, <2>1, DecoderConstants DEF Decoder!WireByte
      <4>2. d_buffer[1] * Base \in Nat
        BY <4>1, DecoderConstants
      <4>3. QED
        BY <4>1, <4>2
    <3> HIDE DEF n
    <3>3. n \in 1 .. MaxPayload /\ Len(d_buffer) < 2 + n
      BY <3>1, <3>2, DecoderConstants
    <3>4. QED
      BY <3>3 DEF n
  <2>2. Decoder!NothingCompleteIsHeld
    <3> SUFFICES ASSUME ~d_looping, Len(d_buffer) >= 2
                 PROVE  /\ d_buffer[1] * Base + d_buffer[2] \in 1 .. MaxPayload
                        /\ Len(d_buffer) < 2 + d_buffer[1] * Base + d_buffer[2]
      BY DEF Decoder!NothingCompleteIsHeld, Decoder!HeaderSize
    <3>1. d_buffer[1] \in Nat /\ d_buffer[2] \in Nat
      BY <2>0, DecoderConstants DEF Decoder!WireByte
    <3>2. d_buffer[1] * Base \in Nat
      BY <3>1, DecoderConstants
    <3>3. QED
      BY <2>1, <3>1, <3>2
  <2>3. ~d_looping => Len(d_buffer) < 2 + MaxPayload
    <3>1. CASE Len(d_buffer) >= 2
      <4> SUFFICES ASSUME ~d_looping PROVE Len(d_buffer) < 2 + MaxPayload
        OBVIOUS
      <4>1. PICK n : /\ n = d_buffer[1] * Base + d_buffer[2]
                     /\ n \in 1 .. MaxPayload /\ Len(d_buffer) < 2 + n
        BY <2>1, <3>1
      <4>2. QED
        BY <2>0, <4>1, DecoderConstants
    <3>2. CASE ~(Len(d_buffer) >= 2)
      BY <2>0, <3>2, DecoderConstants
    <3>3. QED
      BY <3>1, <3>2
  <2>4. \A i \in DOMAIN d_buffer : d_buffer[i] \in Decoder!WireByte
    BY <2>0
  <2>5. \A i \in DOMAIN d_frames : Len(d_frames[i]) \in 1 .. MaxPayload
    <3>1. DOMAIN d_frames = 1 .. Len(d_frames)
      BY <2>0
    <3>2. QED
      BY <2>0, <3>1 DEF DecoderTyping
  <2>6. QED
    BY <2>0, <2>2, <2>3, <2>4, <2>5 DEF DecoderTyping, Decoder!TypeOK, Decoder!HeaderSize
<1>2. DecoderInv => Decoder!StreamIsFrames
  BY DEF DecoderInv
<1>3. QED
  BY <1>1, <1>2, DecoderInitInv, DecoderNextInv, PTL DEF Decoder!Spec

-----------------------------------------------------------------------------
(* The binary searches *)

(* What the loop has ruled out: everything left of `left` is too small,     *)
(* everything right of `right` too large or a later equal, and a noted      *)
(* result is next to the part still searched.                               *)

SearchTyping == /\ search \in Search!Closed \cup {"binary_search"}
                /\ size \in Int
                /\ search = "binary_search" => size >= 0
                /\ array \in [Search!Indices -> Int]
                /\ target \in Int
                /\ left \in Int /\ right \in Int /\ result \in Int
                /\ null \in BOOLEAN /\ finished \in BOOLEAN

SearchBounds == /\ 0 <= left
                /\ right <= IF search \in Search!Closed THEN size - 1 ELSE size

(* What the loop has ruled out so far. *)
FirstInv == /\ \A i \in Search!Indices : i < left => array[i] < target
            /\ \A i \in Search!Indices : i > right => array[i] >= target
            /\ result = -1 => \A i \in Search!Indices : i > right => array[i] > target
            /\ result # -1 => /\ result \in Search!Indices /\ array[result] = target
                              /\ right = result - 1

LastInv == /\ \A i \in Search!Indices : i < left => array[i] <= target
           /\ \A i \in Search!Indices : i > right => array[i] > target
           /\ result = -1 => \A i \in Search!Indices : i < left => array[i] < target
           /\ result # -1 => /\ result \in Search!Indices /\ array[result] = target
                             /\ left = result + 1

AnyInv == /\ \A i \in Search!Indices : i < left => array[i] < target
          /\ \A i \in Search!Indices : i >= right => array[i] > target
          /\ result # -1 => /\ result \in Search!Indices /\ array[result] = target
                            /\ finished

SearchInv == /\ SearchTyping /\ Search!Sorted /\ SearchBounds
             /\ search \in Search!First => FirstInv
             /\ search = "find_last" => LastInv
             /\ search = "binary_search" => AnyInv
             /\ Search!Rejected => result = -1
             /\ finished => \/ Search!Rejected \/ ~Search!Searching
                            \/ search = "binary_search" /\ result # -1

LEMMA SearchInitInv ==
    ASSUME Search!ConstantsOK
    PROVE  Search!Init => SearchInv
<1> SUFFICES ASSUME Search!Init PROVE SearchInv
  OBVIOUS
<1>0. MaxSize \in Nat /\ Elements \subseteq Int
  BY DEF Search!ConstantsOK
<1>1. /\ left = 0 /\ result = -1 /\ finished = FALSE
      /\ size \in Int /\ target \in Int
      /\ right = IF search \in Search!Closed THEN size - 1 ELSE size
      /\ search = "binary_search" => size >= 0
  <2>1. size \in -1 .. MaxSize /\ target \in Elements
    BY DEF Search!Init
  <2>2. /\ left = 0 /\ result = -1 /\ finished = FALSE
        /\ right = IF search \in Search!Closed THEN size - 1 ELSE size
        /\ search = "binary_search" => size >= 0
    BY Zenon DEF Search!Init
  <2>3. size \in Int /\ target \in Int
    BY <1>0, <2>1
  <2>4. QED
    BY <2>2, <2>3
<1>2. SearchTyping /\ Search!Sorted /\ SearchBounds
  <2>1. array \in [Search!Indices -> Int]
    BY <1>0 DEF Search!Init
  <2>2. /\ Search!Sorted /\ search \in Search!Closed \cup {"binary_search"}
        /\ null \in BOOLEAN
    BY DEF Search!Init
  <2>3. SearchBounds /\ left \in Int /\ right \in Int /\ result \in Int
    BY <1>1 DEF SearchBounds
  <2>4. finished \in BOOLEAN
    BY <1>1
  <2>5. QED
    BY <1>1, <2>1, <2>2, <2>3, <2>4 DEF SearchTyping
<1>3. search \in Search!First => FirstInv
  <2> SUFFICES ASSUME search \in Search!First PROVE FirstInv
    OBVIOUS
  <2>1. right = size - 1 /\ left = 0 /\ result = -1 /\ size \in Int
    BY <1>1 DEF Search!First, Search!Closed
  <2>2. \A i \in Search!Indices : ~(i < left) /\ ~(i > right)
    BY <2>1 DEF Search!Indices
  <2>3. QED
    BY <2>1, <2>2 DEF FirstInv
<1>4. search = "find_last" => LastInv
  <2> SUFFICES ASSUME search = "find_last" PROVE LastInv
    OBVIOUS
  <2>1. right = size - 1 /\ left = 0 /\ result = -1 /\ size \in Int
    BY <1>1 DEF Search!Closed
  <2>2. \A i \in Search!Indices : ~(i < left) /\ ~(i > right)
    BY <2>1 DEF Search!Indices
  <2>3. QED
    BY <2>1, <2>2 DEF LastInv
<1>5. search = "binary_search" => AnyInv
  BY <1>1 DEF AnyInv, Search!Indices, Search!Closed
<1>6. QED
  BY <1>1, <1>2, <1>3, <1>4, <1>5 DEF SearchInv

(* The index the loop reads lies between the two ends, inside the array. *)
LEMMA MiddleInside ==
    ASSUME SearchInv, Search!Searching
    PROVE  /\ Search!middle \in Int /\ left <= Search!middle /\ Search!middle <= right
           /\ search \notin Search!Closed => Search!middle < right
           /\ Search!middle \in Search!Indices
<1>1. left \in Int /\ right \in Int /\ size \in Int /\ 0 <= left
  BY DEF SearchInv, SearchTyping, SearchBounds
<1>2. CASE search \in Search!Closed
  BY <1>1, <1>2
     DEF SearchInv, SearchBounds, Search!Searching, Search!middle, Search!Indices
<1>3. CASE search \notin Search!Closed
  BY <1>1, <1>3
     DEF SearchInv, SearchBounds, Search!Searching, Search!middle, Search!Indices
<1>4. QED
  BY <1>2, <1>3

(* What is left of the middle is not greater, what is right not smaller. *)
LEMMA MiddleSplits ==
    ASSUME SearchInv, Search!Searching
    PROVE  /\ \A i \in Search!Indices : i <= Search!middle => array[i] <= array[Search!middle]
           /\ \A i \in Search!Indices : i >= Search!middle => array[i] >= array[Search!middle]
           /\ array[Search!middle] \in Int
           /\ \A i \in Search!Indices : array[i] \in Int
<1>1. Search!middle \in Search!Indices
  BY MiddleInside
<1>2. QED
  BY <1>1 DEF SearchInv, Search!Sorted, SearchTyping

(* The conjuncts of Inv that concern no loop. *)
LEMMA StepTypes ==
    ASSUME SearchInv, [Search!Next]_(Search!vars)
    PROVE  SearchTyping' /\ Search!Sorted' /\ SearchBounds'
<1>0. /\ left \in Int /\ right \in Int /\ size \in Int /\ 0 <= left
      /\ SearchTyping /\ Search!Sorted /\ SearchBounds
  BY DEF SearchInv, SearchTyping, SearchBounds
<1>1. CASE UNCHANGED Search!vars
  BY <1>0, <1>1
     DEF Search!vars, Search!arguments, SearchTyping, Search!Sorted, SearchBounds,
         Search!Indices
<1>2. CASE Search!Return \/ Search!Returned
  BY <1>0, <1>2
     DEF Search!Return, Search!Returned, Search!vars, Search!arguments, SearchTyping,
         Search!Sorted, SearchBounds, Search!Indices
<1>3. CASE Search!GoRight
  <2>1. Search!middle \in Int /\ left <= Search!middle
    BY <1>3, MiddleInside DEF Search!GoRight
  <2>2. QED
    BY <1>0, <1>3, <2>1
       DEF Search!GoRight, Search!arguments, SearchTyping, Search!Sorted, SearchBounds,
           Search!Indices
<1>4. CASE Search!GoLeft
  <2>1. Search!middle \in Int /\ Search!middle <= right
    BY <1>4, MiddleInside DEF Search!GoLeft
  <2>2. QED
    BY <1>0, <1>4, <2>1
       DEF Search!GoLeft, Search!arguments, SearchTyping, Search!Sorted, SearchBounds,
           Search!Indices
<1>5. CASE Search!NoteFirst
  <2>1. Search!middle \in Int /\ Search!middle <= right
    BY <1>5, MiddleInside DEF Search!NoteFirst
  <2>2. QED
    BY <1>0, <1>5, <2>1
       DEF Search!NoteFirst, Search!arguments, SearchTyping, Search!Sorted,
           SearchBounds, Search!Indices
<1>6. CASE Search!NoteLast
  <2>1. Search!middle \in Int /\ left <= Search!middle
    BY <1>6, MiddleInside DEF Search!NoteLast
  <2>2. QED
    BY <1>0, <1>6, <2>1
       DEF Search!NoteLast, Search!arguments, SearchTyping, Search!Sorted, SearchBounds,
           Search!Indices
<1>7. CASE Search!ReturnFound
  <2>1. Search!middle \in Int
    BY <1>7, MiddleInside DEF Search!ReturnFound
  <2>2. QED
    BY <1>0, <1>7, <2>1
       DEF Search!ReturnFound, Search!arguments, SearchTyping, Search!Sorted,
           SearchBounds, Search!Indices
<1>8. QED
  BY <1>1, <1>2, <1>3, <1>4, <1>5, <1>6, <1>7 DEF Search!Next

(* What an iteration leaves alone, and where its middle is. *)
Iterating == \/ Search!GoRight \/ Search!GoLeft
             \/ Search!NoteFirst \/ Search!NoteLast
             \/ Search!ReturnFound

LEMMA Iteration ==
    ASSUME SearchInv, Iterating
    PROVE  /\ Search!Searching /\ ~Search!Rejected /\ ~finished
           /\ UNCHANGED Search!arguments
           /\ Search!middle \in Search!Indices /\ Search!middle \in Int
           /\ left <= Search!middle /\ Search!middle <= right
           /\ left \in Int /\ right \in Int /\ target \in Int /\ size \in Int
<1>1. Search!Searching /\ ~Search!Rejected /\ ~finished /\ UNCHANGED Search!arguments
  BY
     DEF Iterating, Search!GoRight, Search!GoLeft, Search!NoteFirst, Search!NoteLast,
         Search!ReturnFound, Search!Running
<1>2. QED
  BY <1>1, MiddleInside DEF SearchInv, SearchTyping

LEMMA StepFirst ==
    ASSUME SearchInv, Iterating, search \in Search!First
    PROVE  FirstInv'
<1>1. /\ FirstInv /\ search \in Search!Closed
      /\ search # "find_last" /\ search # "binary_search"
      /\ size' = size /\ array' = array /\ target' = target
  BY Iteration
     DEF SearchInv, Search!First, Search!Closed, Search!arguments, Search!Indices
<1>2. CASE Search!GoRight
  <2>1. /\ right' = right /\ result' = result
        /\ left' = Search!middle + 1 /\ array[Search!middle] < target
    BY <1>2 DEF Search!GoRight
  <2>2. QED
    BY <1>1, <2>1, Iteration, MiddleSplits DEF FirstInv, Search!Indices
<1>3. CASE Search!GoLeft
  <2>1. /\ right' = Search!middle - 1 /\ result' = result
        /\ left' = left /\ array[Search!middle] > target
    BY <1>1, <1>3 DEF Search!GoLeft
  <2>2. result = -1
    BY <1>1, <2>1, Iteration, MiddleSplits DEF FirstInv, Search!Indices
  <2>3. QED
    BY <1>1, <2>1, <2>2, Iteration, MiddleSplits DEF FirstInv, Search!Indices
<1>4. CASE Search!NoteFirst
  <2>1. /\ right' = Search!middle - 1 /\ result' = Search!middle
        /\ left' = left /\ array[Search!middle] = target
    BY <1>4 DEF Search!NoteFirst
  <2>2. QED
    BY <1>1, <2>1, Iteration, MiddleSplits DEF FirstInv, Search!Indices
<1>5. QED
  BY <1>1, <1>2, <1>3, <1>4 DEF Iterating, Search!NoteLast, Search!ReturnFound

LEMMA StepLast ==
    ASSUME SearchInv, Iterating, search = "find_last"
    PROVE  LastInv'
<1>1. /\ LastInv /\ search \in Search!Closed
      /\ search \notin Search!First /\ search # "binary_search"
      /\ size' = size /\ array' = array /\ target' = target
  BY Iteration
     DEF SearchInv, Search!First, Search!Closed, Search!arguments, Search!Indices
<1>2. CASE Search!GoRight
  <2>1. /\ right' = right /\ result' = result
        /\ left' = Search!middle + 1 /\ array[Search!middle] < target
    BY <1>2 DEF Search!GoRight
  <2>2. result = -1
    BY <1>1, <2>1, Iteration, MiddleSplits DEF LastInv, Search!Indices
  <2>3. QED
    BY <1>1, <2>1, <2>2, Iteration, MiddleSplits DEF LastInv, Search!Indices
<1>3. CASE Search!GoLeft
  <2>1. /\ right' = Search!middle - 1 /\ result' = result
        /\ left' = left /\ array[Search!middle] > target
    BY <1>1, <1>3 DEF Search!GoLeft
  <2>2. QED
    BY <1>1, <2>1, Iteration, MiddleSplits DEF LastInv, Search!Indices
<1>4. CASE Search!NoteLast
  <2>1. /\ left' = Search!middle + 1 /\ result' = Search!middle
        /\ right' = right /\ array[Search!middle] = target
    BY <1>4 DEF Search!NoteLast
  <2>2. QED
    BY <1>1, <2>1, Iteration, MiddleSplits DEF LastInv, Search!Indices
<1>5. QED
  BY <1>1, <1>2, <1>3, <1>4 DEF Iterating, Search!NoteFirst, Search!ReturnFound

LEMMA StepAny ==
    ASSUME SearchInv, Iterating, search = "binary_search"
    PROVE  AnyInv'
<1>1. /\ AnyInv /\ search \notin Search!Closed
      /\ search \notin Search!First /\ search # "find_last"
      /\ size' = size /\ array' = array /\ target' = target
      /\ result = -1
  BY Iteration
     DEF SearchInv, Search!First, Search!Closed, Search!arguments, Search!Indices,
         AnyInv
<1>2. CASE Search!GoRight
  <2>1. /\ right' = right /\ result' = result
        /\ left' = Search!middle + 1 /\ array[Search!middle] < target
    BY <1>2 DEF Search!GoRight
  <2>2. QED
    BY <1>1, <2>1, Iteration, MiddleSplits DEF AnyInv, Search!Indices
<1>3. CASE Search!GoLeft
  <2>1. /\ right' = Search!middle /\ result' = result
        /\ left' = left /\ array[Search!middle] > target
    BY <1>1, <1>3 DEF Search!GoLeft
  <2>2. QED
    BY <1>1, <2>1, Iteration, MiddleSplits DEF AnyInv, Search!Indices
<1>4. CASE Search!ReturnFound
  <2>1. /\ left' = left /\ right' = right /\ result' = Search!middle /\ finished'
        /\ array[Search!middle] = target
    BY <1>4 DEF Search!ReturnFound
  <2>2. QED
    BY <1>1, <2>1, Iteration DEF AnyInv, Search!Indices
<1>5. QED
  BY <1>1, <1>2, <1>3, <1>4 DEF Iterating, Search!NoteFirst, Search!NoteLast

LEMMA SearchNextInv == SearchInv /\ [Search!Next]_(Search!vars) => SearchInv'
<1> SUFFICES ASSUME SearchInv, [Search!Next]_(Search!vars) PROVE SearchInv'
  OBVIOUS
<1>0. SearchTyping' /\ Search!Sorted' /\ SearchBounds'
  BY StepTypes
<1>1. CASE Iterating
  <2>1. UNCHANGED <<search, size, null>> /\ ~Search!Rejected /\ ~finished
    BY <1>1, Iteration DEF Search!arguments
  <2>2. ~Search!Rejected'
    BY <2>1 DEF Search!Rejected
  <2>3. finished' => search = "binary_search" /\ result' # -1
    <3>1. Search!middle \in Search!Indices /\ size \in Int
      BY <1>1, Iteration
    <3>2. Search!middle # -1
      BY <3>1 DEF Search!Indices
    <3>3. QED
      BY <1>1, <2>1, <3>2
         DEF Iterating, Search!GoRight, Search!GoLeft, Search!NoteFirst,
             Search!NoteLast, Search!ReturnFound
  <2>4. QED
    BY <1>0, <1>1, <2>1, <2>2, <2>3, StepFirst, StepLast, StepAny DEF SearchInv
<1>2. CASE Search!Return
  <2>1. /\ UNCHANGED <<Search!arguments, left, right, result>> /\ finished'
        /\ Search!Rejected \/ ~Search!Searching
    BY <1>2 DEF Search!Return
  <2>2. /\ FirstInv' <=> FirstInv
        /\ LastInv' <=> LastInv
        /\ AnyInv => AnyInv'
        /\ Search!Rejected' <=> Search!Rejected
        /\ Search!Searching' <=> Search!Searching
    BY <2>1
       DEF FirstInv, LastInv, AnyInv, Search!Rejected, Search!Searching,
           Search!arguments, Search!Indices
  <2>3. QED
    BY <1>0, <2>1, <2>2 DEF SearchInv, Search!arguments
<1>3. CASE UNCHANGED Search!vars
  BY <1>0, <1>3 DEF Search!vars, Search!arguments, SearchInv, FirstInv, LastInv, AnyInv,
                    Search!Rejected, Search!Searching, Search!Indices
<1>4. QED
  BY <1>1, <1>2, <1>3 DEF Search!Next, Iterating, Search!Returned

LEMMA SearchInvHolds ==
    ASSUME Search!ConstantsOK
    PROVE  Search!Spec => []SearchInv
  BY SearchInitInv, SearchNextInv, PTL DEF Search!Spec

(* For arrays of any length: when the function returns, its result is an   *)
(* occurrence of the target, the first or last one where that is promised, *)
(* or -1 and there is none.                                                *)
THEOREM ResultIsRightHolds ==
    ASSUME Search!ConstantsOK
    PROVE  Search!Spec => []Search!ResultIsRight
<1>1. SearchInv => Search!ResultIsRight
  <2> SUFFICES ASSUME SearchInv, finished, ~null PROVE Search!ResultIsRight
    BY DEF Search!ResultIsRight
  <2>0. /\ size \in Int /\ left \in Int /\ right \in Int /\ target \in Int
        /\ \A i \in Search!Indices : array[i] \in Int
    BY DEF SearchInv, SearchTyping
  <2>1. CASE Search!Rejected
    BY <2>0, <2>1 DEF SearchInv, Search!ResultIsRight, Search!Rejected, Search!Indices
  <2>2. CASE ~Search!Rejected /\ search \in Search!First
    <3>1. FirstInv /\ left > right
      BY <2>0, <2>2 DEF SearchInv, Search!Searching, Search!First, Search!Closed
    <3>2. search # "find_last"
      BY <2>2 DEF Search!First
    <3>3. QED
      BY <2>0, <3>1, <3>2 DEF FirstInv, Search!ResultIsRight, Search!Indices
  <2>3. CASE ~Search!Rejected /\ search = "find_last"
    <3>1. LastInv /\ left > right
      BY <2>0, <2>3 DEF SearchInv, Search!Searching, Search!First, Search!Closed
    <3>2. search \notin Search!First
      BY <2>3 DEF Search!First
    <3>3. QED
      BY <2>0, <3>1, <3>2 DEF LastInv, Search!ResultIsRight, Search!Indices
  <2>4. CASE ~Search!Rejected /\ search = "binary_search"
    <3>1. AnyInv /\ (result = -1 => left >= right)
      BY <2>0, <2>4 DEF SearchInv, Search!Searching, Search!First, Search!Closed
    <3>2. search \notin Search!First /\ search # "find_last"
      BY <2>4 DEF Search!First
    <3>3. QED
      BY <2>0, <3>1, <3>2 DEF AnyInv, Search!ResultIsRight, Search!Indices
  <2>5. QED
    BY <2>1, <2>2, <2>3, <2>4 DEF SearchInv, SearchTyping, Search!First, Search!Closed
<1>2. QED
  BY <1>1, SearchInvHolds, PTL

(* Every iteration reads inside the array, whatever its length.             *)
THEOREM ReadsInsideHolds ==
    ASSUME Search!ConstantsOK
    PROVE  Search!Spec => []Search!ReadsInside
<1>1. SearchInv => Search!ReadsInside
  BY MiddleInside DEF Search!ReadsInside
<1>2. QED
  BY <1>1, SearchInvHolds, PTL

(* Every iteration shrinks what is searched: the loop ends whatever the    *)
(* array.                                                                  *)
THEOREM AlwaysShrinksHolds ==
    ASSUME Search!ConstantsOK
    PROVE  Search!Spec => Search!AlwaysShrinks
<1>1. SearchInv /\ [Search!Next]_(Search!vars) =>
        [Search!Running /\ ~finished' => right' - left' < right - left]_(Search!vars)
  <2> SUFFICES ASSUME SearchInv, Search!Next, Search!Running, ~finished'
               PROVE  right' - left' < right - left
    OBVIOUS
  <2>1. Iterating /\ ~Search!ReturnFound
    BY
       DEF Search!Next, Iterating, Search!Return, Search!Returned, Search!Running,
           Search!ReturnFound
  <2>2. QED
    BY <2>1, Iteration, MiddleInside
       DEF Iterating, Search!GoRight, Search!GoLeft, Search!NoteFirst, Search!NoteLast,
           Search!First, Search!Closed
<1>2. QED
  BY <1>1, SearchInvHolds, PTL DEF Search!Spec, Search!AlwaysShrinks

-----------------------------------------------------------------------------
(* The judges of a frame *)

CheckSum == c_check = "frame_validate"
CheckNumber == c_check = "parse_command_frame"
CheckCrc == c_check = "frame_crc_valid"

(* A register is the set of its one bits.                                   *)
In16(S) == S \subseteq 0 .. 15

(* The bits that were flipped and are not yet in the sum, from bit c_k.     *)
Coming(k) == {b - k : b \in {x \in c_input.flipped : x >= 8 * ((k + 7) \div 8)}}

(* What the damage has left in the sum, and what it will still do.          *)
Error == Checks!Differ(Checks!Differ(c_value, c_meant), Coming(c_k))

(* The damage is never undone: it stays in sixteen bits in a row.           *)
Narrow(S) == \E lo \in Nat : S \subseteq lo .. lo + 15

Sealed == /\ Len(c_input.data) \in Nat
          /\ \A i \in 1 .. Len(c_input.data) : c_input.data[i] \subseteq 0 .. 7
          /\ c_input.flipped \subseteq 0 .. Checks!Bits(c_input.data) + 15
          /\ Narrow(c_input.flipped)

CrcInv == /\ Sealed
          /\ c_k \in 0 .. Checks!Bits(c_input.data)
          /\ In16(c_value) /\ In16(c_meant)
          /\ Narrow(Error)
          /\ Error = {} <=> c_input.flipped = {}

NumberInv == /\ c_input.digits \in Seq(0 .. Radix - 1)
             /\ c_k \in 0 .. Len(c_input.digits)
             /\ c_meant \in Nat
             /\ c_k = 0 => c_meant = 0 \/ c_answered
             /\ ~c_answered => c_value = c_meant /\ c_value <= UINT_MAX

SumInv == /\ c_input \in Seq(Byte)
          /\ Checks!HeaderGood =>
                /\ c_k \in 0 .. c_input[2]
                /\ \E g : /\ g[0] = c_input[2] /\ g[c_k] = c_value
                          /\ \A i \in 1 .. c_k : g[i] = Xor(g[i - 1], c_input[i + 2])

CheckInv == /\ CheckSum \/ CheckNumber \/ CheckCrc
            /\ c_answered \in BOOLEAN /\ c_accepted \in BOOLEAN
            /\ CheckSum => SumInv
            /\ CheckNumber => NumberInv
            /\ CheckCrc => CrcInv
            /\ ~c_answered => c_result = Checks!Unset
            /\ Checks!AcceptedIsRight /\ Checks!GoodIsAccepted

(* One step of the register, bit by bit.                                    *)
LEMMA ShiftedBits ==
    ASSUME NEW S, S \subseteq Nat, NEW x \in Int
    PROVE  x \in Checks!Shifted(S) <=>
              (x >= 0 /\ x + 1 \in S) # (0 \in S /\ x \in {0, 13, 15})
<1> DEFINE half == {b - 1 : b \in S \ {0}}
<1>1. x \in half <=> x >= 0 /\ x + 1 \in S
  <2>1. ASSUME x \in half PROVE x >= 0 /\ x + 1 \in S
    BY <2>1
  <2>2. ASSUME x >= 0, x + 1 \in S PROVE x \in half
    <3>1. x + 1 \in S \ {0} /\ x = (x + 1) - 1
      BY <2>2
    <3>2. QED
      BY <3>1
  <2>3. QED
    BY <2>1, <2>2
<1> HIDE DEF half
<1>2. Checks!Shifted(S) = IF 0 \in S THEN (half \ {0, 13, 15}) \cup ({0, 13, 15} \ half)
                          ELSE half
  BY DEF Checks!Shifted, Checks!Differ, Checks!Polynomial, half
<1>3. CASE 0 \in S
  BY <1>1, <1>2, <1>3
<1>4. CASE 0 \notin S
  BY <1>1, <1>2, <1>4
<1>5. QED
  BY <1>3, <1>4

LEMMA ShiftedIsInt ==
    ASSUME NEW S, S \subseteq Nat
    PROVE  Checks!Shifted(S) \subseteq Nat
<1>1. ASSUME NEW x \in {b - 1 : b \in S \ {0}} PROVE x \in Nat
  OBVIOUS
<1>2. QED
  BY <1>1 DEF Checks!Shifted, Checks!Differ, Checks!Polynomial

LEMMA DifferBits ==
    ASSUME NEW S, NEW T, NEW x
    PROVE  x \in Checks!Differ(S, T) <=> ((x \in S) # (x \in T))
  BY DEF Checks!Differ

(* The register is linear: shifting differences gives the difference.       *)
LEMMA ShiftIsLinear ==
    ASSUME NEW S, NEW T, S \subseteq Nat, T \subseteq Nat
    PROVE  Checks!Shifted(Checks!Differ(S, T))
              = Checks!Differ(Checks!Shifted(S), Checks!Shifted(T))
<1> DEFINE D == Checks!Differ(S, T)
<1>1. D \subseteq Nat
  BY DEF Checks!Differ
<1>2. Checks!Shifted(D) \subseteq Nat /\ Checks!Shifted(S) \subseteq Nat
      /\ Checks!Shifted(T) \subseteq Nat
  <2> HIDE DEF D
  <2>1. QED
    BY <1>1, ShiftedIsInt
<1>3. Checks!Differ(Checks!Shifted(S), Checks!Shifted(T)) \subseteq Nat
  BY <1>2 DEF Checks!Differ
<1>4. ASSUME NEW x \in Nat
      PROVE  x \in Checks!Shifted(D) <=> x \in Checks!Differ(Checks!Shifted(S), Checks!Shifted(T))
  <2>0. x \in Int
    OBVIOUS
  <2>1. x \in Checks!Shifted(D) <=>
           (x >= 0 /\ x + 1 \in D) # (0 \in D /\ x \in {0, 13, 15})
    <3> HIDE DEF D
    <3>1. QED
      BY <1>1, <2>0, ShiftedBits
  <2>2. x \in Checks!Shifted(S) <=>
           (x >= 0 /\ x + 1 \in S) # (0 \in S /\ x \in {0, 13, 15})
    BY <2>0, ShiftedBits
  <2>3. x \in Checks!Shifted(T) <=>
           (x >= 0 /\ x + 1 \in T) # (0 \in T /\ x \in {0, 13, 15})
    BY <2>0, ShiftedBits
  <2>4. /\ x + 1 \in D <=> ((x + 1 \in S) # (x + 1 \in T))
        /\ 0 \in D <=> ((0 \in S) # (0 \in T))
    BY DifferBits
  <2>5. x \in Checks!Differ(Checks!Shifted(S), Checks!Shifted(T)) <=>
          ((x \in Checks!Shifted(S)) # (x \in Checks!Shifted(T)))
    BY DifferBits
  <2>6. x >= 0
    OBVIOUS
  <2> HIDE DEF D
  <2>7. QED
    BY <2>1, <2>2, <2>3, <2>4, <2>5, <2>6
<1> HIDE DEF D
<1>5. QED
  BY <1>2, <1>3, <1>4 DEF D

(* What is not yet the last bits of the register only moves.                *)
LEMMA NarrowKept ==
    ASSUME NEW S, S \subseteq Nat, Narrow(S)
    PROVE  /\ Narrow(Checks!Shifted(S))
           /\ S # {} => Checks!Shifted(S) # {}
<1>1. Checks!Shifted(S) \subseteq Nat
  BY ShiftedIsInt
<1>2. PICK lo \in Nat : S \subseteq lo .. lo + 15
  BY DEF Narrow
<1>3. CASE 0 \in S
  <2>1. S \subseteq 0 .. 15
    BY <1>2, <1>3
  <2>2. 15 \in Checks!Shifted(S)
    <3>1. ~(15 + 1 \in S) /\ 15 \in Int
      BY <2>1
    <3>2. 15 \in Checks!Shifted(S) <=>
             (15 >= 0 /\ 15 + 1 \in S) # (0 \in S /\ 15 \in {0, 13, 15})
      BY <3>1, ShiftedBits
    <3>3. 15 \in {0, 13, 15}
      OBVIOUS
    <3>4. QED
      BY <1>3, <3>1, <3>2, <3>3, Zenon
  <2>3. ASSUME NEW x \in Checks!Shifted(S) PROVE x \in 0 .. 15
    <3>1. x \in Int /\ x >= 0
      BY <1>1, <2>3
    <3>2. x + 1 \in S \/ x \in {0, 13, 15}
      BY <2>3, <3>1, ShiftedBits
    <3>3. QED
      BY <2>1, <3>1, <3>2
  <2>4. QED
    BY <2>2, <2>3 DEF Narrow
<1>4. CASE 0 \notin S
  <2>1. \A x \in Int : x \in Checks!Shifted(S) <=> x >= 0 /\ x + 1 \in S
    BY <1>4, ShiftedBits
  <2>2. S # {} => Checks!Shifted(S) # {}
    <3> SUFFICES ASSUME NEW y \in S PROVE Checks!Shifted(S) # {}
      OBVIOUS
    <3>1. y - 1 \in Int /\ y - 1 >= 0 /\ (y - 1) + 1 = y
      BY <1>4
    <3>2. y - 1 \in Checks!Shifted(S)
      BY <2>1, <3>1
    <3>3. QED
      BY <3>2
  <2>3. CASE lo = 0
    <3>1. \A x \in Checks!Shifted(S) : x \in 0 .. 15
      BY <1>1, <1>2, <2>1, <2>3
    <3>2. QED
      BY <2>2, <3>1 DEF Narrow
  <2>4. CASE lo > 0
    <3>1. \A x \in Checks!Shifted(S) : x \in lo - 1 .. (lo - 1) + 15
      BY <1>1, <1>2, <2>1, <2>4
    <3>2. lo - 1 \in Nat
      BY <2>4
    <3>3. QED
      BY <2>2, <3>1, <3>2 DEF Narrow
  <2>5. QED
    BY <2>3, <2>4
<1>5. QED
  BY <1>3, <1>4

LEMMA BoundedIsSeq ==
    ASSUME NEW S, NEW n, NEW q \in Checks!BoundedSeq(S, n)
    PROVE  q \in Seq(S)
  BY DEF Checks!BoundedSeq, Checks!SeqOf

LEMMA ChecksumIsSame ==
    ASSUME NEW f, NEW n
    PROVE  Checks!ChecksumOf(f, n) = ChecksumOf(f, n)
  BY DEF Checks!ChecksumOf, ChecksumOf, Checks!Xor, Xor, Checks!xor, xor

LEMMA HeaderTypes ==
    ASSUME Checks!ConstantsOK, c_input \in Seq(Byte), Checks!HeaderGood
    PROVE  /\ c_input[2] \in Nat /\ c_input[2] <= MAX_PAYLOAD
           /\ Len(c_input) \in Nat /\ c_input[2] = Len(c_input) - 4
<1>1. Len(c_input) \in Nat /\ Len(c_input) >= 4
  BY DEF Checks!HeaderGood
<1>2. c_input[2] \in Byte
  BY <1>1
<1>3. c_input[2] \in Nat
  BY <1>2 DEF Checks!ConstantsOK
<1>4. QED
  BY <1>1, <1>3 DEF Checks!HeaderGood

(* The test before the multiplication is the test of its result.            *)
LEMMA OverflowIsSeen ==
    ASSUME NEW v \in Nat, NEW d \in Nat, NEW U \in Nat, NEW R \in Nat \ {0},
           d < R, R <= U + 1
    PROVE  v > (U - d) \div R <=> v * R + d > U
<1> DEFINE q == (U - d) \div R
<1>1. U - d \in Nat
  OBVIOUS
<1>2. q \in Nat /\ q * R <= U - d /\ U - d < (q + 1) * R
  BY <1>1
<1> HIDE DEF q
<1>3. ASSUME v > q PROVE v * R + d > U
  <2>1. v >= q + 1
    BY <1>2, <1>3
  <2>2. v * R >= (q + 1) * R
    BY <1>2, <2>1
  <2>3. v * R \in Nat /\ (q + 1) * R \in Nat
    BY <1>2
  <2>4. QED
    BY <1>2, <2>2, <2>3
<1>4. ASSUME v <= q PROVE v * R + d <= U
  <2>1. v * R <= q * R
    BY <1>2, <1>4
  <2>2. v * R \in Nat /\ q * R \in Nat
    BY <1>2
  <2>3. QED
    BY <1>2, <2>1, <2>2
<1>5. v * R + d \in Nat
  OBVIOUS
<1>6. QED
  BY <1>2, <1>3, <1>4, <1>5 DEF q

LEMMA SmallRemainder ==
    \A x \in Nat : \A m \in Nat : x <= m => x % (m + 1) = x
<1> SUFFICES ASSUME NEW x \in Nat, NEW m \in Nat, x <= m PROVE x % (m + 1) = x
  OBVIOUS
<1> DEFINE n == m + 1
           q == x \div n
           r == x % n
<1>1. n \in Nat /\ n > 0 /\ x < n
  OBVIOUS
<1> HIDE DEF n
<1>2. q \in Int /\ r \in Int /\ x = n * q + r /\ 0 <= r /\ r < n
  BY <1>1
<1> HIDE DEF q, r
<1>3. q <= 0
  <2> SUFFICES ASSUME q >= 1 PROVE FALSE
    BY <1>2
  <2>1. n * q >= n
    BY <1>1, <1>2
  <2>2. n * q \in Int
    BY <1>1, <1>2
  <2>3. QED
    BY <1>1, <1>2, <2>1, <2>2
<1>4. q >= 0
  <2> SUFFICES ASSUME q <= -1 PROVE FALSE
    BY <1>2
  <2>1. n * q <= -n
    BY <1>1, <1>2
  <2>2. n * q \in Int
    BY <1>1, <1>2
  <2>3. QED
    BY <1>1, <1>2, <2>1, <2>2
<1>5. r = x
  <2>1. n * q = 0
    BY <1>1, <1>2, <1>3, <1>4
  <2>2. QED
    BY <1>1, <1>2, <2>1
<1>6. QED
  BY <1>5 DEF r, n

LEMMA CheckInit ==
    ASSUME Checks!ConstantsOK, Checks!Init
    PROVE  CheckInv
<1>0. /\ Checks!Start /\ ~c_answered /\ ~c_accepted /\ c_result = Checks!Unset
      /\ c_answered \in BOOLEAN /\ c_accepted \in BOOLEAN
  BY DEF Checks!Init, Checks!Start
<1>1. CASE CheckSum
  <2>1. c_input \in Seq(Byte)
    BY <1>1, BoundedIsSeq DEF Checks!Init, CheckSum
  <2>2. SumInv
    <3> SUFFICES ASSUME Checks!HeaderGood
                 PROVE  /\ c_k \in 0 .. c_input[2]
                        /\ \E g : /\ g[0] = c_input[2] /\ g[c_k] = c_value
                                  /\ \A i \in 1 .. c_k : g[i] = Xor(g[i - 1], c_input[i + 2])
      BY <2>1 DEF SumInv
    <3>1. c_k = 0 /\ c_value = c_input[2] /\ c_input[2] \in Nat
      BY <1>0, <1>1, <2>1, HeaderTypes DEF Checks!HeaderGood, Checks!Start, CheckSum
    <3>2. PICK g : g = [i \in {0} |-> c_value]
      OBVIOUS
    <3>3. QED
      BY <3>1, <3>2
  <2>3. QED
    BY <1>0, <1>1, <2>2
       DEF CheckInv, CheckSum, CheckNumber, CheckCrc, Checks!AcceptedIsRight,
           Checks!GoodIsAccepted
<1>2. CASE CheckNumber
  <2>1. c_input.digits \in Seq(0 .. Radix - 1)
    BY <1>2, BoundedIsSeq DEF Checks!Init, CheckNumber, Checks!Lines
  <2>2. NumberInv
    BY <1>0, <1>2, <2>1 DEF NumberInv, CheckNumber, Checks!Start, Checks!ConstantsOK
  <2>3. QED
    BY <1>0, <1>2, <2>2
       DEF CheckInv, CheckSum, CheckNumber, CheckCrc, Checks!AcceptedIsRight,
           Checks!GoodIsAccepted
<1>3. CASE CheckCrc
  <2>1. PICK data \in Checks!BoundedSeq(CrcBytes, MaxData), p \in Patterns,
             first \in 0 .. 8 * MaxData + 15 :
           c_input = [data |-> data,
                      flipped |-> {first + b : b \in p} \cap 0 .. Checks!Bits(data) + 15]
    BY <1>3 DEF Checks!Init, CheckCrc, Checks!Sent
  <2>2. /\ c_input.data = data /\ Len(data) \in Nat /\ Checks!Bits(data) \in Nat
        /\ \A i \in 1 .. Len(data) : data[i] \subseteq 0 .. 7
    <3>1. c_input.data = data /\ data \in Seq(CrcBytes)
      BY <2>1, BoundedIsSeq
    <3>2. \A i \in 1 .. Len(data) : data[i] \in CrcBytes
      BY <3>1
    <3>3. \A i \in 1 .. Len(data) : data[i] \subseteq 0 .. 7
      BY <3>2 DEF Checks!ConstantsOK
    <3>4. QED
      BY <3>1, <3>3 DEF Checks!Bits
  <2>3. /\ c_input.flipped \subseteq 0 .. Checks!Bits(c_input.data) + 15
        /\ \A x \in c_input.flipped : \E b \in p : x = first + b
    BY <2>1, <2>2
  <2>4. Narrow(c_input.flipped)
    <3>1. p \subseteq 0 .. 15 /\ first \in Nat
      BY DEF Checks!ConstantsOK
    <3>2. \A x \in c_input.flipped : x \in first .. first + 15
      BY <2>3, <3>1
    <3>3. QED
      BY <3>1, <3>2 DEF Narrow
  <2>5. /\ c_k = 0 /\ c_value = 0 .. 15 /\ c_meant = 0 .. 15
    BY <1>0, <1>3 DEF Checks!Start, CheckCrc
  <2>6. Coming(c_k) = c_input.flipped
    <3>1. c_input.flipped \subseteq Nat
      BY <2>2, <2>3
    <3>2. 8 * ((0 + 7) \div 8) = 0
      OBVIOUS
    <3>3. {x \in c_input.flipped : x >= 0} = c_input.flipped
      BY <3>1
    <3>4. \A S \in SUBSET Nat : {b - 0 : b \in S} = S
      <4>1. \A x \in Nat : x - 0 = x
        OBVIOUS
      <4>2. QED
        BY <4>1, Zenon
    <3>5. QED
      BY <2>5, <3>1, <3>2, <3>3, <3>4 DEF Coming
  <2>7. Error = c_input.flipped
    BY <2>5, <2>6 DEF Error, Checks!Differ
  <2>8. CrcInv
    BY <2>2, <2>3, <2>4, <2>5, <2>7 DEF CrcInv, Sealed, In16
  <2>9. QED
    BY <1>0, <1>3, <2>8
       DEF CheckInv, CheckSum, CheckNumber, CheckCrc, Checks!AcceptedIsRight,
           Checks!GoodIsAccepted
<1>4. QED
  BY <1>1, <1>2, <1>3 DEF Checks!Init, CheckSum, CheckNumber, CheckCrc

(* Each of the three loops, and how it is left.                             *)
LEMMA SumTurn ==
    ASSUME CheckInv, Checks!SumPayload, Checks!ConstantsOK
    PROVE  CheckInv'
<1>1. /\ CheckSum /\ ~c_answered /\ Checks!HeaderGood /\ c_k < c_input[2]
      /\ UNCHANGED <<c_check, c_input, c_answered, c_accepted, c_result>>
      /\ c_k' = c_k + 1 /\ c_value' = Xor(c_value, c_input[c_k + 3])
  BY DEF Checks!SumPayload, Checks!Judging, Checks!Turn, CheckSum, Checks!Xor, Xor,
         Checks!xor, xor
<1>2. SumInv
  BY <1>1 DEF CheckInv
<1>3. PICK g : /\ g[0] = c_input[2] /\ g[c_k] = c_value
               /\ \A i \in 1 .. c_k : g[i] = Xor(g[i - 1], c_input[i + 2])
  BY <1>1, <1>2 DEF SumInv
<1>4. c_k \in Nat /\ c_input[2] \in Nat /\ c_k \in 0 .. c_input[2]
  BY <1>1, <1>2, HeaderTypes DEF SumInv
<1>5. PICK h : h = [i \in 0 .. c_k + 1 |-> IF i = c_k + 1 THEN c_value' ELSE g[i]]
  OBVIOUS
<1>6. h[0] = c_input[2] /\ h[c_k + 1] = c_value'
  BY <1>3, <1>4, <1>5
<1>7. ASSUME NEW i \in 1 .. c_k + 1 PROVE h[i] = Xor(h[i - 1], c_input[i + 2])
  <2>1. CASE i = c_k + 1
    <3>1. h[i - 1] = g[c_k]
      BY <1>4, <1>5, <2>1
    <3>2. i + 2 = c_k + 3
      BY <1>4, <2>1
    <3>3. QED
      BY <1>1, <1>3, <1>6, <2>1, <3>1, <3>2
  <2>2. CASE i # c_k + 1
    <3>1. i \in 1 .. c_k /\ h[i] = g[i] /\ h[i - 1] = g[i - 1]
      BY <1>4, <1>5, <2>2
    <3>2. QED
      BY <1>3, <3>1
  <2>3. QED
    BY <2>1, <2>2
<1>8. SumInv'
  <2>1. c_input' \in Seq(Byte) /\ (c_k \in 0 .. c_input[2])' /\ c_input' = c_input
    BY <1>1, <1>2, <1>4 DEF SumInv
  <2>2. QED
    BY <1>1, <1>6, <1>7, <2>1 DEF SumInv
<1>9. QED
  BY <1>1, <1>8
     DEF CheckInv, CheckSum, CheckNumber, CheckCrc, Checks!AcceptedIsRight,
         Checks!GoodIsAccepted

LEMMA SumReturns ==
    ASSUME CheckInv, Checks!Validate, Checks!ConstantsOK
    PROVE  CheckInv'
<1>1. /\ CheckSum /\ ~c_answered /\ c_answered' = TRUE
      /\ Checks!HeaderGood => c_k = c_input[2]
      /\ c_accepted' = (Checks!HeaderGood /\ c_value = c_input[c_k + 3])
      /\ c_result' = IF c_accepted' THEN [len |-> c_input[2]] ELSE c_result
      /\ UNCHANGED <<c_check, c_input, c_k, c_value>>
  BY DEF Checks!Validate, Checks!Judging, Checks!Return, CheckSum
<1>2. SumInv /\ c_result = Checks!Unset
  BY <1>1 DEF CheckInv
<1>3. SumInv'
  BY <1>1, <1>2 DEF SumInv, Checks!HeaderGood
<1>4. c_accepted' <=> Checks!IsFrame(c_input)
  <2>1. CASE Checks!HeaderGood
    <3>1. PICK g : /\ g[0] = c_input[2] /\ g[c_k] = c_value
                   /\ \A i \in 1 .. c_k : g[i] = Xor(g[i - 1], c_input[i + 2])
      BY <1>2, <2>1 DEF SumInv
    <3>2. c_k = c_input[2] /\ c_input[2] \in Nat /\ c_input[2] = Len(c_input) - 4
          /\ c_input[2] \in 0 .. MAX_PAYLOAD
      BY <1>1, <1>2, <2>1, HeaderTypes DEF SumInv, Checks!ConstantsOK
    <3>3. Checks!ChecksumOf(c_input, c_k) = c_value
      BY <3>1, <3>2, ChecksumIsTheSum, ChecksumIsSame
    <3>4. QED
      BY <1>1, <2>1, <3>2, <3>3 DEF Checks!IsFrame, Checks!HeaderGood
  <2>2. CASE ~Checks!HeaderGood
    <3>1. ~Checks!IsFrame(c_input)
      <4> SUFFICES ASSUME Checks!IsFrame(c_input) PROVE FALSE
        OBVIOUS
      <4>1. Len(c_input) \in Nat
        BY <1>2 DEF SumInv
      <4>2. QED
        BY <2>2, <4>1 DEF Checks!IsFrame, Checks!HeaderGood, Checks!ConstantsOK
    <3>2. QED
      BY <1>1, <2>2, <3>1
  <2>3. QED
    BY <2>1, <2>2
<1>5. c_accepted' \in BOOLEAN
  BY <1>1
<1>6. c_accepted' => c_result'.len = Len(c_input) - 4
  <2>1. c_accepted' => Checks!HeaderGood
    BY <1>1
  <2>2. Checks!HeaderGood => c_input[2] = Len(c_input) - 4
    BY <1>2, HeaderTypes DEF SumInv
  <2>3. QED
    BY <1>1, <2>1, <2>2
<1>7. Checks!IsFrame(c_input)' <=> Checks!IsFrame(c_input)
  BY <1>1 DEF Checks!IsFrame
<1>8. Checks!AcceptedIsRight' /\ Checks!GoodIsAccepted'
  BY <1>1, <1>2, <1>4, <1>5, <1>6, <1>7
     DEF Checks!AcceptedIsRight, Checks!GoodIsAccepted, CheckSum
<1>9. QED
  BY <1>1, <1>3, <1>5, <1>8 DEF CheckInv, CheckSum, CheckNumber, CheckCrc

LEMMA NumberStep ==
    ASSUME CheckInv, Checks!TakeDigit \/ Checks!DigitTooMuch, Checks!ConstantsOK
    PROVE  CheckInv'
<1> DEFINE d == Checks!Digit
<1>1. /\ CheckNumber /\ ~c_answered /\ UNCHANGED <<c_check, c_input>>
      /\ c_k < Len(c_input.digits) /\ c_meant' = c_meant * Radix + d
  BY DEF Checks!TakeDigit, Checks!DigitTooMuch, Checks!AtDigit, Checks!Judging, CheckNumber
<1>2. NumberInv /\ c_value = c_meant /\ c_value <= UINT_MAX /\ c_result = Checks!Unset
  BY <1>1 DEF CheckInv, NumberInv
<1>3. d \in Nat /\ d < Radix
  BY <1>1, <1>2 DEF NumberInv, Checks!Digit, Checks!ConstantsOK
<1> HIDE DEF d
<1>4. Checks!Overflows(c_value, d) <=> c_meant' > UINT_MAX
  BY <1>1, <1>2, <1>3, OverflowIsSeen DEF NumberInv, Checks!Overflows, Checks!ConstantsOK
<1>5. c_meant' \in Nat
  BY <1>1, <1>2, <1>3 DEF NumberInv, Checks!ConstantsOK
<1>6. CASE Checks!TakeDigit
  <2>1. /\ ~Checks!Overflows(c_value, d)
        /\ c_value' = (c_value * Radix + d) % (UINT_MAX + 1) /\ c_k' = c_k + 1
        /\ UNCHANGED <<c_answered, c_accepted, c_result>>
    BY <1>6 DEF Checks!TakeDigit, Checks!Turn, d
  <2>2. c_value' = c_meant' /\ c_value' <= UINT_MAX
    <3>1. c_meant' <= UINT_MAX /\ c_value' = c_meant' % (UINT_MAX + 1) /\ UINT_MAX \in Nat
      BY <1>1, <1>2, <1>4, <1>5, <2>1 DEF Checks!ConstantsOK
    <3>2. QED
      BY <1>5, <3>1, SmallRemainder
  <2>3. NumberInv'
    BY <1>1, <1>2, <1>5, <2>1, <2>2 DEF NumberInv
  <2>4. QED
    BY <1>1, <2>1, <2>3
       DEF CheckInv, CheckSum, CheckNumber, CheckCrc, Checks!AcceptedIsRight,
           Checks!GoodIsAccepted
<1>7. CASE Checks!DigitTooMuch
  <2>1. /\ Checks!Overflows(c_value, d) /\ c_answered' = TRUE /\ c_accepted' = FALSE
        /\ UNCHANGED <<c_k, c_value, c_result>>
    BY <1>7 DEF Checks!DigitTooMuch, Checks!Return, d
  <2>2. NumberInv'
    BY <1>1, <1>2, <1>5, <2>1 DEF NumberInv
  <2>3. Checks!AcceptedIsRight' /\ Checks!GoodIsAccepted'
    BY <1>1, <1>2, <1>4, <2>1
       DEF CheckNumber, Checks!AcceptedIsRight, Checks!GoodIsAccepted
  <2>4. QED
    BY <1>1, <2>1, <2>2, <2>3 DEF CheckInv, CheckSum, CheckNumber, CheckCrc
<1>8. QED
  BY <1>6, <1>7

LEMMA NumberReturns ==
    ASSUME CheckInv, Checks!Parse
    PROVE  CheckInv'
<1>1. /\ CheckNumber /\ ~c_answered /\ c_answered' = TRUE
      /\ c_input.prefix => c_k = Len(c_input.digits)
      /\ c_accepted' = (Checks!WellFormed /\ c_k > 0 /\ c_value # 0)
      /\ c_result' = IF c_accepted' THEN [seq |-> c_value, command |-> c_input.command]
                     ELSE c_result
      /\ UNCHANGED <<c_check, c_input, c_k, c_value, c_meant>>
  BY DEF Checks!Parse, Checks!Judging, Checks!Return, CheckNumber
<1>2. /\ NumberInv /\ c_value = c_meant /\ c_result = Checks!Unset
      /\ c_k = 0 => c_value = 0
  BY <1>1 DEF CheckInv, NumberInv
<1>3. NumberInv'
  BY <1>1, <1>2 DEF NumberInv
<1>4. c_accepted' \in BOOLEAN /\ (Checks!WellFormed' <=> Checks!WellFormed)
  <2>1. c_accepted' \in BOOLEAN
    BY <1>1
  <2>2. Checks!WellFormed' <=> Checks!WellFormed
    BY <1>1, Zenon DEF Checks!WellFormed
  <2>3. QED
    BY <2>1, <2>2
<1>5. Checks!WellFormed => c_k = Len(c_input.digits)
  BY <1>1 DEF Checks!WellFormed
<1>6. c_accepted' => /\ Checks!WellFormed /\ c_meant' # 0
                     /\ c_result' = [seq |-> c_meant', command |-> c_input.command]
  BY <1>1, <1>2
<1>7. ~c_accepted' => /\ c_result' = Checks!Unset
                      /\ ~Checks!WellFormed \/ c_meant' = 0
  <2>1. c_meant # 0 => c_k > 0 /\ c_value # 0
    BY <1>2 DEF NumberInv
  <2>2. QED
    BY <1>1, <1>2, <2>1, Zenon
<1>8. Checks!AcceptedIsRight' /\ Checks!GoodIsAccepted'
  BY <1>1, <1>2, <1>4, <1>5, <1>6, <1>7
     DEF CheckNumber, Checks!AcceptedIsRight, Checks!GoodIsAccepted
<1>9. QED
  BY <1>1, <1>3, <1>4, <1>8 DEF CheckInv, CheckSum, CheckNumber, CheckCrc

LEMMA ByteBounds ==
    ASSUME NEW k \in Nat
    PROVE  /\ 8 * ((k + 8) \div 8) \in Nat /\ 8 * ((k + 8) \div 8) > k
           /\ k % 8 = 0 => 8 * ((k + 7) \div 8) = k /\ 8 * ((k + 8) \div 8) = k + 8
           /\ k % 8 # 0 => 8 * ((k + 7) \div 8) = 8 * ((k + 8) \div 8)
  OBVIOUS

(* The flipped bits after the byte that holds bit k, counted from k.        *)
Waiting(k) == {b - k : b \in {x \in c_input.flipped : x >= 8 * ((k + 8) \div 8)}}

LEMMA WaitingMoves ==
    ASSUME NEW k \in Nat, c_input.flipped \subseteq Nat
    PROVE  /\ Waiting(k) \subseteq Nat
           /\ Coming(k + 1) = Checks!Shifted(Waiting(k))
<1> DEFINE bound == 8 * ((k + 8) \div 8)
           F == {x \in c_input.flipped : x >= bound}
<1>1. bound \in Nat /\ bound > k
  BY ByteBounds
<1>2. 8 * (((k + 1) + 7) \div 8) = bound
  <2>1. (k + 1) + 7 = k + 8
    OBVIOUS
  <2>2. QED
    BY <2>1
<1> HIDE DEF bound
<1>3. F \subseteq Nat /\ \A b \in F : b > k
  BY <1>1
<1>4. Waiting(k) = {b - k : b \in F} /\ Coming(k + 1) = {b - (k + 1) : b \in F}
  BY <1>2 DEF Waiting, Coming, bound
<1> HIDE DEF F
<1>5. Waiting(k) \subseteq Nat /\ 0 \notin Waiting(k)
  BY <1>3, <1>4
<1>6. Checks!Shifted(Waiting(k)) = {w - 1 : w \in Waiting(k)}
  <2>1. Waiting(k) \ {0} = Waiting(k)
    BY <1>5
  <2>2. QED
    BY <1>5, <2>1 DEF Checks!Shifted
<1>7. {w - 1 : w \in Waiting(k)} = {b - (k + 1) : b \in F}
  <2>1. \A b \in F : (b - k) - 1 = b - (k + 1)
    BY <1>3
  <2>2. ASSUME NEW y \in {w - 1 : w \in Waiting(k)} PROVE y \in {b - (k + 1) : b \in F}
    BY <1>4, <2>1
  <2>3. ASSUME NEW y \in {b - (k + 1) : b \in F} PROVE y \in {w - 1 : w \in Waiting(k)}
    BY <1>4, <2>1
  <2>4. QED
    BY <2>2, <2>3
<1>8. QED
  BY <1>4, <1>5, <1>6, <1>7

(* Mixing in a byte moves its damage from what is coming into the register. *)
LEMMA MixingKeepsError ==
    ASSUME c_k \in Nat, c_input.flipped \subseteq Nat, NEW byte
    PROVE  Checks!Differ(Checks!Differ(
               Checks!Mixed(c_value, Checks!Differ(byte, Checks!Damage(c_k, 8))),
               Checks!Mixed(c_meant, byte)), Waiting(c_k)) = Error
<1> DEFINE dam == Checks!Damage(c_k, 8)
<1>1. CASE c_k % 8 = 0
  <2>1. /\ Coming(c_k) = {b - c_k : b \in {x \in c_input.flipped : x >= c_k}}
        /\ Waiting(c_k) = {b - c_k : b \in {x \in c_input.flipped : x >= c_k + 8}}
        /\ dam = {b - c_k : b \in {x \in c_input.flipped : x \in c_k .. c_k + 7}}
    <3>1. c_k .. c_k + 8 - 1 = c_k .. c_k + 7
      OBVIOUS
    <3>2. \A S : c_input.flipped \cap S = {x \in c_input.flipped : x \in S}
      OBVIOUS
    <3>3. dam = {b - c_k : b \in c_input.flipped \cap c_k .. c_k + 7}
      BY <3>1 DEF Checks!Damage
    <3>4. QED
      BY <1>1, <3>2, <3>3, ByteBounds DEF Coming, Waiting
  <2> HIDE DEF dam
  <2>2. ASSUME NEW x PROVE x \in Coming(c_k) <=> ((x \in dam) # (x \in Waiting(c_k)))
    <3>1. x \in Coming(c_k) <=> \E b \in c_input.flipped : b >= c_k /\ x = b - c_k
      BY <2>1
    <3>2. x \in Waiting(c_k) <=> \E b \in c_input.flipped : b >= c_k + 8 /\ x = b - c_k
      BY <2>1
    <3>3. x \in dam <=> \E b \in c_input.flipped : b \in c_k .. c_k + 7 /\ x = b - c_k
      BY <2>1
    <3>4. QED
      BY <3>1, <3>2, <3>3
  <2>3. /\ Checks!Mixed(c_value, Checks!Differ(byte, dam))
              = Checks!Differ(c_value, Checks!Differ(byte, dam))
        /\ Checks!Mixed(c_meant, byte) = Checks!Differ(c_meant, byte)
    BY <1>1 DEF Checks!Mixed
  <2>4. QED
    BY <2>2, <2>3 DEF Error, Checks!Differ, dam
<1>2. CASE c_k % 8 # 0
  <2>1. Coming(c_k) = Waiting(c_k)
    BY <1>2, ByteBounds DEF Coming, Waiting
  <2>2. QED
    BY <1>2, <2>1 DEF Error, Checks!Mixed
<1>3. QED
  BY <1>1, <1>2

LEMMA CrcTypes ==
    ASSUME CrcInv
    PROVE  /\ c_k \in Nat /\ c_input.flipped \subseteq Nat /\ Error \subseteq Nat
           /\ c_value \subseteq Nat /\ c_meant \subseteq Nat /\ Waiting(c_k) \subseteq Nat
           /\ Checks!Bits(c_input.data) = 8 * Len(c_input.data) /\ Len(c_input.data) \in Nat
<1>1. Checks!Bits(c_input.data) = 8 * Len(c_input.data) /\ Len(c_input.data) \in Nat
  BY DEF CrcInv, Sealed, Checks!Bits
<1>2. c_k \in Nat /\ c_input.flipped \subseteq Nat
  BY <1>1 DEF CrcInv, Sealed
<1>3. Coming(c_k) \subseteq Nat
  <2>1. 8 * ((c_k + 7) \div 8) >= c_k
    BY <1>2
  <2>2. QED
    BY <1>2, <2>1 DEF Coming
<1>4. c_value \subseteq Nat /\ c_meant \subseteq Nat
  BY DEF CrcInv, In16
<1>5. QED
  BY <1>1, <1>2, <1>3, <1>4, WaitingMoves DEF Error, Checks!Differ

LEMMA CrcTurn ==
    ASSUME CheckInv, Checks!ShiftBit
    PROVE  CheckInv'
<1> DEFINE byte == c_input.data[(c_k \div 8) + 1]
           V == Checks!Mixed(c_value, Checks!Differ(byte, Checks!Damage(c_k, 8)))
           M == Checks!Mixed(c_meant, byte)
<1>1. /\ CheckCrc /\ ~c_answered /\ c_k < Checks!Bits(c_input.data)
      /\ UNCHANGED <<c_check, c_input, c_answered, c_accepted, c_result>>
      /\ c_k' = c_k + 1
      /\ c_value' = Checks!Shifted(V) /\ c_meant' = Checks!Shifted(M)
  BY DEF Checks!ShiftBit, Checks!Judging, Checks!Turn, CheckCrc
<1>2. CrcInv
  BY <1>1 DEF CheckInv
<1>3. byte \subseteq 0 .. 7
  <2>1. (c_k \div 8) + 1 \in 1 .. Len(c_input.data)
    BY <1>1, <1>2, CrcTypes
  <2>2. QED
    BY <1>2, <2>1 DEF CrcInv, Sealed
<1> HIDE DEF byte
<1>4. In16(V) /\ In16(M)
  <2>1. Checks!Damage(c_k, 8) \subseteq 0 .. 7
    <3>1. \A b \in c_k .. c_k + 8 - 1 : b - c_k \in 0 .. 7
      BY <1>2, CrcTypes
    <3>2. QED
      BY <3>1 DEF Checks!Damage
  <2>2. c_value \subseteq 0 .. 15 /\ c_meant \subseteq 0 .. 15 /\ 0 .. 7 \subseteq 0 .. 15
    BY <1>2 DEF CrcInv, In16
  <2>3. QED
    BY <1>3, <2>1, <2>2 DEF In16, Checks!Mixed, Checks!Differ
<1>5. Checks!Differ(Checks!Differ(V, M), Waiting(c_k)) = Error
  BY <1>2, CrcTypes, MixingKeepsError
<1> HIDE DEF V, M
<1>6. V \subseteq Nat /\ M \subseteq Nat /\ Checks!Differ(V, M) \subseteq Nat
  BY <1>4 DEF In16, Checks!Differ
<1>7. Coming(c_k)' = Checks!Shifted(Waiting(c_k))
  <2>1. Coming(c_k)' = Coming(c_k + 1)
    BY <1>1 DEF Coming
  <2>2. QED
    BY <1>2, <2>1, CrcTypes, WaitingMoves
<1>8. Error' = Checks!Shifted(Error)
  <2>1. Error' = Checks!Differ(Checks!Differ(Checks!Shifted(V), Checks!Shifted(M)),
                               Checks!Shifted(Waiting(c_k)))
    BY <1>1, <1>7 DEF Error, Checks!Differ
  <2>2. Waiting(c_k) \subseteq Nat
    BY <1>2, CrcTypes
  <2>3. Checks!Differ(Checks!Shifted(V), Checks!Shifted(M))
           = Checks!Shifted(Checks!Differ(V, M))
    BY <1>6, ShiftIsLinear
  <2>4. QED
    BY <1>5, <1>6, <2>1, <2>2, <2>3, ShiftIsLinear
<1>9. Narrow(Error') /\ (Error' = {} <=> c_input.flipped = {})
  <2>1. Error \subseteq Nat /\ Narrow(Error) /\ (Error = {} <=> c_input.flipped = {})
    BY <1>2, CrcTypes DEF CrcInv
  <2>2. Error = {} => Checks!Shifted(Error) = {}
    BY DEF Checks!Shifted
  <2>3. QED
    BY <1>8, <2>1, <2>2, NarrowKept
<1>10. In16(c_value)' /\ In16(c_meant)'
  <2>1. ASSUME NEW S, In16(S) PROVE In16(Checks!Shifted(S))
    <3>1. S \subseteq Nat
      BY <2>1 DEF In16
    <3>2. ASSUME NEW x \in Checks!Shifted(S) PROVE x \in 0 .. 15
      <4>0. Checks!Shifted(S) \subseteq Nat
        BY <3>1, ShiftedIsInt
      <4>1. x \in Int /\ x >= 0
        BY <3>2, <4>0
      <4>2. x + 1 \in S \/ x \in {0, 13, 15}
        BY <3>1, <3>2, <4>1, ShiftedBits
      <4>3. QED
        BY <2>1, <4>1, <4>2 DEF In16
    <3>3. QED
      BY <3>2 DEF In16
  <2>2. QED
    BY <1>1, <1>4, <2>1 DEF In16
<1>11. CrcInv'
  <2>1. Sealed' /\ (c_k \in 0 .. Checks!Bits(c_input.data))'
    <3>1. c_input' = c_input /\ Sealed
      BY <1>1, <1>2 DEF CrcInv
    <3>2. Sealed'
      BY <3>1 DEF Sealed, Narrow, Checks!Bits
    <3>3. c_k' = c_k + 1 /\ c_k \in Nat /\ c_k < 8 * Len(c_input.data)
          /\ Len(c_input.data) \in Nat
      BY <1>1, <1>2, CrcTypes
    <3>4. Checks!Bits(c_input.data)' = 8 * Len(c_input.data)
      BY <3>1 DEF Checks!Bits
    <3>5. QED
      BY <3>2, <3>3, <3>4
  <2>2. Narrow(Error)' /\ (Error = {} <=> c_input.flipped = {})'
    BY <1>1, <1>9 DEF Narrow
  <2>3. QED
    BY <1>10, <2>1, <2>2 DEF CrcInv
<1>12. QED
  BY <1>1, <1>11
     DEF CheckInv, CheckSum, CheckNumber, CheckCrc, Checks!AcceptedIsRight,
         Checks!GoodIsAccepted

LEMMA CrcUnchanged ==
    ASSUME UNCHANGED <<c_input, c_k, c_value, c_meant>>
    PROVE  CrcInv' <=> CrcInv
<1>1. c_input' = c_input /\ c_k' = c_k /\ c_value' = c_value /\ c_meant' = c_meant
  OBVIOUS
<1>2. Error' = Error
  BY <1>1 DEF Error, Coming, Checks!Differ
<1>3. Sealed' <=> Sealed
  BY <1>1 DEF Sealed, Narrow, Checks!Bits
<1>4. Checks!Bits(c_input.data)' = Checks!Bits(c_input.data)
  BY <1>1 DEF Checks!Bits
<1>5. (Narrow(Error)' <=> Narrow(Error)) /\ (In16(c_value)' <=> In16(c_value))
      /\ (In16(c_meant)' <=> In16(c_meant))
  BY <1>1, <1>2 DEF Narrow, In16
<1>6. QED
  BY <1>1, <1>2, <1>3, <1>4, <1>5 DEF CrcInv

LEMMA CrcReturns ==
    ASSUME CheckInv, Checks!Verify
    PROVE  CheckInv'
<1>1. /\ CheckCrc /\ ~c_answered /\ c_answered' = TRUE
      /\ c_k = Checks!Bits(c_input.data)
      /\ c_accepted' = (c_value = Checks!expected_crc) /\ c_result' = c_result
      /\ UNCHANGED <<c_check, c_input, c_k, c_value, c_meant>>
  BY DEF Checks!Verify, Checks!Judging, Checks!Return, CheckCrc
<1>2. CrcInv /\ c_result = Checks!Unset
  BY <1>1 DEF CheckInv
<1>3. CrcInv'
  BY <1>1, <1>2, CrcUnchanged
<1>4. Coming(c_k) = Checks!Damage(c_k, 16)
  <2>1. c_k \in Nat /\ c_k % 8 = 0 /\ c_input.flipped \subseteq 0 .. c_k + 15
    BY <1>1, <1>2, CrcTypes DEF CrcInv, Sealed
  <2>2. 8 * ((c_k + 7) \div 8) = c_k
    BY <2>1, ByteBounds
  <2>3. {x \in c_input.flipped : x >= c_k} = c_input.flipped \cap c_k .. c_k + 16 - 1
    BY <2>1
  <2>4. QED
    BY <2>2, <2>3 DEF Coming, Checks!Damage
<1>5. c_value = Checks!expected_crc <=> Error = {}
  BY <1>4 DEF Error, Checks!expected_crc, Checks!Differ
<1>6. c_accepted' <=> c_input.flipped = {}
  BY <1>1, <1>2, <1>5 DEF CrcInv
<1>7. c_accepted' \in BOOLEAN
  BY <1>1
<1>8. QED
  BY <1>1, <1>2, <1>3, <1>6, <1>7
     DEF CheckInv, CheckSum, CheckNumber, CheckCrc, Checks!AcceptedIsRight,
         Checks!GoodIsAccepted

LEMMA CheckNextInv ==
    ASSUME Checks!ConstantsOK
    PROVE  CheckInv /\ [Checks!Next]_(Checks!vars) => CheckInv'
<1> SUFFICES ASSUME CheckInv, [Checks!Next]_(Checks!vars) PROVE CheckInv'
  OBVIOUS
<1>1. CASE Checks!Next /\ ~UNCHANGED Checks!vars
  BY <1>1, SumTurn, SumReturns, NumberStep, NumberReturns, CrcTurn, CrcReturns
     DEF Checks!Next
<1>2. CASE UNCHANGED Checks!vars
  <2>1. UNCHANGED <<c_check, c_input, c_k, c_value, c_meant, c_answered, c_accepted,
                    c_result>>
    BY <1>2 DEF Checks!vars
  <2>2. SumInv' <=> SumInv
    BY <2>1 DEF SumInv, Checks!HeaderGood
  <2>3. NumberInv' <=> NumberInv
    BY <2>1 DEF NumberInv
  <2>4. CrcInv' <=> CrcInv
    BY <2>1, CrcUnchanged
  <2>5. /\ Checks!AcceptedIsRight' <=> Checks!AcceptedIsRight
        /\ Checks!GoodIsAccepted' <=> Checks!GoodIsAccepted
    BY <2>1 DEF Checks!AcceptedIsRight, Checks!GoodIsAccepted, Checks!IsFrame,
                Checks!WellFormed
  <2>6. QED
    BY <2>1, <2>2, <2>3, <2>4, <2>5 DEF CheckInv, CheckSum, CheckNumber, CheckCrc
<1>3. QED
  BY <1>1, <1>2

(* Whatever arrives, of whatever length, with whatever damage to sixteen    *)
(* bits in a row: the judges accept what was sealed and nothing else.       *)
THEOREM ChecksAreRight ==
    ASSUME Checks!ConstantsOK
    PROVE  Checks!Spec => [](Checks!AcceptedIsRight /\ Checks!GoodIsAccepted)
<1>1. CheckInv => Checks!AcceptedIsRight /\ Checks!GoodIsAccepted
  BY DEF CheckInv
<1>2. QED
  BY <1>1, CheckInit, CheckNextInv, PTL DEF Checks!Spec

-----------------------------------------------------------------------------
(* The suite *)

(* In a behaviour of the suite each of the five behaves as its own          *)
(* specification allows: it moves, or it stands still while another runs.   *)
LEMMA SuiteIsEach ==
    SuiteSpec => Spec /\ Decoder!Spec /\ Framer!Spec /\ Checks!Spec /\ Search!Spec
<1>1. SuiteInit => Init /\ Decoder!Init /\ Framer!Init /\ Checks!Init /\ Search!Init
  <2>1. ASSUME c_input = <<>> PROVE c_input \in Checks!BoundedSeq(Byte, MAX_PAYLOAD + 5)
    <3>1. 0 \in 0 .. MAX_PAYLOAD + 5
      BY ChecksAssumption DEF Checks!ConstantsOK
    <3>2. c_input \in [1 .. 0 -> Byte]
      BY <2>1
    <3>3. QED
      BY <3>1, <3>2 DEF Checks!BoundedSeq, Checks!SeqOf
  <2>2. QED
    BY <2>1 DEF SuiteInit, Checks!Init
<1>2. ASSUME [SuiteNext]_<<chosen, vars, tcp, lines, judge, lookup>>
      PROVE  /\ [Next]_vars /\ [Decoder!Next]_(Decoder!vars)
             /\ [Framer!Next]_(Framer!vars) /\ [Checks!Next]_(Checks!vars)
             /\ [Search!Next]_(Search!vars)
  <2>0. /\ UNCHANGED tcp => UNCHANGED Decoder!vars
        /\ UNCHANGED lines => UNCHANGED Framer!vars
        /\ UNCHANGED judge => UNCHANGED Checks!vars
        /\ UNCHANGED lookup => UNCHANGED Search!vars
    BY DEF tcp, lines, judge, lookup, Decoder!vars, Framer!vars, Framer!framer,
           Framer!history, Checks!vars, Search!vars, Search!arguments
  <2>1. CASE Next /\ UNCHANGED <<tcp, lines, judge, lookup>>
    BY <2>0, <2>1
  <2>2. CASE Decoder!Next /\ UNCHANGED <<vars, lines, judge, lookup>>
    BY <2>0, <2>2
  <2>3. CASE Framer!Next /\ UNCHANGED <<vars, tcp, judge, lookup>>
    BY <2>0, <2>3
  <2>4. CASE Checks!Next /\ UNCHANGED <<vars, tcp, lines, lookup>>
    BY <2>0, <2>4
  <2>5. CASE Search!Next /\ UNCHANGED <<vars, tcp, lines, judge>>
    BY <2>0, <2>5
  <2>6. CASE UNCHANGED <<vars, tcp, lines, judge, lookup>>
    BY <2>0, <2>6
  <2>7. QED
    BY <1>2, <2>1, <2>2, <2>3, <2>4, <2>5, <2>6 DEF SuiteNext
<1>3. QED
  BY <1>1, <1>2, PTL DEF SuiteSpec, Spec, Decoder!Spec, Framer!Spec, Checks!Spec,
                         Search!Spec

(* No byte is stored outside a buffer.                                      *)
THEOREM BuffersFitHolds == SuiteSpec => []BuffersFit
<1>1. TypeOK /\ Decoder!TypeOK /\ Framer!TypeOK => BuffersFit
  BY DEF BuffersFit
<1>2. QED
  BY <1>1, SuiteIsEach, ParserIsRight, DecoderIsRight, FramerIsRight, PTL

(* What is delivered was sent: a frame with its checksum, the next frame of *)
(* the stream, a whole line.                                                *)
THEOREM FramesAreWholeHolds == SuiteSpec => []FramesAreWhole
<1>1. AcceptedIsFrame /\ Decoder!StreamIsFrames /\ Framer!ReadyIsTheLine => FramesAreWhole
  BY DEF FramesAreWhole
<1>2. QED
  BY <1>1, SuiteIsEach, ParserIsRight, DecoderIsRight, FramerIsRight, PTL

(* What was sent is delivered: no frame that begins with a free head, no    *)
(* frame the buffer holds and no line that fits is dropped.                 *)
THEOREM NothingIsMissedHolds == SuiteSpec => NothingIsMissed
  BY SuiteIsEach, ParserIsRight, DecoderIsRight, FramerIsRight, FramerAnswers, PTL
     DEF NothingIsMissed

(* The judges accept what was sealed, with its number and length, and      *)
(* nothing that damage to sixteen bits in a row has hit.                    *)
THEOREM JudgesAreRightHolds == SuiteSpec => []JudgesAreRight
<1>1. Checks!AcceptedIsRight /\ Checks!GoodIsAccepted => JudgesAreRight
  BY DEF JudgesAreRight
<1>2. QED
  BY <1>1, SuiteIsEach, ChecksAssumption, ChecksAreRight, PTL

(* Every search of the suite gives what it promises, and its loop ends.     *)
THEOREM SearchesAreRightHolds == SuiteSpec => SearchesAreRight
  BY SuiteIsEach, SearchAssumption, ResultIsRightHolds, ReadsInsideHolds,
     AlwaysShrinksHolds, PTL
     DEF SearchesAreRight
=============================================================================
