-------------------------- MODULE K230FrameProofs ---------------------------
(***************************************************************************)
(* Proofs about the frame parser, for every alphabet, payload limit and    *)
(* checksum, and whatever bytes arrive.                                    *)
(***************************************************************************)
EXTENDS K230Frame, SequenceTheorems, TLAPS

\* In every state the parser holds exactly the bytes that state stands for.
ShapeInv ==
  /\ state = "WAIT_STX" => buf = <<>>
  /\ state = "WAIT_LEN" => Len(buf) = 1
  /\ state \in {"WAIT_DATA", "WAIT_ETX"} =>
       /\ Len(buf) >= 2
       /\ buf[2] \in 0..MaxPayload
       /\ expected = buf[2] + 4
  /\ state = "WAIT_DATA" => Len(buf) < 2 + expected
  /\ state = "WAIT_ETX"  => Len(buf) = 2 + expected

IInv == TypeOK /\ ShapeInv

-----------------------------------------------------------------------------
LEMMA InitIInv == Init => IInv
<1>1. <<>> \in Seq(Byte) /\ Len(<<>>) = 0
  OBVIOUS
<1>2. Init => TypeOK
  <2> SUFFICES ASSUME Init PROVE TypeOK
    OBVIOUS
  <2>1. line \in Seq(Byte) /\ buf \in Seq(Byte)
    BY <1>1 DEF Init
  <2>2. expected \in Nat
    BY DEF Init
  <2>3. silent \in BOOLEAN /\ state = "WAIT_STX"
    BY DEF Init
  <2> QED BY <2>1, <2>2, <2>3 DEF TypeOK
<1>3. Init => ShapeInv
  BY <1>1 DEF Init, ShapeInv
<1> QED BY <1>2, <1>3 DEF IInv

\* A concatenation, by its places.
LEMMA ConcatBytes ==
  \A s, t \in Seq(Byte) :
    /\ s \o t \in Seq(Byte) /\ Len(s \o t) = Len(s) + Len(t)
    /\ \A i \in 1..Len(s) : (s \o t)[i] = s[i]
    /\ \A i \in 1..Len(t) : (s \o t)[Len(s) + i] = t[i]
<1> SUFFICES ASSUME NEW s \in Seq(Byte), NEW t \in Seq(Byte)
             PROVE  /\ s \o t \in Seq(Byte) /\ Len(s \o t) = Len(s) + Len(t)
                    /\ \A i \in 1..Len(s) : (s \o t)[i] = s[i]
                    /\ \A i \in 1..Len(t) : (s \o t)[Len(s) + i] = t[i]
  OBVIOUS
<1>1. Len(s) \in Nat /\ Len(t) \in Nat
  OBVIOUS
<1>2. /\ s \o t \in Seq(Byte) /\ Len(s \o t) = Len(s) + Len(t)
      /\ \A i \in 1..(Len(s) + Len(t)) :
           (s \o t)[i] = IF i <= Len(s) THEN s[i] ELSE t[i - Len(s)]
  BY ConcatProperties
<1>3. ASSUME NEW i \in 1..Len(s) PROVE (s \o t)[i] = s[i]
  BY <1>1, <1>2
<1>4. ASSUME NEW i \in 1..Len(t) PROVE (s \o t)[Len(s) + i] = t[i]
  <2>1. Len(s) + i \in 1..(Len(s) + Len(t)) /\ ~(Len(s) + i <= Len(s)) /\ (Len(s) + i) - Len(s) = i
    BY <1>1
  <2> QED BY <1>2, <2>1, Zenon
<1> QED BY <1>2, <1>3, <1>4

\* The bytes of a frame, by their places.
LEMMA EncodeBytes ==
  ASSUME NEW f \in Frames
  PROVE  LET n == Len(f.payload)
             c == Crc(<<f.cmd, f.seq>> \o f.payload)
             e == Encode(f)
         IN  /\ n \in 0..MaxPayload /\ n \in Byte
             /\ e \in Seq(Byte) /\ Len(e) = 7 + n
             /\ e[1] = STX /\ e[2] = n /\ e[3] = f.cmd /\ e[4] = f.seq
             /\ \A i \in 1..n : e[4 + i] = f.payload[i]
             /\ e[5 + n] = c[1] /\ e[6 + n] = c[2] /\ e[7 + n] = ETX
<1> DEFINE n == Len(f.payload)
           two == <<f.cmd, f.seq>>
           body == two \o f.payload
           c == Crc(body)
           head == <<STX, n>>
<1>1. /\ f.cmd \in Byte /\ f.seq \in Byte /\ f.payload \in Seq(Byte)
      /\ n \in 0..MaxPayload /\ n \in Byte
      /\ c \in Byte \X Byte
  BY FramesAssumption, ByteAssumption
<1>2. /\ head \in Seq(Byte) /\ Len(head) = 2 /\ head[1] = STX /\ head[2] = n
  BY <1>1, ByteAssumption
<1>3. /\ two \in Seq(Byte) /\ Len(two) = 2 /\ two[1] = f.cmd /\ two[2] = f.seq
  BY <1>1
<1>4. c \in Seq(Byte) /\ Len(c) = 2
  <2>1. PICK lo \in Byte, hi \in Byte : c = <<lo, hi>>
    BY <1>1
  <2>2. <<lo, hi>> \in Seq(Byte) /\ Len(<<lo, hi>>) = 2
    OBVIOUS
  <2> QED BY <2>1, <2>2, Zenon
<1>5. <<ETX>> \in Seq(Byte) /\ Len(<<ETX>>) = 1 /\ <<ETX>>[1] = ETX
  BY ByteAssumption
<1> DEFINE hb == head \o body
           hbc == hb \o c
<1> HIDE DEF two, head, body, c, hb, hbc, n
<1>6. /\ body \in Seq(Byte) /\ Len(body) = 2 + n
      /\ \A i \in 1..2 : body[i] = two[i]
      /\ \A i \in 1..n : body[2 + i] = f.payload[i]
  <2>1. /\ body \in Seq(Byte) /\ Len(body) = Len(two) + Len(f.payload)
        /\ \A i \in 1..Len(two) : body[i] = two[i]
        /\ \A i \in 1..Len(f.payload) : body[Len(two) + i] = f.payload[i]
    BY <1>1, <1>3, ConcatBytes, Zenon DEF body
  <2>2. Len(two) = 2 /\ Len(f.payload) = n
    BY <1>3 DEF n
  <2> QED BY ONLY <2>1, <2>2
<1>7. /\ hb \in Seq(Byte) /\ Len(hb) = 2 + (2 + n)
      /\ \A i \in 1..2 : hb[i] = head[i]
      /\ \A i \in 1..(2 + n) : hb[2 + i] = body[i]
  <2>1. /\ hb \in Seq(Byte) /\ Len(hb) = Len(head) + Len(body)
        /\ \A i \in 1..Len(head) : hb[i] = head[i]
        /\ \A i \in 1..Len(body) : hb[Len(head) + i] = body[i]
    BY <1>2, <1>6, ConcatBytes, Zenon DEF hb
  <2>2. Len(head) = 2 /\ Len(body) = 2 + n
    BY <1>2, <1>6
  <2> QED BY ONLY <2>1, <2>2
<1>8. /\ hbc \in Seq(Byte) /\ Len(hbc) = (2 + (2 + n)) + 2
      /\ \A i \in 1..(2 + (2 + n)) : hbc[i] = hb[i]
      /\ \A i \in 1..2 : hbc[(2 + (2 + n)) + i] = c[i]
  <2>1. /\ hbc \in Seq(Byte) /\ Len(hbc) = Len(hb) + Len(c)
        /\ \A i \in 1..Len(hb) : hbc[i] = hb[i]
        /\ \A i \in 1..Len(c) : hbc[Len(hb) + i] = c[i]
    BY <1>4, <1>7, ConcatBytes, Zenon DEF hbc
  <2>2. Len(hb) = 2 + (2 + n) /\ Len(c) = 2
    BY <1>4, <1>7
  <2> QED BY ONLY <2>1, <2>2
<1>9. /\ hbc \o <<ETX>> \in Seq(Byte) /\ Len(hbc \o <<ETX>>) = ((2 + (2 + n)) + 2) + 1
      /\ \A i \in 1..((2 + (2 + n)) + 2) : (hbc \o <<ETX>>)[i] = hbc[i]
      /\ \A i \in 1..1 : (hbc \o <<ETX>>)[((2 + (2 + n)) + 2) + i] = <<ETX>>[i]
  <2>1. /\ (hbc \o <<ETX>>) \in Seq(Byte) /\ Len((hbc \o <<ETX>>)) = Len(hbc) + Len(<<ETX>>)
        /\ \A i \in 1..Len(hbc) : (hbc \o <<ETX>>)[i] = hbc[i]
        /\ \A i \in 1..Len(<<ETX>>) : (hbc \o <<ETX>>)[Len(hbc) + i] = <<ETX>>[i]
    BY <1>5, <1>8, ConcatBytes, Zenon
  <2>2. Len(hbc) = (2 + (2 + n)) + 2 /\ Len(<<ETX>>) = 1
    BY <1>5, <1>8
  <2> QED BY ONLY <2>1, <2>2
<1>10. Encode(f) = hbc \o <<ETX>>
  BY Zenon DEF Encode, hbc, hb, head, body, c, two, n
<1> DEFINE e == Encode(f)
<1> HIDE DEF e
<1>11. /\ e \in Seq(Byte) /\ Len(e) = 7 + n /\ e[7 + n] = ETX
       /\ \A i \in 1..(6 + n) : e[i] = hbc[i]
  BY <1>1, <1>5, <1>9, <1>10 DEF e, n
<1>12. /\ \A i \in 1..(4 + n) : e[i] = hb[i]
       /\ e[5 + n] = c[1] /\ e[6 + n] = c[2]
  <2>1. n \in Nat /\ 1 \in 1..2 /\ 2 \in 1..2
    BY <1>1 DEF n
  <2>2. \A i \in 1..(4 + n) : e[i] = hb[i]
    BY <1>8, <1>11, <2>1
  <2>3. hbc[(2 + (2 + n)) + 1] = c[1] /\ hbc[(2 + (2 + n)) + 2] = c[2]
    BY <1>8, <2>1, Zenon
  <2>4. /\ (2 + (2 + n)) + 1 = 5 + n /\ 5 + n \in 1..(6 + n)
        /\ (2 + (2 + n)) + 2 = 6 + n /\ 6 + n \in 1..(6 + n)
    BY <2>1
  <2> QED BY <1>11, <2>2, <2>3, <2>4, Zenon
<1>13. /\ e[1] = STX /\ e[2] = n
       /\ \A i \in 1..(2 + n) : e[2 + i] = body[i]
  BY <1>1, <1>2, <1>7, <1>12 DEF n
<1>14. /\ e[3] = f.cmd /\ e[4] = f.seq
       /\ \A i \in 1..n : e[4 + i] = f.payload[i]
  BY <1>1, <1>3, <1>6, <1>13 DEF n
<1> QED BY <1>1, <1>11, <1>12, <1>13, <1>14, Zenon DEF e, c, body, two, n

\* What each of the parser's cases does with one byte.
LEMMA WaitStxStep ==
  ASSUME IInv, NEW b \in Byte, WaitStx(b)
  PROVE  /\ state' \in {"WAIT_STX", "WAIT_LEN"}
         /\ buf' \in Seq(Byte)
         /\ expected' \in Nat
         /\ ShapeInv'
<1>1. expected \in Nat /\ <<>> \in Seq(Byte) /\ Len(<<>>) = 0
  BY DEF IInv, TypeOK
<1>2. CASE b = STX
  <2>1. <<b>> \in Seq(Byte) /\ Len(<<b>>) = 1
    OBVIOUS
  <2>2. state' = "WAIT_LEN" /\ buf' = <<b>> /\ expected' = expected
    BY <1>2 DEF WaitStx
  <2> QED BY <1>1, <2>1, <2>2 DEF ShapeInv
<1>3. CASE b # STX
  BY <1>1, <1>3 DEF WaitStx, Reset, ShapeInv
<1> QED BY <1>2, <1>3

LEMMA WaitLenStep ==
  ASSUME IInv, NEW b \in Byte, state = "WAIT_LEN", WaitLen(b)
  PROVE  /\ state' \in {"WAIT_STX", "WAIT_DATA"}
         /\ buf' \in Seq(Byte)
         /\ expected' \in Nat
         /\ ShapeInv'
<1>1. CASE b > MaxPayload
  BY <1>1 DEF IInv, TypeOK, WaitLen, Reset, ShapeInv
<1>2. CASE ~(b > MaxPayload)
  <2>1. b \in Nat /\ MaxPayload \in Nat /\ b \in 0..MaxPayload
    BY <1>2, ByteAssumption
  <2>2. /\ state' = "WAIT_DATA"
        /\ buf' = Append(buf, b)
        /\ expected' = b + 4
    BY <1>2 DEF WaitLen
  <2>3. buf \in Seq(Byte) /\ Len(buf) = 1
    BY DEF IInv, TypeOK, ShapeInv
  <2>4. buf' \in Seq(Byte) /\ Len(buf') = 2 /\ buf'[2] = b
    <3>1. /\ Append(buf, b) \in Seq(Byte)
          /\ Len(Append(buf, b)) = Len(buf) + 1
          /\ Append(buf, b)[Len(buf) + 1] = b
      BY <2>3, AppendProperties
    <3>2. Len(buf) + 1 = 2
      BY <2>3
    <3> QED BY ONLY <2>2, <3>1, <3>2
  <2> QED BY <2>1, <2>2, <2>4 DEF ShapeInv
<1> QED BY <1>1, <1>2

LEMMA WaitDataStep ==
  ASSUME IInv, NEW b \in Byte, state = "WAIT_DATA", WaitData(b)
  PROVE  /\ state' \in {"WAIT_DATA", "WAIT_ETX"}
         /\ buf' \in Seq(Byte)
         /\ expected' \in Nat
         /\ ShapeInv'
<1>1. /\ buf \in Seq(Byte) /\ Len(buf) \in Nat /\ Len(buf) >= 2
      /\ buf[2] \in 0..MaxPayload
      /\ expected = buf[2] + 4
      /\ Len(buf) < 2 + expected
      /\ MaxPayload \in Nat
  BY ByteAssumption DEF IInv, TypeOK, ShapeInv
<1>2. Len(buf) < MaxFrame
  BY <1>1 DEF MaxFrame
<1>3. /\ buf' = Append(buf, b)
      /\ state' = IF Len(buf') >= 2 + expected THEN "WAIT_ETX" ELSE "WAIT_DATA"
      /\ expected' = expected
  BY <1>2 DEF WaitData
<1>4. buf' \in Seq(Byte) /\ Len(buf') = Len(buf) + 1 /\ buf'[2] = buf[2]
  BY <1>1, <1>3
<1>5. expected \in Nat
  BY <1>1
<1>6. CASE Len(buf') >= 2 + expected
  <2>1. state' = "WAIT_ETX" /\ Len(buf') = 2 + expected
    BY <1>1, <1>3, <1>4, <1>6
  <2> QED BY <1>1, <1>3, <1>4, <1>5, <2>1 DEF ShapeInv
<1>7. CASE ~(Len(buf') >= 2 + expected)
  <2>1. state' = "WAIT_DATA" /\ Len(buf') < 2 + expected
    BY <1>1, <1>3, <1>4, <1>5, <1>7
  <2> QED BY <1>1, <1>3, <1>4, <1>5, <2>1 DEF ShapeInv
<1> QED BY <1>6, <1>7

LEMMA FeedStep == IInv /\ k230_parser_feed => IInv'
<1> SUFFICES ASSUME IInv, k230_parser_feed PROVE IInv'
  OBVIOUS
<1> DEFINE fresh == state = "WAIT_STX" \/ silent
<1>1. PICK b \in Byte :
        \/ fresh /\ WaitStx(b)
        \/ ~fresh /\ state = "WAIT_LEN" /\ WaitLen(b)
        \/ ~fresh /\ state = "WAIT_DATA" /\ WaitData(b)
        \/ ~fresh /\ state = "WAIT_ETX" /\ Reset
  <2>1. line \in Seq(Byte) /\ line # <<>>
    BY DEF IInv, TypeOK, k230_parser_feed, Feed
  <2>2. Head(line) \in Byte
    BY <2>1
  <2> QED BY <2>2 DEF k230_parser_feed, Feed
<1>2. line' \in Seq(Byte) /\ silent' \in BOOLEAN
  <2>1. line \in Seq(Byte) /\ line # <<>> /\ line' = Tail(line) /\ silent' = FALSE
    BY DEF IInv, TypeOK, k230_parser_feed, Feed
  <2> QED BY <2>1, HeadTailProperties
<1>3. /\ state' \in {"WAIT_STX", "WAIT_LEN", "WAIT_DATA", "WAIT_ETX"}
      /\ buf' \in Seq(Byte)
      /\ expected' \in Nat
      /\ ShapeInv'
  <2>1. CASE fresh /\ WaitStx(b)
    BY <2>1, WaitStxStep
  <2>2. CASE ~fresh /\ state = "WAIT_LEN" /\ WaitLen(b)
    BY <2>2, WaitLenStep
  <2>3. CASE ~fresh /\ state = "WAIT_DATA" /\ WaitData(b)
    BY <2>3, WaitDataStep
  <2>4. CASE ~fresh /\ state = "WAIT_ETX" /\ Reset
    BY <2>4 DEF IInv, TypeOK, Reset, ShapeInv
  <2> QED BY <1>1, <2>1, <2>2, <2>3, <2>4
<1> QED BY <1>2, <1>3 DEF IInv, TypeOK

LEMMA LineStep ==
  ASSUME IInv, Fault \/ Silence \/ \E f \in Frames : k230_send_frame(f)
  PROVE  IInv'
<1>1. line' \in Seq(Byte)
  <2>1. CASE Fault
    <3>1. line \in Seq(Byte)
      BY DEF IInv, TypeOK
    <3>2. CASE line # <<>> /\ line' = Tail(line)
      BY <3>1, <3>2
    <3>3. ASSUME NEW b \in Byte, line # <<>>, line' = <<b>> \o Tail(line)
          PROVE line' \in Seq(Byte)
      <4>1. <<b>> \in Seq(Byte) /\ Tail(line) \in Seq(Byte)
        BY <3>1, <3>3
      <4> QED BY <3>3, <4>1
    <3>4. ASSUME NEW b \in Byte, line' = <<b>> \o line
          PROVE line' \in Seq(Byte)
      BY <3>1, <3>4
    <3> QED BY <2>1, <3>2, <3>3, <3>4 DEF Fault
  <2>2. CASE Silence
    BY <2>2 DEF Silence, IInv, TypeOK
  <2>3. ASSUME NEW f \in Frames, k230_send_frame(f) PROVE line' \in Seq(Byte)
    <3>1. Encode(f) \in Seq(Byte)
      BY EncodeBytes
    <3> QED BY <2>3, <3>1 DEF k230_send_frame, IInv, TypeOK
  <2> QED BY <2>1, <2>2, <2>3
<1>2. UNCHANGED parser /\ silent' \in BOOLEAN
  BY DEF Fault, Silence, k230_send_frame, IInv, TypeOK
<1> QED BY <1>1, <1>2 DEF IInv, TypeOK, ShapeInv, parser

\* IInv holds in every reachable state.
THEOREM Invariance == Spec => []IInv
<1>1. IInv /\ [Next]_vars => IInv'
  <2> SUFFICES ASSUME IInv, [Next]_vars PROVE IInv'
    OBVIOUS
  <2>1. CASE UNCHANGED vars
    BY <2>1 DEF vars, parser, IInv, TypeOK, ShapeInv
  <2> QED BY <2>1, FeedStep, LineStep DEF Next
<1> QED BY InitIInv, <1>1, PTL DEF Spec

\* The variables keep their types.
THEOREM TypeCorrect == Spec => []TypeOK
<1>1. IInv => TypeOK
  BY DEF IInv
<1> QED BY Invariance, <1>1, PTL

\* Whatever arrives, the parser stays within its buffer and reads only bytes
\* that the frame at hand has delivered.
THEOREM NeverOverflows == Spec => []BufferFits
<1>1. IInv => BufferFits
  <2> SUFFICES ASSUME IInv PROVE BufferFits
    OBVIOUS
  <2>1. /\ MaxPayload \in Nat /\ Len(buf) \in Nat
        /\ state \in {"WAIT_STX", "WAIT_LEN", "WAIT_DATA", "WAIT_ETX"}
    BY ByteAssumption DEF IInv, TypeOK
  <2>2. CASE state \in {"WAIT_STX", "WAIT_LEN"}
    <3>1. buf = <<>> \/ Len(buf) = 1
      BY <2>2 DEF IInv, ShapeInv
    <3>2. Len(<<>>) = 0
      OBVIOUS
    <3>3. Len(buf) \in {0, 1}
      BY <3>1, <3>2, Zenon
    <3>4. \A n \in {0, 1} : n < 7 + MaxPayload
      BY <2>1
    <3>5. Len(buf) < MaxFrame
      BY <3>3, <3>4, Zenon DEF MaxFrame
    <3> QED BY <2>2, <3>5, Zenon DEF BufferFits
  <2>3. CASE state \in {"WAIT_DATA", "WAIT_ETX"}
    <3>1. /\ buf[2] \in 0..MaxPayload /\ expected = buf[2] + 4
          /\ Len(buf) <= 2 + expected
          /\ state = "WAIT_ETX" => Len(buf) = 2 + expected
      BY <2>1, <2>3 DEF IInv, ShapeInv
    <3> QED BY <2>1, <3>1 DEF BufferFits, MaxFrame
  <2> QED BY <2>1, <2>2, <2>3
<1> QED BY Invariance, <1>1, PTL

-----------------------------------------------------------------------------
(***************************************************************************)
(* Delivery.  As long as the line has not been disturbed since the last    *)
(* silence, the bytes that the parser holds and those on the line are the  *)
(* frames that were sent and not yet received, one after the other.        *)
(***************************************************************************)
\* The number of bytes the parser holds of the frame it is reading.
Held == IF silent \/ state = "WAIT_STX" THEN 0 ELSE Len(buf)

\* What was received is a beginning of what was sent.
Delivered ==
  /\ received \in Seq(Frames) /\ Len(received) <= Len(sent)
  /\ \A i \in 1..Len(received) : received[i] = sent[i]

\* The bytes held begin the first frame not received.
Current ==
  Len(received) < Len(sent) =>
    LET e == Encode(sent[Len(received) + 1])
    IN  Held < Len(e) /\ \A k \in 1..Held : buf[k] = e[k]

\* off[i] is the place on the line where the frame with number i ends.
Framing(off) ==
  /\ off[Len(received)] + Held = 0 /\ off[Len(sent)] = Len(line)
  /\ \A i \in (Len(received) + 1)..Len(sent) :
       /\ off[i] = off[i - 1] + Len(Encode(sent[i])) /\ off[i] <= Len(line)
       /\ \A k \in 1..Len(Encode(sent[i])) :
            off[i - 1] + k >= 1 => line[off[i - 1] + k] = Encode(sent[i])[k]

Framed == \E off \in [Len(received)..Len(sent) -> Int] : Framing(off)

StreamInv ==
  /\ noise \in Nat /\ sent \in Seq(Frames)
  /\ noise = 0 => Delivered /\ Current /\ Framed

\* The buffer of a complete frame is read as that frame.
LEMMA FrameParsed ==
  ASSUME NEW g \in Frames, buf \in Seq(Byte), Len(buf) = 6 + Len(g.payload),
         \A k \in 1..Len(buf) : buf[k] = Encode(g)[k]
  PROVE  Complete(ETX) /\ Frame = g
<1> DEFINE n == Len(g.payload)
           e == Encode(g)
           body == <<g.cmd, g.seq>> \o g.payload
<1>1. /\ g \in [cmd : Byte, seq : Byte, payload : Seq(Byte)] /\ n \in Nat
      /\ Crc(body) \in Byte \X Byte
  BY FramesAssumption
<1>2. /\ e[2] = n /\ e[3] = g.cmd /\ e[4] = g.seq
      /\ \A i \in 1..n : e[4 + i] = g.payload[i]
      /\ e[5 + n] = Crc(body)[1] /\ e[6 + n] = Crc(body)[2]
  BY EncodeBytes, Zenon
<1>3. /\ buf[2] = n /\ buf[3] = g.cmd /\ buf[4] = g.seq
      /\ \A i \in 1..n : buf[4 + i] = g.payload[i]
      /\ buf[5 + n] = Crc(body)[1] /\ buf[6 + n] = Crc(body)[2]
  <2> HIDE DEF e, body
  <2>1. /\ 2 \in 1..Len(buf) /\ 3 \in 1..Len(buf) /\ 4 \in 1..Len(buf)
        /\ 5 + n \in 1..Len(buf) /\ 6 + n \in 1..Len(buf)
        /\ \A i \in 1..n : 4 + i \in 1..Len(buf)
    BY <1>1
  <2>2. \A k \in 1..Len(buf) : buf[k] = e[k]
    BY DEF e
  <2> QED BY <1>2, <2>1, <2>2, Zenon
<1>4. SubSeq(buf, 5, 4 + n) = g.payload
  <2>1. \A i \in 5..(4 + n) : buf[i] \in Byte
    BY <1>1
  <2>2. /\ SubSeq(buf, 5, 4 + n) \in Seq(Byte) /\ Len(SubSeq(buf, 5, 4 + n)) = n
        /\ \A i \in 1..n : SubSeq(buf, 5, 4 + n)[i] = buf[4 + i]
    BY <1>1, <2>1
  <2>3. g.payload \in Seq(Byte) /\ Len(g.payload) = n
    BY <1>1
  <2> QED BY <1>3, <2>2, <2>3, SeqEqual
<1>5. SubSeq(buf, 3, 4 + n) = body
  <2>1. /\ body \in Seq(Byte) /\ Len(body) = 2 + n
        /\ body[1] = g.cmd /\ body[2] = g.seq
        /\ \A i \in 1..n : body[2 + i] = g.payload[i]
    BY <1>1
  <2>2. /\ SubSeq(buf, 3, 4 + n) \in Seq(Byte) /\ Len(SubSeq(buf, 3, 4 + n)) = 2 + n
        /\ \A i \in 1..(2 + n) : SubSeq(buf, 3, 4 + n)[i] = buf[2 + i]
    BY <1>1
  <2> HIDE DEF body
  <2>3. ASSUME NEW i \in 1..(2 + n) PROVE SubSeq(buf, 3, 4 + n)[i] = body[i]
    <3>1. CASE i \in {1, 2}
      BY <1>3, <2>1, <2>2, <3>1
    <3>2. CASE i \notin {1, 2}
      <4>1. i - 2 \in 1..n /\ 2 + (i - 2) = i /\ 4 + (i - 2) = 2 + i
        BY <1>1, <3>2
      <4>2. body[i] = g.payload[i - 2] /\ buf[2 + i] = g.payload[i - 2]
        BY <1>3, <2>1, <4>1
      <4> QED BY <2>2, <4>2
    <3> QED BY <3>1, <3>2
  <2> QED BY <2>1, <2>2, <2>3, SeqEqual
<1>6. Complete(ETX)
  <2>1. \E lo, hi \in Byte : Crc(body) = <<lo, hi>>
    BY <1>1
  <2>2. <<Crc(body)[1], Crc(body)[2]>> = Crc(body)
    BY <2>1
  <2>3. <<buf[5 + n], buf[6 + n]>> = Crc(body)
    BY <1>3, <2>2, Zenon
  <2> HIDE DEF body
  <2> QED BY <1>3, <1>5, <2>3, Zenon DEF Complete, Body
<1>7. Frame = g
  <2>1. Frame = [cmd |-> g.cmd, seq |-> g.seq, payload |-> g.payload]
    BY <1>3, <1>4, Zenon DEF Frame
  <2> QED BY <1>1, <2>1
<1> QED BY <1>6, <1>7

\* The parser is given the next byte of the frame g: it holds one byte more, or
\* it is through with g and has handed it over.
LEMMA ParserStep ==
  ASSUME IInv, k230_parser_feed, NEW g \in Frames,
         Held < Len(Encode(g)), \A k \in 1..Held : buf[k] = Encode(g)[k],
         Head(line) = Encode(g)[Held + 1]
  PROVE  \/ /\ Held + 1 < Len(Encode(g)) /\ Held' = Held + 1
            /\ \A k \in 1..Held' : buf'[k] = Encode(g)[k]
            /\ received' = received
         \/ /\ Held + 1 = Len(Encode(g)) /\ Held' = 0
            /\ received' = Append(received, g)
<1> DEFINE n == Len(g.payload)
           e == Encode(g)
           b == Head(line)
           fresh == state = "WAIT_STX" \/ silent
<1>1. /\ n \in Nat /\ n <= MaxPayload /\ Len(e) = 7 + n
      /\ e[1] = STX /\ e[2] = n /\ e[7 + n] = ETX
  <2>1. /\ n \in 0..MaxPayload /\ Len(e) = 7 + n
        /\ e[1] = STX /\ e[2] = n /\ e[7 + n] = ETX
    BY EncodeBytes, Zenon
  <2> QED BY <2>1, ByteAssumption
<1>2. silent' = FALSE
  BY DEF k230_parser_feed, Feed
<1>3. /\ buf \in Seq(Byte) /\ Len(buf) \in Nat /\ MaxPayload \in Nat
      /\ ShapeInv
  BY ByteAssumption DEF IInv, TypeOK
<1>4. /\ Held < Len(e) /\ b = e[Held + 1]
      /\ \A k \in 1..Held : buf[k] = e[k]
  OBVIOUS
<1> HIDE DEF e, n, b
<1>5. CASE fresh /\ WaitStx(b) /\ received' = received
  <2>1. Held = 0
    BY <1>5 DEF Held
  <2>2. b = STX
    BY <1>1, <1>4, <2>1
  <2>3. state' = "WAIT_LEN" /\ buf' = <<b>>
    BY <1>5, <2>2 DEF WaitStx
  <2>4. Held' = 1
    BY <1>2, <2>3 DEF Held
  <2>5. \A k \in 1..Held' : buf'[k] = e[k]
    BY <1>1, <2>2, <2>3, <2>4
  <2> QED BY <1>1, <1>5, <2>1, <2>4, <2>5 DEF e
<1>6. CASE ~fresh /\ state = "WAIT_LEN" /\ WaitLen(b) /\ received' = received
  <2>1. Held = 1 /\ Len(buf) = 1
    BY <1>3, <1>6 DEF Held, ShapeInv
  <2>2. b = n
    BY <1>1, <1>4, <2>1
  <2>3. state' = "WAIT_DATA" /\ buf' = Append(buf, b)
    BY <1>1, <1>3, <1>6, <2>2 DEF WaitLen
  <2>4. Len(buf') = 2 /\ buf'[1] = buf[1] /\ buf'[2] = b
    <3>1. b \in Byte
      BY <1>1, <2>2, EncodeBytes, Zenon DEF n
    <3>2. /\ Len(Append(buf, b)) = Len(buf) + 1
          /\ \A i \in 1..Len(buf) : Append(buf, b)[i] = buf[i]
          /\ Append(buf, b)[Len(buf) + 1] = b
      BY <1>3, <3>1, AppendProperties
    <3> QED BY <2>1, <2>3, <3>2
  <2>5. Held' = 2
    BY <1>2, <2>3, <2>4 DEF Held
  <2>6. buf[1] = e[1]
    BY <1>4, <2>1
  <2>7. \A k \in 1..Held' : buf'[k] = e[k]
    BY <1>1, <2>2, <2>4, <2>5, <2>6
  <2> QED BY <1>1, <1>6, <2>1, <2>5, <2>7 DEF e
<1>7. CASE ~fresh /\ state = "WAIT_DATA" /\ WaitData(b) /\ received' = received
  <2>1. /\ Held = Len(buf) /\ Len(buf) >= 2 /\ expected = buf[2] + 4
        /\ Len(buf) < 2 + expected
    BY <1>3, <1>7 DEF Held, ShapeInv
  <2>2. buf[2] = n
    BY <1>1, <1>4, <2>1
  <2>3. Len(buf) < 6 + n
    BY <1>1, <2>1, <2>2
  <2>4. buf' = Append(buf, b) /\ state' # "WAIT_STX"
    BY <1>1, <1>3, <1>7, <2>3 DEF WaitData, MaxFrame
  <2>5. Held' = Len(buf) + 1
    BY <1>2, <1>3, <2>4 DEF Held
  <2>6. ASSUME NEW k \in 1..Held' PROVE buf'[k] = e[k]
    <3>1. CASE k = Len(buf) + 1
      BY <1>3, <1>4, <2>1, <2>4, <3>1
    <3>2. CASE k # Len(buf) + 1
      <4>1. k \in 1..Len(buf)
        BY <1>3, <2>5, <3>2
      <4>2. buf'[k] = buf[k]
        BY <1>3, <2>4, <4>1
      <4> QED BY <1>4, <2>1, <4>1, <4>2
    <3> QED BY <3>1, <3>2
  <2> QED BY <1>1, <1>3, <1>7, <2>1, <2>3, <2>5, <2>6 DEF e
<1>8. CASE /\ ~fresh /\ state = "WAIT_ETX" /\ Reset
           /\ received' = IF Complete(b) THEN Append(received, Frame) ELSE received
  <2>1. Held = Len(buf) /\ Len(buf) >= 2 /\ Len(buf) = 6 + buf[2]
    BY <1>3, <1>8 DEF Held, ShapeInv
  <2>2. buf[2] = n
    BY <1>1, <1>4, <2>1
  <2>3. Len(buf) = 6 + n /\ b = ETX
    BY <1>1, <1>4, <2>1, <2>2
  <2>4. Complete(ETX) /\ Frame = g
    <3>1. Len(buf) = 6 + Len(g.payload) /\ \A k \in 1..Len(buf) : buf[k] = Encode(g)[k]
      BY <1>4, <2>1, <2>3 DEF e, n
    <3> QED BY <1>3, <3>1, FrameParsed
  <2>5. Held' = 0
    BY <1>8 DEF Held, Reset
  <2>6. received' = Append(received, g)
    BY <1>8, <2>3, <2>4
  <2> QED BY <1>1, <2>1, <2>3, <2>5, <2>6 DEF e
<1> QED BY <1>5, <1>6, <1>7, <1>8 DEF k230_parser_feed, Feed, b

\* Types of the two lengths, and of a frame's.
LEMMA HeldBytes == ASSUME IInv PROVE Held \in Nat /\ Len(line) \in Nat
<1>1. Len(buf) \in Nat /\ Len(line) \in Nat
  BY DEF IInv, TypeOK
<1> QED BY <1>1 DEF Held

LEMMA FrameLength ==
  ASSUME NEW f \in Frames
  PROVE  Encode(f) \in Seq(Byte) /\ Len(Encode(f)) \in Nat \ {0}
<1>1. Len(f.payload) \in 0..MaxPayload /\ Encode(f) \in Seq(Byte) /\ Len(Encode(f)) = 7 + Len(f.payload)
  BY EncodeBytes, Zenon
<1> QED BY <1>1, ByteAssumption

\* Nothing was sent at first.
LEMMA InitStream == Init => StreamInv
<1> SUFFICES ASSUME Init PROVE StreamInv
  OBVIOUS
<1>1. /\ sent = <<>> /\ received = <<>> /\ line = <<>> /\ noise = 0 /\ Held = 0
      /\ <<>> \in Seq(Frames) /\ Len(<<>>) = 0
  BY DEF Init, Held
<1>2. Delivered /\ Current
  BY <1>1 DEF Delivered, Current
<1>3. PICK off \in [0..0 -> Int] : off[0] = 0
  <2>1. [i \in 0..0 |-> 0] \in [0..0 -> Int] /\ [i \in 0..0 |-> 0][0] = 0
    OBVIOUS
  <2> QED BY <2>1, Zenon
<1>4. Framing(off)
  <2>1. \A i \in (0 + 1)..0 : FALSE
    OBVIOUS
  <2>2. 0 + 0 = 0
    OBVIOUS
  <2> QED BY <1>1, <1>3, <2>1, <2>2, Zenon DEF Framing
<1> QED BY <1>1, <1>2, <1>4 DEF StreamInv, Framed

\* A silence leaves nothing to deliver.
LEMMA SilenceStream == ASSUME Silence PROVE StreamInv'
<1>1. /\ sent' = <<>> /\ received' = <<>> /\ line' = <<>> /\ noise' = 0 /\ Held' = 0
      /\ <<>> \in Seq(Frames) /\ Len(<<>>) = 0
  BY DEF Silence, Held
<1>2. Delivered' /\ Current'
  BY <1>1 DEF Delivered, Current
<1>3. PICK off \in [0..0 -> Int] : off[0] = 0
  <2>1. [i \in 0..0 |-> 0] \in [0..0 -> Int] /\ [i \in 0..0 |-> 0][0] = 0
    OBVIOUS
  <2> QED BY <2>1, Zenon
<1>4. Framing(off)'
  <2>1. \A i \in (0 + 1)..0 : FALSE
    OBVIOUS
  <2>2. 0 + 0 = 0
    OBVIOUS
  <2> QED BY <1>1, <1>3, <2>1, <2>2, Zenon DEF Framing
<1> QED BY <1>1, <1>2, <1>4 DEF StreamInv, Framed

\* A frame is written behind the others.
LEMMA SendStream ==
  ASSUME IInv, StreamInv, NEW f \in Frames, k230_send_frame(f)
  PROVE  StreamInv'
<1>1. /\ line' = line \o Encode(f) /\ sent' = Append(sent, f)
      /\ UNCHANGED <<state, buf, silent, received, noise>> /\ Held' = Held
  BY DEF k230_send_frame, parser, Held
<1>2. noise' \in Nat /\ sent' \in Seq(Frames)
  BY <1>1 DEF StreamInv
<1> SUFFICES ASSUME noise = 0 PROVE Delivered' /\ Current' /\ Framed'
  BY <1>1, <1>2 DEF StreamInv
<1> DEFINE r == Len(received)
           n == Len(sent)
<1>3. /\ received \in Seq(Frames) /\ r \in Nat /\ n \in Nat /\ r <= n
      /\ \A i \in 1..r : received[i] = sent[i]
      /\ sent \in Seq(Frames)
  BY DEF StreamInv, Delivered
<1>4. /\ Len(sent') = n + 1 /\ sent'[n + 1] = f
      /\ \A i \in 1..n : sent'[i] = sent[i]
  BY <1>1, <1>3
<1>5. Delivered'
  BY <1>1, <1>3, <1>4 DEF Delivered
<1>6. /\ Held \in Nat /\ Len(line) \in Nat
      /\ Encode(f) \in Seq(Byte) /\ Len(Encode(f)) \in Nat \ {0}
  BY HeldBytes, FrameLength
<1>7. /\ Len(line') = Len(line) + Len(Encode(f))
      /\ \A j \in 1..Len(line) : line'[j] = line[j]
      /\ \A k \in 1..Len(Encode(f)) : line'[Len(line) + k] = Encode(f)[k]
  BY <1>1, <1>6, ConcatBytes, Zenon DEF IInv, TypeOK
<1>8. PICK off \in [r..n -> Int] : Framing(off)
  BY DEF StreamInv, Framed
<1>9. /\ off[r] + Held = 0 /\ off[n] = Len(line)
      /\ \A i \in (r + 1)..n :
           /\ off[i] = off[i - 1] + Len(Encode(sent[i])) /\ off[i] <= Len(line)
           /\ \A k \in 1..Len(Encode(sent[i])) :
                off[i - 1] + k >= 1 => line[off[i - 1] + k] = Encode(sent[i])[k]
  BY <1>8 DEF Framing
<1>10. Current'
  <2>1. CASE r < n
    <3>1. r + 1 \in 1..n
      BY <1>3, <2>1
    <3>2. sent'[r + 1] = sent[r + 1]
      BY <1>4, <3>1
    <3> QED BY <1>1, <2>1, <3>2 DEF StreamInv, Current
  <2>2. CASE r = n
    <3>1. Held = 0
      BY <1>6, <1>9, <2>2
    <3>2. sent'[r + 1] = f
      BY <1>4, <2>2
    <3> QED BY <1>1, <1>6, <3>1, <3>2 DEF Current
  <2> QED BY <1>3, <2>1, <2>2
<1>11. Framed'
  <2> DEFINE new == [i \in r..(n + 1) |-> IF i <= n THEN off[i] ELSE Len(line) + Len(Encode(f))]
  <2>0. /\ new \in [r..(n + 1) -> Int]
        /\ \A i \in r..n : new[i] = off[i]
        /\ new[n + 1] = Len(line) + Len(Encode(f))
    BY <1>3, <1>6, <1>8
  <2> HIDE DEF new
  <2>1. PICK to \in [r..(n + 1) -> Int] :
          /\ \A i \in r..n : to[i] = off[i]
          /\ to[n + 1] = Len(line) + Len(Encode(f))
    BY <2>0
  <2>2. to[r] + Held = 0 /\ to[n + 1] = Len(line')
    BY <1>3, <1>7, <1>9, <2>1
  <2>3. ASSUME NEW i \in (r + 1)..(n + 1)
        PROVE  /\ to[i] = to[i - 1] + Len(Encode(sent'[i])) /\ to[i] <= Len(line')
               /\ \A k \in 1..Len(Encode(sent'[i])) :
                    to[i - 1] + k >= 1 => line'[to[i - 1] + k] = Encode(sent'[i])[k]
    <3>1. CASE i = n + 1
      <4>1. to[i - 1] = Len(line) /\ sent'[i] = f
        BY <1>3, <1>4, <1>9, <2>1, <3>1
      <4> QED BY <1>6, <1>7, <2>1, <3>1, <4>1
    <3>2. CASE i # n + 1
      <4>1. i \in (r + 1)..n /\ i \in 1..n /\ i \in r..n /\ i - 1 \in r..n
        BY <1>3, <3>2
      <4>2. to[i] = off[i] /\ to[i - 1] = off[i - 1] /\ sent'[i] = sent[i]
        BY <1>4, <2>1, <4>1
      <4>3. off[i] \in Int /\ off[i - 1] \in Int /\ off[i] <= Len(line)
            /\ off[i] = off[i - 1] + Len(Encode(sent[i])) /\ Len(Encode(sent[i])) \in Nat
        <5>1. sent[i] \in Frames
          BY <1>3, <4>1
        <5>2. Len(Encode(sent[i])) \in Nat
          BY <5>1, FrameLength
        <5> QED BY <1>8, <1>9, <4>1, <5>2
      <4>4. ASSUME NEW k \in 1..Len(Encode(sent[i])), off[i - 1] + k >= 1
            PROVE  line'[off[i - 1] + k] = Encode(sent[i])[k]
        <5>1. off[i - 1] + k \in 1..Len(line)
          BY <1>6, <4>3, <4>4
        <5> QED BY <1>7, <1>9, <4>1, <4>4, <5>1
      <4>5. off[i] <= Len(line')
        BY <1>6, <1>7, <4>3
      <4> QED BY <4>2, <4>3, <4>4, <4>5
    <3> QED BY <3>1, <3>2
  <2>4. Len(received') = r /\ Held' = Held
    BY <1>1
  <2>5. Framing(to)'
    BY <1>4, <2>2, <2>3, <2>4 DEF Framing
  <2> QED BY <1>4, <2>1, <2>4, <2>5 DEF Framed
<1> QED BY <1>5, <1>10, <1>11

\* A frame of m bytes that ends at y within the first l, seen one byte later.
LEMMA Nearer ==
  ASSUME NEW x \in Int, NEW y \in Int, NEW m \in Nat, NEW l \in Nat,
         y = x + m, y <= l
  PROVE  /\ y - 1 = (x - 1) + m /\ y - 1 <= l - 1
         /\ \A k \in 1..m : (x - 1) + k >= 1 =>
              /\ (x - 1) + k \in 1..(l - 1)
              /\ ((x - 1) + k) + 1 = x + k /\ x + k >= 1
  OBVIOUS

\* One byte is read: every frame on the line comes one place nearer.
LEMMA FeedStream ==
  ASSUME IInv, StreamInv, k230_parser_feed
  PROVE  StreamInv'
<1>1. /\ line # <<>> /\ line' = Tail(line) /\ UNCHANGED <<sent, noise>>
  BY DEF k230_parser_feed, Feed
<1> SUFFICES ASSUME noise = 0 PROVE Delivered' /\ Current' /\ Framed'
  BY <1>1 DEF StreamInv
<1> DEFINE r == Len(received)
           n == Len(sent)
<1>2. /\ received \in Seq(Frames) /\ r \in Nat /\ n \in Nat /\ r <= n
      /\ \A i \in 1..r : received[i] = sent[i]
      /\ sent \in Seq(Frames)
  BY DEF StreamInv, Delivered
<1>3. /\ Held \in Nat /\ Len(line) \in Nat \ {0}
      /\ Head(line) = line[1] /\ Len(line') = Len(line) - 1
      /\ \A j \in 1..(Len(line) - 1) : line'[j] = line[j + 1]
  BY <1>1, HeldBytes DEF IInv, TypeOK
<1>4. PICK off \in [r..n -> Int] : Framing(off)
  BY DEF StreamInv, Framed
<1>5. /\ off[r] + Held = 0 /\ off[n] = Len(line)
      /\ \A i \in (r + 1)..n :
           /\ off[i] = off[i - 1] + Len(Encode(sent[i])) /\ off[i] <= Len(line)
           /\ \A k \in 1..Len(Encode(sent[i])) :
                off[i - 1] + k >= 1 => line[off[i - 1] + k] = Encode(sent[i])[k]
  BY <1>4 DEF Framing
<1>6. r < n
  BY <1>2, <1>3, <1>5
<1> DEFINE g == sent[r + 1]
           e == Encode(g)
<1>7. g \in Frames /\ Len(e) \in Nat \ {0}
  <2>1. r + 1 \in 1..n
    BY <1>2, <1>6
  <2>2. g \in Frames
    BY <1>2, <2>1
  <2> QED BY <2>2, FrameLength
<1>8. Held < Len(e) /\ \A k \in 1..Held : buf[k] = e[k]
  BY <1>6 DEF StreamInv, Current
<1>9. Head(line) = e[Held + 1]
  <2>1. r + 1 \in (r + 1)..n /\ (r + 1) - 1 = r /\ off[r] \in Int
    BY <1>2, <1>4, <1>6
  <2>2. Held + 1 \in 1..Len(e) /\ off[r] + (Held + 1) = 1
    BY <1>3, <1>5, <1>7, <1>8, <2>1
  <2>3. off[(r + 1) - 1] + (Held + 1) = 1 /\ 1 >= 1
    BY <2>1, <2>2
  <2>4. line[off[(r + 1) - 1] + (Held + 1)] = e[Held + 1]
    BY <1>5, <2>1, <2>2, <2>3, Zenon
  <2> QED BY <1>3, <2>3, <2>4
<1>10. \/ /\ Held + 1 < Len(e) /\ Held' = Held + 1
          /\ \A k \in 1..Held' : buf'[k] = e[k]
          /\ received' = received
       \/ /\ Held + 1 = Len(e) /\ Held' = 0
          /\ received' = Append(received, g)
  BY <1>7, <1>8, <1>9, ParserStep
<1> DEFINE q == Len(received')
<1>11. \/ q = r \/ q = r + 1
  BY <1>2, <1>7, <1>10
<1>12. Delivered'
  <2>1. CASE received' = received
    BY <1>1, <1>2, <2>1 DEF Delivered
  <2>2. CASE received' = Append(received, g)
    <3>1. /\ received' \in Seq(Frames) /\ Len(received') = r + 1
          /\ received'[r + 1] = g /\ \A i \in 1..r : received'[i] = received[i]
      BY <1>2, <1>7, <2>2, AppendProperties
    <3>2. \A i \in 1..(r + 1) : i \in 1..r \/ i = r + 1
      BY <1>2
    <3>3. \A i \in 1..(r + 1) : received'[i] = sent[i]
      BY <1>2, <3>1, <3>2
    <3> QED BY <1>1, <1>2, <1>6, <3>1, <3>3 DEF Delivered
  <2> QED BY <1>10, <2>1, <2>2
<1>13. Current'
  <2>1. CASE /\ Held + 1 < Len(e) /\ Held' = Held + 1
             /\ \A k \in 1..Held' : buf'[k] = e[k]
             /\ received' = received
    BY <1>1, <2>1 DEF Current
  <2>2. CASE Held + 1 = Len(e) /\ Held' = 0 /\ received' = Append(received, g)
    <3>1. q = r + 1 /\ sent' = sent
      BY <1>1, <1>2, <1>7, <2>2
    <3>2. ASSUME q < n PROVE 0 < Len(Encode(sent[q + 1]))
      <4>1. q + 1 \in 1..n
        BY <1>2, <3>1, <3>2
      <4>2. sent[q + 1] \in Frames
        BY <1>2, <4>1
      <4> QED BY <4>2, FrameLength
    <3> QED BY <2>2, <3>1, <3>2 DEF Current
  <2> QED BY <1>10, <2>1, <2>2
<1>14. Framed'
  <2>1. q \in Nat /\ q >= r /\ q <= n
    BY <1>2, <1>6, <1>11
  <2>2. PICK to \in [q..n -> Int] : \A i \in q..n : to[i] = off[i] - 1
    <3> DEFINE near == [i \in q..n |-> off[i] - 1]
    <3>1. \A i \in q..n : off[i] \in Int
      BY <1>2, <1>4, <2>1
    <3>2. near \in [q..n -> Int] /\ \A i \in q..n : near[i] = off[i] - 1
      BY <3>1
    <3> HIDE DEF near
    <3> QED BY <3>2
  <2>3. to[n] = Len(line')
    BY <1>3, <1>5, <2>1, <2>2
  <2>4. to[q] + Held' = 0
    <3>1. q \in q..n /\ off[r] \in Int
      BY <1>2, <1>4, <1>6, <2>1
    <3>2. to[q] = off[q] - 1
      BY <2>2, <3>1, Zenon
    <3>3. off[r] + Held = 0
      BY <1>5, Zenon
    <3>4. CASE Held' = Held + 1 /\ received' = received
      <4>1. q = r
        BY <3>4
      <4>2. PICK x \in Int, h \in Nat : x = off[r] /\ h = Held
        BY <1>3, <3>1
      <4>3. x + h = 0
        BY <3>3, <4>2, Zenon
      <4>4. (x - 1) + (h + 1) = 0
        BY <4>3
      <4>5. to[q] = x - 1 /\ Held' = h + 1
        BY <3>2, <3>4, <4>1, <4>2, Zenon
      <4> QED BY <4>4, <4>5, Zenon
    <3>5. CASE Held + 1 = Len(e) /\ Held' = 0 /\ received' = Append(received, g)
      <4>1. q = r + 1
        BY <1>2, <1>7, <3>5
      <4>2. r + 1 \in (r + 1)..n /\ (r + 1) - 1 = r
        BY <1>2, <1>6
      <4>3. off[r + 1] = off[(r + 1) - 1] + Len(e)
        BY <1>5, <4>2, Zenon
      <4>4. PICK x \in Int, h \in Nat : x = off[r] /\ h = Held
        BY <1>3, <3>1
      <4>5. x + h = 0 /\ off[q] = x + (h + 1)
        BY <3>3, <3>5, <4>1, <4>2, <4>3, <4>4, Zenon
      <4>6. (x + (h + 1)) - 1 + 0 = 0
        BY <4>5
      <4>7. to[q] + Held' = (x + (h + 1)) - 1 + 0
        BY <3>2, <3>5, <4>5, Zenon
      <4> QED BY <4>6, <4>7, Zenon
    <3> QED BY <1>10, <3>4, <3>5, Zenon
  <2>5. ASSUME NEW i \in (q + 1)..n
        PROVE  /\ to[i] = to[i - 1] + Len(Encode(sent[i])) /\ to[i] <= Len(line')
               /\ \A k \in 1..Len(Encode(sent[i])) :
                    to[i - 1] + k >= 1 => line'[to[i - 1] + k] = Encode(sent[i])[k]
    <3>1. i \in (r + 1)..n /\ i \in 1..n /\ i \in q..n /\ i - 1 \in q..n
      BY <1>2, <2>1
    <3>2. Len(Encode(sent[i])) \in Nat
      <4>1. sent[i] \in Frames
        BY <1>2, <3>1
      <4> QED BY <4>1, FrameLength
    <3>3. /\ to[i] = off[i] - 1 /\ to[i - 1] = off[i - 1] - 1
          /\ off[i] \in Int /\ off[i - 1] \in Int
      <4>1. i \in r..n /\ i - 1 \in r..n
        BY <1>2, <2>1, <3>1
      <4> QED BY <1>4, <2>2, <3>1, <4>1
    <3>4. off[i] = off[i - 1] + Len(Encode(sent[i])) /\ off[i] <= Len(line)
      BY <1>5, <3>1
    <3>5. Len(line) \in Nat /\ Len(line') = Len(line) - 1
      BY <1>3
    <3>6. /\ off[i] - 1 = (off[i - 1] - 1) + Len(Encode(sent[i]))
          /\ off[i] - 1 <= Len(line) - 1
          /\ \A k \in 1..Len(Encode(sent[i])) : (off[i - 1] - 1) + k >= 1 =>
               /\ (off[i - 1] - 1) + k \in 1..(Len(line) - 1)
               /\ ((off[i - 1] - 1) + k) + 1 = off[i - 1] + k
               /\ off[i - 1] + k >= 1
      <4>1. PICK x \in Int, y \in Int : x = off[i - 1] /\ y = off[i]
        BY <3>3
      <4>2. PICK m \in Nat, l \in Nat : m = Len(Encode(sent[i])) /\ l = Len(line)
        BY <3>2, <3>5
      <4>3. y = x + m /\ y <= l
        BY <3>4, <4>1, <4>2, Zenon
      <4>4. /\ y - 1 = (x - 1) + m /\ y - 1 <= l - 1
            /\ \A k \in 1..m : (x - 1) + k >= 1 =>
                 /\ (x - 1) + k \in 1..(l - 1)
                 /\ ((x - 1) + k) + 1 = x + k /\ x + k >= 1
        BY <4>3, Nearer
      <4> QED BY <4>1, <4>2, <4>4, Zenon
    <3>7. ASSUME NEW k \in 1..Len(Encode(sent[i])), (off[i - 1] - 1) + k >= 1
          PROVE  line'[(off[i - 1] - 1) + k] = Encode(sent[i])[k]
      <4>1. line'[(off[i - 1] - 1) + k] = line[off[i - 1] + k]
        BY <1>3, <3>6, <3>7, Zenon
      <4> QED BY <1>5, <3>1, <3>6, <3>7, <4>1, Zenon
    <3> QED BY <3>3, <3>5, <3>6, <3>7, Zenon
  <2>6. Framing(to)'
    BY <1>1, <2>3, <2>4, <2>5 DEF Framing
  <2> QED BY <1>1, <2>2, <2>6 DEF Framed
<1> QED BY <1>12, <1>13, <1>14

\* The two invariants hold in every reachable state.
THEOREM StreamInvariance == Spec => [](IInv /\ StreamInv)
<1>1. Init => IInv /\ StreamInv
  BY InitIInv, InitStream
<1>2. (IInv /\ StreamInv) /\ [Next]_vars => (IInv /\ StreamInv)'
  <2> SUFFICES ASSUME IInv, StreamInv, [Next]_vars PROVE IInv' /\ StreamInv'
    OBVIOUS
  <2>1. CASE UNCHANGED vars
    <3>1. UNCHANGED <<line, state, buf, expected, silent, sent, received, noise>>
      BY <2>1 DEF vars, parser
    <3>2. IInv'
      BY <3>1 DEF IInv, TypeOK, ShapeInv
    <3>3. StreamInv'
      BY <3>1 DEF StreamInv, Delivered, Current, Framed, Framing, Held
    <3> QED BY <3>2, <3>3
  <2>2. CASE Fault
    <3>1. noise' = noise + 1 /\ sent' = sent
      BY <2>2 DEF Fault
    <3>2. noise' \in Nat /\ noise' # 0 /\ sent' \in Seq(Frames)
      BY <3>1 DEF StreamInv
    <3> QED BY <2>2, <3>2, LineStep DEF StreamInv
  <2>3. CASE Silence
    BY <2>3, LineStep, SilenceStream
  <2>4. ASSUME NEW f \in Frames, k230_send_frame(f) PROVE IInv' /\ StreamInv'
    BY <2>4, LineStep, SendStream
  <2>5. CASE k230_parser_feed
    BY <2>5, FeedStep, FeedStream
  <2> QED BY <2>1, <2>2, <2>3, <2>4, <2>5 DEF Next
<1> QED BY <1>1, <1>2, PTL DEF Spec

\* On a line that has not been disturbed since the last silence the frames sent
\* are received once each, in order and unchanged, for every set of frames,
\* every payload limit and every checksum, whatever came before that silence.
THEOREM Delivery == Spec => []CleanLineDelivers
<1>1. IInv /\ StreamInv => CleanLineDelivers
  <2> SUFFICES ASSUME IInv, StreamInv, noise = 0
               PROVE  /\ received = SubSeq(sent, 1, Len(received))
                      /\ line = <<>> => received = sent
    BY DEF CleanLineDelivers
  <2> DEFINE r == Len(received)
             n == Len(sent)
  <2>1. /\ received \in Seq(Frames) /\ r \in Nat /\ n \in Nat /\ r <= n
        /\ \A i \in 1..r : received[i] = sent[i]
        /\ sent \in Seq(Frames)
    BY DEF StreamInv, Delivered
  <2>2. received = SubSeq(sent, 1, r)
    <3>1. /\ SubSeq(sent, 1, r) \in Seq(Frames) /\ Len(SubSeq(sent, 1, r)) = r
          /\ \A i \in 1..r : SubSeq(sent, 1, r)[i] = sent[i]
      BY <2>1
    <3> QED BY <2>1, <3>1, SeqEqual
  <2>3. ASSUME line = <<>> PROVE received = sent
    <3>1. PICK off \in [r..n -> Int] : Framing(off)
      BY DEF StreamInv, Framed
    <3>2. Held \in Nat /\ Len(line) = 0
      BY <2>3, HeldBytes
    <3>3. ASSUME r < n PROVE FALSE
      <4>1. r + 1 \in (r + 1)..n /\ (r + 1) - 1 = r /\ r + 1 \in 1..n /\ off[r] \in Int
        BY <2>1, <3>1, <3>3
      <4>2. sent[r + 1] \in Frames
        BY <2>1, <4>1
      <4>3. Len(Encode(sent[r + 1])) \in Nat
        BY <4>2, FrameLength
      <4>4. Held < Len(Encode(sent[r + 1]))
        BY <3>3 DEF StreamInv, Current
      <4>5. /\ off[r] + Held = 0 /\ off[r + 1] <= Len(line)
            /\ off[r + 1] = off[r] + Len(Encode(sent[r + 1]))
        BY <3>1, <4>1 DEF Framing
      <4> QED BY <3>2, <4>1, <4>3, <4>4, <4>5
    <3>4. r = n
      BY <2>1, <3>3
    <3> QED BY <2>1, <3>4, SeqEqual
  <2> QED BY <2>2, <2>3
<1> QED BY <1>1, StreamInvariance, PTL

-----------------------------------------------------------------------------
(* Sender, line and parser implement FrameLine.                            *)

\* A byte on an undisturbed line completes the next frame or none: the frame it
\* completes is the one that keeps what was received a beginning of what was sent.
LEMMA FeedDelivers ==
  ASSUME StreamInv, StreamInv', k230_parser_feed
  PROVE  Carrier!Next \/ UNCHANGED Carrier!lineVars
<1>1. UNCHANGED <<sent, noise>>
  BY DEF k230_parser_feed, Feed
<1>2. CASE noise > 0
  BY <1>1, <1>2 DEF Carrier!Garble, Carrier!Next
<1>3. CASE received' = received
  BY <1>1, <1>3 DEF Carrier!lineVars
<1>4. CASE ~(noise > 0) /\ received' = Append(received, Frame)
  <2> DEFINE r == Len(received)
  <2>1. noise = 0 /\ noise' = 0
    BY <1>1, <1>4 DEF StreamInv
  <2>2. Delivered /\ Delivered'
    BY <2>1 DEF StreamInv
  <2>3. /\ received \in Seq(Frames) /\ received' \in Seq(Frames)
        /\ r \in Nat /\ Len(received') <= Len(sent)
        /\ \A i \in 1..Len(received') : received'[i] = sent[i]
    BY <1>1, <2>2 DEF Delivered
  <2>4. Len(received') = r + 1 /\ received'[r + 1] = Frame
    <3>1. received \in Seq(Frames \cup {Frame}) /\ Frame \in Frames \cup {Frame}
      BY <2>3
    <3> QED BY <1>4, <3>1, AppendProperties
  <2>5. r + 1 \in 1..Len(received')
    BY <2>3, <2>4
  <2>6. Frame = sent[r + 1] /\ r < Len(sent)
    <3>1. Frame = sent[r + 1]
      BY <2>3, <2>4, <2>5, Zenon
    <3>2. Len(sent) \in Nat
      BY <2>1 DEF StreamInv
    <3> QED BY <2>3, <2>4, <3>1, <3>2
  <2>7. Carrier!Deliver
    BY <1>1, <1>4, <2>6, Zenon DEF Carrier!Deliver
  <2> QED BY <2>7 DEF Carrier!Next
<1> QED BY <1>2, <1>3, <1>4 DEF k230_parser_feed, Feed

LEMMA CarrierStep ==
  /\ IInv /\ StreamInv /\ CleanLineDelivers
  /\ StreamInv' /\ [Next]_vars
  => [Carrier!Next]_(Carrier!lineVars)
<1> SUFFICES ASSUME IInv, StreamInv, CleanLineDelivers, StreamInv', [Next]_vars
             PROVE  Carrier!Next \/ UNCHANGED Carrier!lineVars
  OBVIOUS
<1>1. ASSUME NEW f \in Frames, k230_send_frame(f)
      PROVE  Carrier!Next
  BY <1>1 DEF k230_send_frame, Carrier!Send, Carrier!Next
<1>2. CASE Fault
  <2>1. noise' > 0
    BY <1>2 DEF Fault, StreamInv
  <2> QED BY <1>2, <2>1 DEF Fault, Carrier!Disturb, Carrier!Next
<1>3. CASE Silence
  <2>1. noise > 0 \/ received = sent
    BY <1>3 DEF Silence, CleanLineDelivers, StreamInv
  <2> QED BY <1>3, <2>1 DEF Silence, Carrier!Silence, Carrier!Next
<1>4. CASE k230_parser_feed
  BY <1>4, FeedDelivers
<1>5. CASE UNCHANGED vars
  BY <1>5 DEF vars, Carrier!lineVars
<1> QED BY <1>1, <1>2, <1>3, <1>4, <1>5 DEF Next

\* Every step of the protocol is a step of FrameLine or leaves its variables
\* alone: for every alphabet, set of frames and checksum, whoever uses the line
\* may reason about frames.
THEOREM ProtocolCarriesFrames == Spec => CarriesFrames
<1>1. Init => Carrier!Init
  BY DEF Init, Carrier!Init
<1> QED BY <1>1, StreamInvariance, Delivery, CarrierStep, PTL
        DEF Spec, CarriesFrames, Carrier!Spec
=============================================================================
