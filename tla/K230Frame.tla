----------------------------- MODULE K230Frame ------------------------------
(***************************************************************************)
(* The serial protocol between the face unit and the lock: a frame         *)
(*   STX LEN CMD SEQ PAYLOAD(LEN) CRC_LO CRC_HI ETX                        *)
(* is written in one piece (send_frame of both sides) and read byte by     *)
(* byte by the parser of STM32/applications/k230_uart.c.  Bytes on the     *)
(* line may be lost, changed or made up.                                   *)
(*                                                                         *)
(* Time.  A frame lasts less than K230_FRAME_TIMEOUT, so a silence that    *)
(* long is one with nothing on the line.  The checksum is a parameter.     *)
(***************************************************************************)
EXTENDS Integers, Sequences

CONSTANTS
  Byte,         \* the values of a byte
  STX, ETX,     \* K230_STX, K230_ETX
  MaxPayload,   \* K230_MAX_PAYLOAD
  Frames,       \* the frames that are sent: records of cmd, seq and payload
  Crc(_),       \* the checksum of a sequence of bytes: <<lo, hi>>
  MaxSent,      \* bound: frames written between two silences
  MaxNoise      \* bound: faults of the line between two silences

ASSUME ByteAssumption ==
  Byte \subseteq Nat /\ {STX, ETX} \subseteq Byte /\ MaxPayload \in Nat

MaxFrame == 7 + MaxPayload

VARIABLES
  line,       \* the bytes under way
  state,      \* the parser's state
  buf,        \* the bytes it holds; pos is the length
  expected,   \* how many it waits for after LEN
  silent,     \* nothing has arrived for longer than the frame timeout
  sent,       \* history: the frames written since the last silence
  received,   \* history: the frames parsed since the last silence
  noise       \* history: the faults since the last silence

parser == <<state, buf, expected>>
vars == <<line, parser, silent, sent, received, noise>>

TypeOK ==
  /\ line \in Seq(Byte)
  /\ state \in {"WAIT_STX", "WAIT_LEN", "WAIT_DATA", "WAIT_ETX"}
  /\ buf \in Seq(Byte)
  /\ expected \in Nat
  /\ silent \in BOOLEAN

Init ==
  /\ line = <<>>
  /\ state = "WAIT_STX" /\ buf = <<>> /\ expected = 0
  /\ silent = FALSE
  /\ sent = <<>> /\ received = <<>> /\ noise = 0

-----------------------------------------------------------------------------
Encode(f) ==
  LET body == <<f.cmd, f.seq>> \o f.payload
  IN  <<STX, Len(f.payload)>> \o body \o Crc(body) \o <<ETX>>

\* Neither sender writes a longer payload; the checksum has two bytes.
ASSUME FramesAssumption ==
  /\ Frames \subseteq [cmd : Byte, seq : Byte, payload : Seq(Byte)]
  /\ \A f \in Frames :
       /\ Len(f.payload) <= MaxPayload /\ Len(f.payload) \in Byte
       /\ Crc(<<f.cmd, f.seq>> \o f.payload) \in Byte \X Byte

k230_send_frame(f) ==
  /\ Len(sent) < MaxSent
  /\ line' = line \o Encode(f)
  /\ sent' = Append(sent, f)
  /\ UNCHANGED <<parser, silent, received, noise>>

\* A byte is lost, changed or made up.
Fault ==
  /\ noise < MaxNoise
  /\ noise' = noise + 1
  /\ \/ line # <<>> /\ line' = Tail(line)
     \/ line # <<>> /\ \E b \in Byte : line' = <<b>> \o Tail(line)
     \/ \E b \in Byte : line' = <<b>> \o line
  /\ UNCHANGED <<parser, silent, sent, received>>

\* More than the frame timeout passes; what is checked starts afresh.
Silence ==
  /\ line = <<>> /\ ~silent
  /\ silent' = TRUE
  /\ sent' = <<>> /\ received' = <<>> /\ noise' = 0
  /\ UNCHANGED <<line, parser>>

-----------------------------------------------------------------------------
(***************************************************************************)
(* k230_parser_feed: the timeout test first, then the state's case.        *)
(***************************************************************************)
Reset == state' = "WAIT_STX" /\ buf' = <<>> /\ UNCHANGED expected

WaitStx(b) ==
  IF b = STX
    THEN state' = "WAIT_LEN" /\ buf' = <<b>> /\ UNCHANGED expected
    ELSE Reset

WaitLen(b) ==
  IF b > MaxPayload
    THEN Reset
    ELSE state' = "WAIT_DATA" /\ buf' = Append(buf, b) /\ expected' = b + 4

\* Mutant: the checksum's second byte is not waited for.
WaitDataShort(b) ==
  /\ buf' = Append(buf, b)
  /\ state' = IF Len(buf') >= 1 + expected THEN "WAIT_ETX" ELSE "WAIT_DATA"
  /\ UNCHANGED expected

WaitData(b) ==
  IF Len(buf) < MaxFrame
    THEN /\ buf' = Append(buf, b)
         /\ state' = IF Len(buf') >= 2 + expected THEN "WAIT_ETX" ELSE "WAIT_DATA"
         /\ UNCHANGED expected
    ELSE Reset

\* The frame in the buffer: LEN says where the payload ends.
Body == SubSeq(buf, 3, 4 + buf[2])

Frame == [cmd |-> buf[3], seq |-> buf[4], payload |-> SubSeq(buf, 5, 4 + buf[2])]

Complete(b) == b = ETX /\ <<buf[5 + buf[2]], buf[6 + buf[2]]>> = Crc(Body)

\* One byte is handed to the parser; a complete frame goes to the dispatcher.
\* The timeout makes the parser start over with this byte.
Feed(fresh) ==
  /\ line # <<>>
  /\ line' = Tail(line)
  /\ silent' = FALSE
  /\ LET b == Head(line)
     IN  \/ fresh /\ WaitStx(b) /\ UNCHANGED received
         \/ ~fresh /\ state = "WAIT_LEN" /\ WaitLen(b) /\ UNCHANGED received
         \/ ~fresh /\ state = "WAIT_DATA" /\ WaitData(b) /\ UNCHANGED received
         \/ /\ ~fresh /\ state = "WAIT_ETX" /\ Reset
            /\ received' = IF Complete(b) THEN Append(received, Frame) ELSE received
  /\ UNCHANGED <<sent, noise>>

\* Mutant: no timeout.
FeedWithoutTimeout == Feed(state = "WAIT_STX")

k230_parser_feed == Feed(state = "WAIT_STX" \/ silent)

Next ==
  \/ \E f \in Frames : k230_send_frame(f)
  \/ Fault \/ Silence \/ k230_parser_feed

Spec == Init /\ [][Next]_vars

-----------------------------------------------------------------------------
\* The parser never indexes beyond its buffer of MaxFrame bytes, never reads a
\* checksum byte that this frame has not delivered, and so never takes its own
\* overflow branch (k230_uart.c:113-120, 132-135).
BufferFits ==
  /\ Len(buf) < MaxFrame
  /\ state = "WAIT_ETX" => Len(buf) >= 6 + buf[2]

\* Frames written on an undisturbed line since the last silence are parsed once
\* each, in order and unchanged, whatever garbage came before that silence and
\* even when STX and ETX occur in them: a silence always puts the parser back
\* in step (k230_uart.c:78-84).
CleanLineDelivers ==
  /\ noise = 0 => received = SubSeq(sent, 1, Len(received))
  /\ noise = 0 /\ line = <<>> => received = sent

\* To those who send and receive frames the bytes, the parser and its timeout do
\* not show: sender, line and parser together implement FrameLine.
Carrier == INSTANCE FrameLine WITH disturbed <- (noise > 0)
CarriesFrames == Carrier!Spec
=============================================================================
