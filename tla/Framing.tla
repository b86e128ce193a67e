------------------------------ MODULE Framing -------------------------------
(***************************************************************************)
(* WriteFrame and ReadFrame over one direction of a TCP connection, byte   *)
(* by byte: the writer's two writes, a stream that hands out its bytes in  *)
(* pieces of any size, io.ReadFull putting them together again, and a      *)
(* connection that may end anywhere.  A byte is a digit of base Base and a *)
(* header is HeaderSize of them, so that lengths wrap around as a uint32   *)
(* does.                                                                   *)
(*                                                                         *)
(* LittleEndian, StopsShort, NoCap and EOFAnywhere are faulty forms of the *)
(* operator after each, and not part of the specification.                 *)
(***************************************************************************)
EXTENDS Naturals, Sequences

CONSTANTS Base,        \* values of a byte: 256
          HeaderSize,  \* frameHeaderSize: 4
          MaxFrameLen, \* the reader's limit; 0 is none
          MaxPayload,  \* bound: bytes of a payload
          MaxFrames    \* bound: frames written

\* Powers of Base, which are what the digits of a header stand for.
Power[i \in 0 .. HeaderSize] == IF i = 0 THEN 1 ELSE Base * Power[i - 1]

\* A payload's length fits in the header; see Length.
ASSUME FramingAssumption ==
    /\ Base \in Nat \ {0, 1}
    /\ HeaderSize \in Nat \ {0}
    /\ MaxFrameLen \in Nat
    /\ MaxPayload \in 0 .. Power[HeaderSize] - 1
    /\ MaxFrames \in Nat

Byte == 0 .. Base - 1
Payloads == UNION {[1 .. n -> Byte] : n \in 0 .. MaxPayload}

VARIABLES
    written,   \* history: the payloads given to WriteFrame
    todo,      \* the payload whose header has been written
    writer,
    wire,      \* the bytes under way
    open,      \* the connection
    buf,       \* what ReadFull has read so far
    need,      \* how many bytes it is to read
    reader,    \* what they are, or the error ReadFrame returned
    received,  \* the payloads ReadFrame returned
    consumed   \* history: how many bytes have been read

vars == <<written, todo, writer, wire, open, buf, need, reader, received, consumed>>
readerVars == <<buf, need, reader, received, consumed>>

Errors == {"EOF", "ErrUnexpectedEOF", "ErrFrameTooLarge"}

TypeOK ==
    /\ written \in Seq(Payloads) /\ Len(written) <= MaxFrames
    /\ todo \in Payloads
    /\ writer \in {"header", "payload"}
    /\ wire \in Seq(Byte)
    /\ open \in BOOLEAN
    /\ buf \in Seq(Byte) /\ Len(buf) <= need
    /\ need \in 0 .. Power[HeaderSize] - 1
    /\ reader = "payload" /\ MaxFrameLen # 0 => need <= MaxFrameLen
    /\ reader \in {"header", "payload"} \cup Errors
    /\ received \in Seq(Payloads)
    /\ consumed \in Nat

Init ==
    /\ written = <<>>
    /\ todo = <<>>
    /\ writer = "header"
    /\ wire = <<>>
    /\ open = TRUE
    /\ buf = <<>>
    /\ need = HeaderSize
    /\ reader = "header"
    /\ received = <<>>
    /\ consumed = 0

-----------------------------------------------------------------------------
(* WriteFrame *)

\* PutUint32(uint32(len)): big-endian, and the length modulo the range.
LittleEndian(n) == [i \in 1 .. HeaderSize |-> (n \div Power[i - 1]) % Base]
PutUint(n) == [i \in 1 .. HeaderSize |-> (n \div Power[HeaderSize - i]) % Base]

WriteHeader ==
    /\ open /\ writer = "header"
    /\ Len(written) < MaxFrames
    /\ \E p \in Payloads :
          /\ written' = Append(written, p)
          /\ wire' = wire \o PutUint(Len(p))
          /\ IF p = <<>> THEN UNCHANGED <<todo, writer>>
             ELSE todo' = p /\ writer' = "payload"
    /\ UNCHANGED <<open, readerVars>>

WritePayload ==
    /\ open /\ writer = "payload"
    /\ wire' = wire \o todo
    /\ todo' = <<>>
    /\ writer' = "header"
    /\ UNCHANGED <<written, open, readerVars>>

\* The connection ends, and what was under way arrives up to some byte.  The
\* writer's next write fails, and it gives up.
Close ==
    /\ open
    /\ open' = FALSE
    /\ \E n \in 0 .. Len(wire) : wire' = SubSeq(wire, 1, n)
    /\ UNCHANGED <<written, todo, writer, readerVars>>

-----------------------------------------------------------------------------
(* ReadFrame *)

\* Uint32 of the header.  Length[i] is the number its first i bytes make.
Uint(hdr) ==
    LET Length[i \in 0 .. HeaderSize] ==
            IF i = 0 THEN 0 ELSE Base * Length[i - 1] + hdr[i]
    IN Length[HeaderSize]

\* ReadFull ends when it has it all; Read would end with what there is.
StopsShort(b) == Len(b) = need \/ (reader = "payload" /\ b # <<>>)
Full(b) == Len(b) = need

NoCap(n) == FALSE
TooLarge(n) == MaxFrameLen # 0 /\ n > MaxFrameLen

\* The next frame's header, and with it the next ReadFrame.
NextFrame ==
    /\ reader' = "header"
    /\ buf' = <<>>
    /\ need' = HeaderSize

\* ReadFull gets more bytes b.
MoreHeader(b) ==
    /\ reader = "header"
    /\ IF ~Full(b) THEN buf' = b /\ UNCHANGED <<need, reader, received>>
       ELSE \/ /\ TooLarge(Uint(b))
               /\ reader' = "ErrFrameTooLarge"
               /\ UNCHANGED <<buf, need, received>>
            \/ /\ ~TooLarge(Uint(b)) /\ Uint(b) = 0
               /\ received' = Append(received, <<>>)
               /\ NextFrame
            \/ /\ ~TooLarge(Uint(b)) /\ Uint(b) # 0
               /\ reader' = "payload"
               /\ buf' = <<>>
               /\ need' = Uint(b)
               /\ UNCHANGED received

MorePayload(b) ==
    /\ reader = "payload"
    /\ IF ~Full(b) THEN buf' = b /\ UNCHANGED <<need, reader, received>>
       ELSE received' = Append(received, b) /\ NextFrame

Read ==
    /\ reader \in {"header", "payload"}
    /\ \E n \in 1 .. Len(wire) :
          /\ n <= need - Len(buf)
          /\ wire' = SubSeq(wire, n + 1, Len(wire))
          /\ consumed' = consumed + n
          /\ LET b == buf \o SubSeq(wire, 1, n) IN MoreHeader(b) \/ MorePayload(b)
    /\ UNCHANGED <<written, todo, writer, open>>

\* ReadFull at the end of the stream: io.EOF if it has read nothing.
EOFAnywhere == "EOF"
EndOfStream == IF buf = <<>> THEN "EOF" ELSE "ErrUnexpectedEOF"

ReadEnd ==
    /\ reader \in {"header", "payload"}
    /\ ~open /\ wire = <<>>
    /\ reader' = EndOfStream
    /\ UNCHANGED <<written, todo, writer, wire, open, buf, need, received, consumed>>

-----------------------------------------------------------------------------

Next == WriteHeader \/ WritePayload \/ Close \/ Read \/ ReadEnd

Spec == Init /\ [][Next]_vars
FairSpec == Spec /\ WF_vars(WritePayload) /\ WF_vars(Read) /\ WF_vars(ReadEnd)

-----------------------------------------------------------------------------
(* Properties *)

\* However the stream is cut into pieces and wherever it ends, ReadFrame
\* returns payloads exactly as they were given to WriteFrame, from the first
\* on: none altered, torn, invented or skipped.
ReceivedAsWritten ==
    /\ Len(received) <= Len(written)
    /\ \A i \in 1 .. Len(received) : received[i] = written[i]

\* Where the frame after the first k written ones starts in the stream.
Start(k) ==
    LET Offset[i \in 0 .. k] ==
            IF i = 0 THEN 0 ELSE Offset[i - 1] + HeaderSize + Len(written[i])
    IN Offset[k]

\* What ReadFrame reports is so.  No payload over the limit is returned, and
\* none is refused that keeps it: the frame that ends the connection is the
\* next one, it is too long, and none of its payload has been consumed.
\* A header that is cut short is no io.EOF, which callers take for a graceful
\* close, and io.ErrUnexpectedEOF is reported of a torn frame only.
ErrorsAreTrue ==
    /\ MaxFrameLen # 0 => \A i \in 1 .. Len(received) : Len(received[i]) <= MaxFrameLen
    /\ reader = "ErrFrameTooLarge" =>
          /\ Len(received) < Len(written)
          /\ Len(written[Len(received) + 1]) > MaxFrameLen
          /\ consumed = Start(Len(received)) + HeaderSize
    /\ reader = "EOF" => consumed - Start(Len(received)) \notin 1 .. HeaderSize - 1
    /\ reader = "ErrUnexpectedEOF" =>
          /\ Len(received) < Len(written)
          /\ Start(Len(received)) < consumed /\ consumed < Start(Len(received) + 1)

\* Every frame is read in the end, or an error ends the connection.
FramesArrive ==
    \A k \in 1 .. MaxFrames :
        Len(written) >= k ~> (Len(received) >= k \/ reader \in Errors)
=============================================================================
