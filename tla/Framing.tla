------------------------------ MODULE Framing ------------------------------
(***************************************************************************)
(* The bytes of a frame's header: makeHeader, which writes them, and what  *)
(* Websocket::Header makes of them in its two reads.  A length is its      *)
(* eight bytes, the most significant first, so that all 64 bits count.     *)
(***************************************************************************)
EXTENDS Integers, Sequences

VARIABLES flags,        \* what the header is made for: [fin, opcode, masked]
          length,       \* the payload's length
          key,          \* what generateMask would write
          unread,       \* header bytes on the wire
          buffer,       \* Header::buffer_, of which position i is byte i - 1
          state,        \* Header::state_
          next          \* next_read_size_

framingVars == <<flags, length, key, unread, buffer, state, next>>

Zeros(n) == [i \in 1 .. n |-> 0]
Small(n)  == SubSeq(n, 1, 7) = Zeros(7) /\ n[8] <= 125
Medium(n) == SubSeq(n, 1, 6) = Zeros(6) /\ ~Small(n)

\* reserve: the test for the mask's four bytes looks at flags & 0x00ff shifted out of
\* existence, so they are not counted.
ReserveStrict(n) == 2 + (IF Small(n) THEN 0                               \* mutant
                         ELSE IF Medium(n) /\ SubSeq(n, 7, 8) # <<255, 255>> THEN 2 ELSE 8)
Reserve(n) == 2 + (IF Small(n) THEN 0 ELSE IF Medium(n) THEN 2 ELSE 8)

\* flags2header keeps the bits 0x0B of the opcode.
FirstByte(f) == (IF f.fin THEN 128 ELSE 0)
                + (IF (f.opcode \div 4) % 2 = 1 THEN f.opcode - 4 ELSE f.opcode)

\* length2header: the seven bits and the bytes that follow.
Length7(n) == IF Small(n) THEN n[8] ELSE IF Medium(n) THEN 126 ELSE 127

ExtendedLittle(n) == IF Small(n) THEN << >>                               \* mutant
                     ELSE IF Medium(n) THEN <<n[8], n[7]>> ELSE n
Extended(n) == IF Small(n) THEN << >> ELSE IF Medium(n) THEN SubSeq(n, 7, 8) ELSE n

MakeHeader(f, n, k) ==
  <<FirstByte(f), Length7(n) + (IF f.masked THEN 128 ELSE 0)>>
    \o Extended(n) \o (IF f.masked THEN k ELSE << >>)

\* What Header reads in the bytes it has: the lengths that take more bytes, and the mask,
\* which is at the end of the buffer, zeroed, when the frame has none.
Bits7(b)  == b[2] % 128
Masked(b) == b[2] >= 128
LengthBytes(b) == IF Bits7(b) = 126 THEN 2 ELSE IF Bits7(b) = 127 THEN 8 ELSE 0
MaskAt(b) == IF Masked(b) THEN 2 + LengthBytes(b) ELSE 10

PayloadSize(b) == IF Bits7(b) = 126 THEN Zeros(6) \o SubSeq(b, 3, 4)
                  ELSE IF Bits7(b) = 127 THEN SubSeq(b, 3, 10)
                  ELSE Zeros(7) \o <<Bits7(b)>>
MaskOf(b) == SubSeq(b, MaskAt(b) + 1, MaskAt(b) + 4)

\* A read of n bytes into the buffer from position p on.
ReadInto(p, n) == /\ Len(unread) >= n
                  /\ buffer' = [i \in 1 .. 14 |-> IF i \in p .. (p + n - 1)
                                                  THEN unread[i - p + 1] ELSE buffer[i]]
                  /\ unread' = SubSeq(unread, n + 1, Len(unread))
-----------------------------------------------------------------------------
\* read_header, and process_state_1 of its two bytes.  The buffer is new and zero.
ProcessFirst == /\ state = "FIRST"
                /\ ReadInto(1, 2)
                /\ next' = LengthBytes(buffer') + (IF Masked(buffer') THEN 4 ELSE 0)
                /\ state' = "SECOND"
                /\ UNCHANGED <<flags, length, key>>

\* The read of the rest, and process_state_2.
ProcessSecond == /\ state = "SECOND"
                 /\ ReadInto(3, next)
                 /\ state' = "DATA"
                 /\ UNCHANGED <<flags, length, key, next>>

FramingInit(fs, ns, ks) == /\ flags \in fs /\ length \in ns /\ key \in ks
                           /\ unread = MakeHeader(flags, length, key)
                           /\ buffer = Zeros(14)
                           /\ state = "FIRST" /\ next = 2

FramingNext == ProcessFirst \/ ProcessSecond
-----------------------------------------------------------------------------
\* What makeHeader writes for the opcodes there are, Header reads back, for every length
\* up to 2^64 - 1: type, length and mask, having taken all its bytes and no more
\* (websocket.cpp:29-101, ws_header.cpp:70-125).
HeaderReadsBack ==
  state = "DATA" =>
    /\ buffer[1] = flags.opcode + (IF flags.fin THEN 128 ELSE 0)
    /\ PayloadSize(buffer) = length
    /\ MaskOf(buffer) = IF flags.masked THEN key ELSE Zeros(4)
    /\ unread = << >>

\* Session::write allocates what reserve says and makeHeader fills exactly that; it never
\* asks for a mask, whose bytes reserve leaves out (websocket.cpp:14-27, ws_session.cpp:238).
FillsTheReserve ==
  state = "FIRST" /\ ~flags.masked => Len(unread) = Reserve(length)
=============================================================================
