------------------------------- MODULE Gather -------------------------------
(***************************************************************************)
(* The data path of a session: Websocket::Gather, the ChunkVector it fills *)
(* and the two handlers of Session that drive them, the DATA branch of     *)
(* handle_read_header (Frame) and read_chunk (ReadChunk).  One read of the *)
(* socket fills at most the rest of the last chunk, so a frame may take    *)
(* several reads and several frames may share a chunk.                     *)
(*                                                                         *)
(* Payload bytes are abstracted to what the code decides on: how many, and *)
(* the state of the UTF-8 decoder after them (module Utf8), which any text *)
(* byte may drive to any state.                                            *)
(***************************************************************************)
EXTENDS ChunkVector, Sequences

CONSTANTS Payloads,     \* payload sizes the peer announces
          Junk,         \* what a member nobody has set may hold
          U64,          \* uint64_t arithmetic is modulo U64
          Memory,       \* bound: bytes the chunks of a message may take
          MaxMessages   \* bound: messages completed in a behaviour

ASSUME GatherAssumption == /\ U64 \in Nat \ {0}
                           /\ Payloads \subseteq 0 .. (U64 - 1)
                           /\ Junk \subseteq 0 .. 255
                           /\ Memory \in Nat
                           /\ MaxMessages \in Nat

\* The chunks are in an address space of 64 bits.  What frames announce is not: nothing
\* limits it, and total_size_ wraps when the sum of a message reaches 2^64.
ASSUME MemoryAssumption == Memory < U64

VARIABLES phase,        \* what the read loop waits for, "header" or "payload"; "stopped";
                        \* or "undefined", after a read has written past its chunk
          newRequest,   \* new_request_: the next data frame starts a message
          header,       \* header_: the header of the data frame under way
          gather,       \* gather_
          buffer,       \* *buffer_
          whole,        \* history: bytes of the message under way in complete frames
          announced,    \* history: the same with the frame under way, and without a wrap
          posted        \* history: size and chunks of each buffer posted to io_strand_

gatherVars == <<phase, newRequest, header, gather, buffer, whole, announced, posted>>

TextStates == {"complete", "partial", "invalid"}   \* of Utf8::Byte: it_ = 0, > 0, < 0
Opcodes    == {0, 1, 2}                            \* continuation, text, binary

HeaderType == [fin : BOOLEAN, binary : BOOLEAN, unmasked : BOOLEAN]
GatherType == [text : TextStates, mask : 0 .. 255, size : Nat, consumed : Nat,
               next : Nat, pos : Nat]
-----------------------------------------------------------------------------
GatherReset == [text |-> "complete", mask |-> 0, size |-> 0, consumed |-> 0,
                next |-> 0, pos |-> 0]

GatherMoreKeepsMask(g, n) == [g EXCEPT !.size = (@ + n) % U64]                 \* mutant
GatherMore(g, n) == [g EXCEPT !.size = (@ + n) % U64, !.mask = 0]

\* applyMask over n bytes: whole groups of four leave mask_offset alone and each
\* of the last n % 4 bytes advances it, as an uint8_t; an all-zero mask returns early.
MaskAfter(h, mask, n) == IF h.unmasked THEN mask ELSE (mask + (n % 4)) % 256

\* Only the bytes of a frame that is not binary go through the decoder.
TextsAfter(h, g, n) == IF n = 0 \/ h.binary THEN {g.text} ELSE TextStates

\* The first part of Gather::read_chunk: n bytes arrived and left the decoder at t.
Consumed(h, g, n, t) ==
  IF n = 0 THEN g
  ELSE [g EXCEPT !.text = t, !.mask = MaskAfter(h, @, n), !.consumed = (@ + n) % U64]

\* close_last_chunk's argument: what is left for the last chunk.
LastChunkSizeWhole(size) == size                                               \* mutant
LastChunkSizeNoWrap(size) == size % ChunkSize                                  \* mutant
LastChunkSize(size) == ((ChunkSize + size - 1) % ChunkSize) + 1

\* The vector a read goes to: a new chunk when the ones it has are full.
Grown(b, consumed) == IF consumed = SizeOf(b) THEN WithNewChunk(b) ELSE b

\* How much the next read asks for, to fill buffer b.
NextConsumeFrame(g, b) == (g.size - g.consumed) % U64                          \* mutant
NextConsumeChunk(g, b) == SizeOf(b) - g.consumed                               \* mutant
NextConsumeShort(g, b) == IF g.size > SizeOf(b) THEN SizeOf(b) - g.consumed    \* mutant
                          ELSE IF g.size - g.consumed > 1 THEN g.size - g.consumed - 1
                          ELSE (g.size - g.consumed) % U64
NextConsume(g, b) == IF g.size > SizeOf(b) THEN SizeOf(b) - g.consumed
                                           ELSE (g.size - g.consumed) % U64

\* The outcomes of Session::read_chunk once n bytes are in, g being the Gather
\* after Consumed.  A nonzero code of Gather::read_chunk is 1007: cancel_socket.
Full(g) == g.consumed = g.size

Rejects(h, g, n) == \/ n > 0 /\ g.text = "invalid"
                    \/ Full(g) /\ h.fin /\ g.text # "complete"

Reject(g, b) == /\ phase' = "stopped"
                /\ gather' = g
                /\ buffer' = b
                /\ UNCHANGED <<whole, posted>>

EndFrame(g, b) == /\ phase' = "header"
                  /\ gather' = [g EXCEPT !.next = 0]
                  /\ buffer' = b
                  /\ whole' = g.consumed
                  /\ UNCHANGED posted

EndMessage(g, b) == /\ phase' = "header"
                    /\ gather' = [g EXCEPT !.next = 0]
                    /\ buffer' = WithLastClosed(b, LastChunkSize(g.size))
                    /\ whole' = 0
                    /\ posted' = Append(posted, [size |-> SizeOf(buffer'),
                                                 chunks |-> buffer'.count])

ReadOn(g, b) == /\ phase' = "payload"
                /\ buffer' = Grown(b, g.consumed)
                /\ SizeOf(buffer') <= Memory
                /\ gather' = [g EXCEPT !.pos = g.consumed, !.next = NextConsume(g, buffer')]
                /\ UNCHANGED <<whole, posted>>

\* Session::read_chunk after n bytes, with the header, Gather and buffer as they
\* stood before them.
ReadChunk(h, g, b, n) ==
  \E t \in TextsAfter(h, g, n) :
    LET c == Consumed(h, g, n, t)
    IN /\ header' = h
       /\ newRequest' = h.fin
       /\ \/ Rejects(h, c, n) /\ Reject(c, b)
          \/ ~Rejects(h, c, n) /\ Full(c) /\ ~h.fin /\ EndFrame(c, b)
          \/ ~Rejects(h, c, n) /\ Full(c) /\ h.fin /\ EndMessage(c, b)
          \/ ~Rejects(h, c, n) /\ ~Full(c) /\ ReadOn(c, b)

\* A message's first frame starts with a new vector and a reset Gather.
MessageGather == IF newRequest THEN GatherReset ELSE gather

MessageBufferKept == buffer                                                    \* mutant
MessageBuffer == IF newRequest THEN EmptyChunkVector ELSE buffer

\* handle_read_header, DATA: a data frame whose opcode fits new_request_.  Header's
\* is_binary_ is the opcode's bit 0x02: false for a continuation frame.  Nothing looks
\* at n before it is added to total_size_.
Frame(n, fin, opcode, unmasked) ==
  /\ phase = "header"
  /\ newRequest <=> opcode # 0
  /\ Len(posted) < MaxMessages
  /\ announced' = whole + n
  /\ ReadChunk([fin |-> fin, binary |-> opcode = 2, unmasked |-> unmasked],
               GatherMore(MessageGather, n), MessageBuffer, 0)

\* The read under way has room for all it asks for: next_consume_ bytes from
\* buffer_position_ on.
ReadFits == gather.pos + gather.next <= SizeOf(buffer)

\* read_chunk: the read that was asked for has completed.
ChunkRead == /\ phase = "payload" /\ ReadFits
             /\ ReadChunk(header, gather, buffer, gather.next)
             /\ UNCHANGED announced

\* The peer sends more of what was asked for than the chunk has room for, and the
\* kernel writes it past the chunk's end.  What follows is anything.
Overrun == /\ phase = "payload" /\ ~ReadFits
           /\ phase' = "undefined"
           /\ UNCHANGED <<newRequest, header, gather, buffer, whole, announced, posted>>

\* A read error, or an end of the session the data path does not decide.
Stop == /\ phase \in {"header", "payload"}
        /\ phase' = "stopped"
        /\ UNCHANGED <<newRequest, header, gather, buffer, whole, announced, posted>>

\* Session::start leaves one open chunk in buffer_, for the handshake; Gather and
\* Header have no constructor, so their members hold anything until the first frame.
GatherInit == /\ phase = "header"
              /\ newRequest = TRUE
              /\ header \in HeaderType
              /\ gather \in [text : {"complete"}, mask : Junk, size : Junk,
                             consumed : Junk, next : Junk, pos : Junk]
              /\ buffer = WithNewChunk(EmptyChunkVector)
              /\ whole = 0 /\ announced = 0
              /\ posted = << >>

GatherNext ==
  \/ \E n \in Payloads, fin, unmasked \in BOOLEAN, opcode \in Opcodes :
       Frame(n, fin, opcode, unmasked)
  \/ ChunkRead
  \/ Overrun
  \/ Stop

\* There is no fairness: a peer that falls silent leaves a frame unfinished for ever,
\* and nothing times it out (src/README.md, todo).
GatherSafety == GatherInit /\ [][GatherNext]_gatherVars
-----------------------------------------------------------------------------
\* Every variable has its type.
GatherTypeOK == /\ phase \in {"header", "payload", "stopped", "undefined"}
                /\ newRequest \in BOOLEAN
                /\ header \in HeaderType
                /\ gather \in GatherType
                /\ buffer \in ChunkVectorType
                /\ whole \in Nat /\ announced \in Nat
                /\ posted \in Seq([size : Nat, chunks : Nat])

\* A read that is under way (gather.cpp:40-50) asks for at least a byte and starts in
\* the last chunk, whatever share of it earlier frames took.  It also ends there exactly
\* while the frames of the message announce less than 2^64 bytes: what a peer announces
\* beyond that is the one thing that makes a read leave its chunk.
ReadsStayInLastChunk ==
  phase = "payload" =>
    /\ 0 < gather.next
    /\ (buffer.count - 1) * ChunkSize <= gather.pos
    /\ ReadFits <=> announced < U64

\* A read never asks for bytes past the frame it belongs to: they would be the next
\* frame's header (gather.cpp:45-49, ws_session.cpp:193-196).  The frame's end is what
\* was announced, not total_size_, which may have wrapped.
ReadsStayInFrame == phase = "payload" => gather.consumed + gather.next <= announced

\* A read that does not end its frame fills its chunk, so that a frame takes no more
\* reads than the chunks it touches (gather.cpp:45-49, ws_gather.hpp:22-26).
FrameAdvances ==
  [][phase = "payload" /\ phase' = "payload" =>
       /\ gather'.consumed > gather.consumed
       /\ gather'.consumed % ChunkSize = 0]_gatherVars

\* The chunks of one frame are unmasked by separate applyMask calls; the first byte
\* of each meets the mask byte of its offset in the frame (websocket.cpp:114-137).
MaskFollowsFrame ==
  phase = "payload" /\ ~header.unmasked =>
    gather.mask % 4 = (gather.consumed - whole) % 4

\* new_chunk is never asked of the vector that close_last_chunk has closed, which
\* would throw out of a handler (chunk_vector.cpp:20): a new message takes a new one.
NeverGrowsClosed == phase = "payload" => buffer.open

\* Frames, reads and chunk boundaries cannot be seen in what is handed over: each
\* message has the sum of its frames' payloads, packed into as few chunks as hold it
\* (the promise of the comment at ws_gather.hpp:16-28); and nothing is handed over any
\* more once a message has announced 2^64 bytes.
Promise == INSTANCE Reassembly WITH partial <- whole, out <- posted, Limit <- U64,
                                    broken <- announced >= U64
ImplementsReassembly == Promise!Spec
=============================================================================
