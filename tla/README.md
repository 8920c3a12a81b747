# averyws in TLA+

averyws is a websocket server written with boost::asio: it reads frames from
browsers, reassembles them into messages, and hands each message to a *dealer*
(ZeroMQ), which may answer with messages for every connected session. This directory
models the path of a message from the socket to the dealer, the life of a session
around it, what a session writes, and the server with its registry and its
publisher; it checks them with TLC and proves what matters most of them with TLAPS.
Paths are relative to the repository, `src/`; line numbers are those of the commit it
holds.

## The system

| part | state | operations | used by |
|---|---|---|---|
| UTF-8 validator `lib/utilities_utf8` | `length_`, `it_`, `previous_byte_` | `validate`, `valid`, `complete` | applyMask, Gather, Control |
| Frame header `ws_header` | 14 bytes, `state_`, `payload_size_`, `mask_`, `is_binary_` | `new_buffer`, `process`, `transfer` | Session (`temp_header_`, `header_`) |
| Control frames `ws_control` | 129 bytes, `state_`, `size_` | `new_buffer`, `process` | Session |
| Chunk vector `lib/utilities_chunk_vector` | chunks of 1024 bytes, `open_` | `new_chunk`, `close_last_chunk`, `at`, `size` | Gather, Session, dealer |
| Gather `ws_gather` | decoder, `mask_offset_`, `total_size_`, `total_consumed_`, `next_consume_`, `buffer_position_` | `reset`, `more`, `read_chunk` | Session |
| Framing `lib/utilities_websocket` | none | `applyMask`, `reserve`, `makeHeader` | Gather, Control, Session |
| Session `ws_session` | the above, `buffer_`, `new_request_`, its socket | `start` and one handler per asynchronous operation | Server, SessionManager |
| Session manager | `unauthed_`, `authed_` and two maps of feeds | `add_*`, `move_to_authed`, `remove*` | Session, Server |
| Server `ws_server` | acceptor, `io_strand_`, threads | `start_accept`, `handle_accept`, `start` | `server_main` |
| Dealer `ws_dealer`, `zmq_dealer` | a publishing and a subscribing socket | `send_open/more/last/close`, `run` | Session, Server |
| `base64`, `utilities_random`, `ws_timeouts`, printing | none | | handshake; none; none; logs |

**How they interact.** `Server::start` runs one `io_service` in several threads and the
dealer's `run` in one more. A session's handlers are wrapped in its `strand_`, so that
they run one at a time; each starts the next asynchronous operation and returns.
A finished message is *posted* to the `io_service`, wrapped in `io_strand_`, which all
sessions share because the dealer's socket may be used by one thread at a time. The
dealer's thread posts `Session::write` to every session it finds in `unauthed_`.
Sessions are kept alive by the handlers that hold them and by the session manager; a
session that ends removes itself there.

**What is hard.** Frames, reads and chunks have three different sizes, so that every
read depends on the sum of what came before. Control frames come between the
fragments of a message. The request of a message runs on another strand than the
handlers of the session. Writes of pongs, broadcasts and close frames are under way
beside the read loop. The registry is shared without a lock. Nothing times out. The
hazards, each at its line, are in `PROJECT.json`.

**What makes each part correct.** Validator: it refuses a text at the first byte
that leaves no legal text, and is complete exactly after whole characters. Gather:
reads stay in their chunk and their frame, no frame takes more reads than the chunks it
touches, the mask stays aligned, and what comes out is the sum of what came in. Session:
one read loop at a time, no registered session without one, every message handed over
once, with its type, and never further ahead of its turn than there are threads. Writes:
the frames of the read loop reach the peer in their order, and a session that closes gets
out of the registry. Server: a message of the dealer reaches each registered session once,
as long as the registry is whole; the parts of two requests never share a message; a peer that connects is accepted. Codecs: what one side
writes the other reads back, at every length and for every cut of a frame.

## The modules

| module | models | builds on |
|---|---|---|
| `Reassembly` | what the data path promises | |
| `ChunkVector`, `Gather` | the data path as the code has it | implements `Reassembly` |
| `Utf8` | the validator | |
| `Header`, `Control` | the answers of the two `process` functions | |
| `Session` | the handlers of one session | extends `Gather`, `Header`, `Control`; implements `Lifecycle` |
| `Lifecycle` | what a session promises of its life | |
| `Outgoing` | the writes of one session on its socket | extends `Lifecycle` |
| `Publishing` | what the publishing side of the dealer promises | |
| `Publisher` | requests on `io_strand_` and the publishing socket | implements `Publishing` |
| `Server` | accepts, registry, the dealer's thread, requests of all sessions | extends `Publisher` |
| `Framing`, `Mask`, `Base64` | the units that work on bytes | composed for TLC by `MCCodec` |

### The data path

`Reassembly` is the abstract specification of the data path: payloads are added up, and
the final frame hands over the whole message in as few chunks as hold it. Frames announce
what they like: a message whose sum does not fit the counter is not handed over, and
nothing after it is (`broken`).

`ChunkVector` and `Gather` are the data path as the code has it. `Frame` is the DATA
branch of `handle_read_header` with the first `read_chunk(0, ...)` it calls, `ChunkRead`
is a later `read_chunk`, and both go through `ReadChunk`, which is `Session::read_chunk`
with `Gather::read_chunk` in it: `Consumed` (lines 13-25 of `ws_gather.cpp`), then one of
`Reject`, `EndFrame`, `EndMessage` and `ReadOn`. Bytes are abstracted to how many there
are and to the decoder's verdict after them, which any text may drive anywhere; the
position a read goes to is `pos`, an offset in the vector. `whole`, `announced` and
`posted` are history. Members that no constructor sets start with anything (`Junk`).

Nothing in the code looks at a length before it is added to `total_size_`, so that two
frames of a message may make it wrap. The model lets them: `announced` is the sum without
the wrap, and once it has reached `U64` the read that is asked for does not fit its chunk
(`ReadFits`). If the peer sends that much, the read writes past the chunk (`Overrun`,
phase `undefined`), where the model ends. `ReadsStayInLastChunk` says that this is the
one way to get there, and `ReadsStayInFrame` that even such a read is within the frame
its peer announced. What is *allocated* is in an address space of 64 bits:
`MemoryAssumption`, and the bound `Memory` in the one step that takes a new chunk.
`ImplementsReassembly` is the refinement, with `partial <- whole, out <- posted,
broken <- announced >= U64`.

`Utf8` is the validator, byte by byte, beside a reference that only knows the table
of UTF-8: how many bytes a first byte announces, the bits so far, and which code
points each length may encode. Its two invariants equate the code's counter with
questions about those.

### The session

`Header` and `Control` are the answers of `Header::process` and `Control::process`, as
operators on a record of what a frame's bytes say.

`Session` extends the three. Its variable `ops` counts outstanding asynchronous
operations by kind; an action is the completion of one:

| action | code (`ws_session.cpp`) |
|---|---|
| `HandleFirstRequest`, `Replied` | `read_first_header` 71-134 and the lambda in it |
| `HandleFirst`, `HandleSecond` | `handle_read_header` 144-181, after two bytes and after the rest; a header that has no rest is completed by a read of none |
| `HandlePayload`, `AfterChunk` | `read_chunk` 183-208 |
| `HandleControl` | `handle_control_read` 273-312 |
| `CancelSocket`, `CloseDone` | `cancel_socket` 314-331 and its lambda, that of the KILL branch too |
| `LoopFails`, `WriteDone` | the error branches |
| `Broadcast`, `Write` | the dealer's callback (`ws_server.cpp` 66-74), `write` 231-271 |
| `Request` | `request` 210-229 |

`temp` is `temp_header_`, of which the reply to a control frame is made; `header` (of
Gather) is `header_`. `queue` holds the requests posted and not run. With one io thread a
request runs before any read the session starts later can complete
(`ReadCompletes`, which is asio's doing and marked external); with more, up to `Threads`
requests may have been taken from the queue and enter `io_strand_` in either order
(`Request(i)`, `i <= Threads`). `closeFrame` is the close frame the session sends: its
code, the length its header announces and the bytes written behind the header. In
`cancel_socket` the two lines that decide these disagree (`Closing`: announced 0, written
2); the answer to a peer's close frame is as long as that was, one byte included
(`Answering`).
A request without a key ends the process (see below), and so may a read that leaves its
chunk (`HandleOverrun`); that is `crashed`.
The history variables `messages` and `delivered` are what the peer meant and what the
dealer was told.

`Lifecycle` is a session seen from outside: handshake, answer, open, closing, over, and
its entry in the registry, which it loses for good. The stage is nowhere in the code;
the refinement (`StageReached` in `Session`) reads it off the one operation of the
read loop that is outstanding.

### The writes

`Outgoing` takes the life of `Lifecycle` and adds what its steps write. Every
`async_write` of the code is a frame in `started`. boost carries a composed write out as
a chain of `async_write_some`, which the socket keeps in a queue (`sending`): `Transfer`
moves a part of the frame whose turn it is; if that is not all of it, `Resume` puts it at
the end of the queue again. That is boost's behaviour as the code relies on it, and is
marked external. The handlers, `ReplyWritten`, `FrameWritten` and `CloseWritten`, run
after their write has ended (`ended`), well or not. `broken` is a connection that takes no more.
The buffers of control frames are numbered: `NewBuffer` is memory that nothing holds.

| action | code (`ws_session.cpp`) |
|---|---|
| `HandleFirstRequest`, `ReplyWritten` | 71-134, the write of the 101 response |
| `ReadControl` | 157, `control_.new_buffer` and the read into it |
| `HandleControl`, `HandleKill` | `handle_control_read`: pong, and the close frame sent back |
| `CancelSocket`, `CloseWritten` | `cancel_socket`, its lambda with `socket_.cancel()` and `remove` |
| `Broadcast`, `Write`, `FrameWritten` | `write`, posted and then run, and its lambda |
| `Transfer`, `Resume`, `Fail` | external: `async_write` on a `tcp::socket` |

### The server

`Publisher` has the requests of all sessions: `Post` by a session, `SendOpen(i)` when one
enters `io_strand_` (again in either order among `Threads`), then a `SendMore` for every
chunk but the last and `SendLast`, each a call of `zmq_dealer.cpp` 58-104 and each a step
of its own. `assembling` is the message under way in the shared socket: a part goes into
it whoever sends it. `Publishing` promises one message per request, whole, at most once.
A request is a step in `Session` and a sequence of steps here; `Session` has its type,
`Publisher` its parts.

`Server` extends `Publisher` with the accept loop (`Connect`, `HandleAccept`,
`AcceptError`: `ws_server.cpp` 41-54 with `Session::start`), the registry `unauthed`
(`RemoveSession`), and the dealer's thread: `RecvType` and `RecvPayload` are the two
`recv` calls of `run`, and the callback's walk is one step per entry (`Visit`,
`WalkEnds`). The `std::set` is ordered by address, so that the walk is in the order of
addresses and a session that is inserted behind the iterator is not met. `inbox` is the
part that the subscribing socket gives next: the `message`-th message's `part`-th, messages
having the `sizes` their publishers gave them. Of the sessions only being alive and
registered is kept; when they may be is `Lifecycle`.

The set has no lock. Two threads may be at it at once (`Contended`) when the dealer's
walks it, or when there are two io threads and two sessions, or a session and a peer that
is to be accepted. A change of it then falls between the other thread's accesses and is
what it is with a lock (`ChangeCleanly`), or coincides with one, which is a data race: from
then on (`torn`) nothing is said of what the tree holds, where the iterator goes and
whether the process ends (`Tear`). The same follows when the entry under the iterator has
been erased (`VisitTorn`), for which no race is needed. What is not the registry (the
accepts, the requests, the dealer's two `recv` calls) goes on unless the process is gone
(`lost`).

### Bytes

`Framing` writes a header as `makeHeader` does and reads it with the two reads of
`ws_header.cpp`, on a length that is its eight bytes. `Mask` is `applyMask` over
a frame, a byte being the index of the mask byte it has met. `Base64` is
`base64_encode` for an array of bytes with the asserts behind its loop, which the makefile
keeps, and `base64_decode` of what it returns, beside the definition of
base64 by groups of six bits; the decoder takes the text when it is finished, a character
at a time. `MCCodec` is a sum of the three: a behaviour runs one.

## The runs

| run | checks |
|---|---|
| `gather` | the data path: type, `ReadsStayInLastChunk`, `ReadsStayInFrame`, `MaskFollowsFrame`, `NeverGrowsClosed`, the refinement, and that a read that does not end its frame fills its chunk (`FrameAdvances`) |
| `utf8` | type, `ValidWhileExtendable`, `CompleteAtCharacters` |
| `session_one` | one io thread: type, `OneLoop`, `WholeKeepsType`, and that loop and data path keep step (`ReadsWhatIsDue`) |
| `session_threads` | two: `EveryMessageOnce`, how far requests overtake each other (`FewAhead`), `DataPathIsGather`, `ImplementsLifecycle`, and that what is posted is delivered (`PostedIsDelivered`) |
| `outgoing` | type, `LoopWritesInTurn`, `BuffersUntouched`, `CloseEnds` |
| `server` | type, `BroadcastOnce`, `TypeOfItsMessage`, `ImplementsPublishing`, `EveryPeerAccepted`, `EveryRequestPublished` |
| `codec` | `HeaderReadsBack`, `FillsTheReserve`, `EachByteItsMask`, `CharactersAreGroups`, `AbortsOnlyForNothing`, `DecodesBack`, `AnswerIsPadded` |
| `session_fragmented`, `session_stale_type`, `session_control_fin`, `session_no_key`, `utf8_comment` | each finds the code at odds with a text of the repository |

Where the code keeps less than one might hope, the properties say what it does keep:

* `ReadsStayInLastChunk`: reads stay in their chunk exactly while the frames of the
  message announce less than 2^64 bytes.
* `FewAhead`: with several threads requests may overtake each other, and no text of the
  repository says otherwise; but one is ahead of its turn only as far as there are other
  threads to hold those before it, and with one thread none is.
* `LoopWritesInTurn`: that frames stay whole is not promised by anything in the code. Once
  one is cut short while another waits or starts, the other lies inside it, since nothing
  makes `write` wait for a pong or for the write before it. What holds in spite of it are
  the places of the frames the read loop starts itself: the whole answer to the handshake
  before any pong or close, one close, and no pong that begins after it. A broadcast may
  come before the one and after the other.
* `BroadcastOnce`: a message is posted once to each session that stays registered during
  the walk, and to no session twice, for every order of the steps of the threads, unless
  accesses to the registry have coincided or the entry under the iterator was erased.
* `AbortsOnlyForNothing`: `assert(outpos >= (retval.size() - 2))` fails for the empty
  input, where the size is 1 and the difference wraps, and for no other. The server
  encodes 20 bytes.
* `TypeOfItsMessage`: types and payloads belong together as long as every message
  received has two parts. What this server publishes has a part per chunk besides the
  type, and a message of three parts shifts the roles of all that follow.

**Bounds.** `gather`: chunks of 3 bytes and payloads of 0-4 and 7 put the end of a frame
before, at and after the end of a chunk, in the same chunk as the frame before it, and two
chunks on; messages are of up to 12 bytes in up to four chunks (`Memory`), and the second
message meets what the first has left behind. `U64 = 16` stands for 2^64; the payload of
15, its greatest, makes the sum of a message reach and pass it behind frames of every
other size. In `session_*` that is `U64 = 5`, which two frames of 3 pass. `utf8`: both
sides of every range the code or the reference distinguishes. `session_*`: two messages,
because a stale or reordered thing needs a second one, and three with two threads
(`session_threads`), so that a request may be overtaken more than once; payloads of 0 and
of more than a chunk; the sizes of control frames with no code, with one byte, with a code
alone, with code and reason, and one too large (`session_one`); close codes within and
outside the ranges; one pong and one broadcast in flight, of which more add no new
handler. The frames of a session are masked there (`Unmasked = {FALSE}`): the mask decides
nothing outside Gather. `outgoing`: frames in `Parts = 2` pieces and `MaxWrites = 2` pongs
and broadcasts beside the answer and the close, so that one frame may be cut short while
another waits, starts and ends, and a third one is there. `server`: two peers and an
address for the session that waits for one, hence two entries between which a walk may be,
with removals and insertions on either side of the iterator; two requests of no and of two
chunks; two messages, of two or three parts each, the second to be met by what the first
left. The messages are there from the start: `recv` waits, so that only their order
counts. The address of a session that was started is not used again; that of one whose
accept failed is. `codec`: all lengths of which at most two bytes are not zero, from the
values at the edges of the seven bits and of a byte, and 2^64 - 1; a frame of 260 bytes,
past the wrap of the `uint8_t` offset, in reads of 1-5 and 7; inputs of up to three bytes,
the period of base64, and the inputs `Digests` of the 20 bytes a digest has. The
accumulator and a `size_t` have 2^16 values (`Accumulators`, `SizeT`), where 2^12 suffice
for the one (`Base64Assumption`), and the other is greater than the size of any text
there.
No run checks deadlock: a session that has ended stops, and so does a server to which
nobody connects.

**Fairness.** The data path has none: a peer that falls silent in the midst of a frame
leaves it unfinished for ever, since nothing in the code times out (`src/README.md` has
sockets that take too long among its todos). That frames *end* is therefore not claimed,
only that each read brings one on as far as it can (`FrameAdvances`). `SessionSpec` has weak fairness
of `Request` only: io threads that live run what was posted. Nothing is assumed there of
the peer or of writes, because nothing in the code times out. `CloseEnds` is about just
that, and `OutgoingSpec` names the assumption: the first write in the queue moves a part or
fails (the peer reads on, or the connection breaks), and io threads run the handlers
that are due. `ServerSpec` has weak fairness of `RunRequest` and of `HandleAccept`, the
io threads again; nothing of the dealer's thread, of peers or of other publishers.

### What the violated runs show

* `session_fragmented`: `Header::process_state_1` takes `is_binary_` from the opcode of
  *this* frame (`ws_header.cpp:85`). A continuation frame has opcode 0, so a binary
  message of several frames ends up checked as UTF-8 and is announced as text.
* `session_stale_type`: `request` reads `header_` when it runs (`ws_session.cpp:211`),
  when a second io thread may have put the next header there.
* `session_control_fin`: 1007 and not 1002 closes a control frame without FIN; the
  branch that would send 1002 is never reached.
* `session_no_key`: the pointer tested at `ws_session.cpp:87` was moved at line 86, so that
  the branch "could not find key" is never reached.
* `utf8_comment`: comment IV of the validator gives other bounds than the code, and
  it is the code that agrees with the reference (`ValidIsExact`).

## The proofs

| module | proves |
|---|---|
| `GatherProofs` | `GatherTypes`, `ReadsFitTheChunk`, `ReadsFitTheFrame`, `ReadsAreFewest` (`FrameAdvances`), `MaskStaysAligned`, `NewChunkNeverThrows`, `GatherImplementsReassembly` |
| `Utf8Proofs` | `Utf8Types`, `ValidIsExact`, `CompleteIsExact` |
| `SessionProofs` | `SessionHasOneLoop`, `SessionReadsWhatIsDue`, `AcceptedFramesFit`, `SessionDrivesGather`, `SessionReassembles`, `SessionImplementsLifecycle` |
| `DeliveryProofs` | `EachMessageOnce`; `FewRequestsAhead` (`FewAhead`); for one thread `OneThreadKeepsType` (`WholeKeepsType`); `SessionTypes` |
| `OutgoingProofs` | `LoopKeepsItsTurn` (`LoopWritesInTurn`), `BuffersStayUntouched`, `OutgoingTypes` |
| `ServerProofs` | `RequestsStayApart` (Publisher implements Publishing), `ServerPublishes`, `EachSessionOnce` (`BroadcastOnce`), `MessageHasItsType` (`TypeOfItsMessage`), `ServerTypes` |
| `CodecProofs` | `EachByteIsUnmasked`, `HeaderSurvives` (`HeaderReadsBack`), `WriteFillsItsReserve` (`FillsTheReserve`), `EncodesInSixes` (`CharactersAreGroups`), `AnswerHasItsPadding` (`AnswerIsPadded`), `AbortsForNothingElse` (`AbortsOnlyForNothing`), `DecodesWhatItEncoded` (`DecodesBack`) |
| `SequenceLemmas` | what `RemoveAt` leaves of a queue, and the least element of a set of numbers, which the modules above share |

**Assumptions.** Chunk size positive; payload sizes below `U64`, which is the width of
the field that has them; `MemoryAssumption`: what is allocated is less than the address
space. Nothing is assumed of what the frames of a message add up to. For `Utf8`, that bytes are bytes. For `Session`, that the sets of
inputs have their types. For `Outgoing`, that a frame has a part and that writes are
counted. For `Publisher` and `Server`, that there is a thread, that counts are numbers,
that addresses are positive numbers, 0 being `end()`, and that there are more addresses
than peers, a session being made for the one that is waited for. For `Mask`, that reads
have sizes. For `Base64`, that the accumulator drops no bit in use, that a `size_t` counts to four
and the sign of padding is no character. All are evaluated by TLC on the instances. `Framing` has no constants: its
theorems are about every flag and opcode there is, every length of 64 bits and every mask
key, and those of `Base64` about every input of which the string's size, times three, is
a `size_t` (`Storable`).

**Gather.** `ReadsStayInLastChunk` is not inductive: it says nothing of the vector
between two frames of a message, which the next frame continues. `GatherInv` adds what
holds there (everything received fits the vector, and its last chunk is whole as long as
it is open), that consumption never passes the size, and that the mask offset is
the frame's offset modulo four, which survives the `uint8_t` wrap because 4 divides
256. While a payload is read it has two cases: as long as the message has announced less
than `U64`, the read ends at the frame's end or the chunk's (`ReadingFits`); from then on
it is one read, for all of the frame that made the sum wrap (`ReadingOver`), because
`total_size_` is then below what has been received (`Carry`, `Borrow`), which is in memory
and so below `U64`. Such a read never fits (`ReadFits` of `ReadsFitTheChunk`), and that is
the end of what Gather does. `ReadsAreFewest` takes its step from the same invariant: a
read that ends neither the frame nor the session has filled the vector (`FillsItsChunk`).
The lemmas are about arithmetic (`LastChunkFits`, `MaskStep`) and about one outcome
of `read_chunk` each (`ReadOnStep`, `EndFrameStep`, `EndMessageStep`); `FrameLoads` and
`ChunkReadLoads` establish their common premise from the two actions. The same step
lemma gives the step of `Reassembly`: `EndFrame` is `MoreFrame`, `EndMessage` is
`LastFrame`, a frame that makes the sum wrap is `Overflow`, everything else stutters.

**Utf8.** `Utf8Inv` ties the code's `length_`, `it_` and `previous_byte_` to the
reference: as many bytes due, and, after the first byte of three or four, the bits so
far are those of `previous_byte_`. That `previous_byte_` may be stale is harmless
because the code asks for it only there, which is what the invariant says. The bounds
of code points are written in units of 1024, and the steps cite `UnitIs`, because the
SMT backend cannot take literals of their size.

**Session.** `SessionInv` is that at most one operation of the loop is outstanding, that
a registered session of a living process has one, and that a header waiting for its
rest has passed `process_state_1`, so that the frame it starts is one Gather knows. One
lemma for a handler of the loop (`LoopStep`) and one for the writes beside it
(`OtherStep`) serve all actions; each action also yields the Gather step it drives,
hence `SessionDrivesGather`, with which the theorems of Gather hold in a session
(`SessionReassembles`). `SessionImplementsLifecycle` needs `SessionInv` too:
the stage is read off the outstanding operation, which is a function of the state only
because there is at most one (`StageIs`), and a registered session has not ended. Then
every handler that starts the next read is a stutter of the stage, and each of the
others is the step of `Lifecycle` its name says. `SessionReadsWhatIsDue` relates the two
halves of the state that `SessionInv` keeps apart, what is being read (`ops`) and what
Gather waits for (`phase`): a handler runs on what it has read without asking, where the
actions of Gather have a guard, so that without it the model might stop where the code
goes on. With `SessionInv` it is inductive: `DueBefore` reads off what a handler may
assume, `DueStep` what it has to start. `AcceptedFramesFit` is the same for the frames
that `Header` accepts.

**Delivery.** Of a session's steps three kinds matter: those that post a message
(`Posts`; `ChunkPosts` shows that a handler posts a request exactly when its read ends a
message), those that hand one over (`Hands`), and the rest. `EveryMessageOnce` is
inductive once it is said pointwise (`DeliveryInv`): every message posted waits or was
handed over, and there are as many of these as were posted. `FewAhead` is about what was
delivered and needs to know where in the queue a message can be: behind as many as came
before it and are not handed over, so that the i-th of the queue is at most the i-th after
those delivered (`AheadInv`); a request that runs is among the first `Threads`. With one
thread the queue continues what was delivered (`OrderInv`). `WholeKeepsType` says
nothing of messages that are not delivered yet: `TypeInv` adds that `header_` has the
type of the message under way, and then of the one in the queue, which is the only one
because the next header comes in only after its request has run. That last fact is what
a second thread takes away, as `session_stale_type` shows. `Threads = 1` is a hypothesis
of this theorem, `OneThreadKeepsType`.

**Outgoing.** Neither of the two properties is inductive: `LoopWritesInTurn` is about what
the peer has received (`wire`) and says nothing of the frames that are on their way, and
`BuffersUntouched` nothing of a control frame that has not come yet. `OutgoingInv` has six
parts. `InOnePlace`: a frame not wholly sent is in the socket's queue once or waits in
`resuming`, never both, which is what boost's chain of writes gives. `InTurn` and
`BeginInTurn`: a frame of which nothing is sent comes in the queue after all that were
started before it, so that frames *begin* on the wire in the order they were started,
whatever is cut. `LoopFrames` ties the stage of `Lifecycle` to which of
the loop's frames were started and which are whole (no pong or close before the answer is
out, one answer, one close, no pong after it), and `ReplyFirst` says the same of the wire:
with `BeginInTurn` that is `LoopWritesInTurn`. `Buffers`: what `control_` reads into is
held by no frame under way. `NewBuffer` needs a buffer nobody holds, for every
`MaxWrites` (`NewBufferIs`): while the session reads, those that are held are `control` and
the pongs', of which `Bounded` allows no more than there are writes, and there are two
buffers more than that. The socket's own steps (`Transfer`, `Resume`, `Fail`) and the start of a
frame (`StartIs`) each have a lemma that serves all handlers.

**Publisher.** That parts of two requests never mix is not inductive: it is about `out`
and says nothing of the message under way. `PublisherInv` says that a waiting request is
in the queue once and unpublished (`Waits`), and that either nothing is under way or one
request is, whose type and first chunks are exactly what `assembling` holds (`Runs`):
this is what `io_strand_` gives. A `SendLast` then completes the message `Publishing`
promises, and every other step is a stutter or a `Hand`. The number of chunks, of
threads and of requests is arbitrary.

**Server.** `ServerPublishes` follows because each step of the server is one of the
publisher or leaves it alone. `BroadcastOnce` needs `Visited`: what was visited is
strictly before the iterator, in which every change of the registry is to be kept out of
the past, and `throughout` is within the registry as it is now. It is claimed while nothing is
torn, and nothing becomes whole again, so that the steps in which threads collide need no
argument. `FirstInIs` and `AfterIs`
say what `begin()` and `++` find in a set of addresses of which none has to be finite;
the first cites the well-foundedness of `<` on the naturals. `TypeOfItsMessage` is about
what was broadcast; `Received`, `Numbered` and `Roles` are about where the dealer's thread
is. As long as the messages up to the one it reads have two parts, it waits for a type
when the next part is the first of a message, and for a payload when that is the second of
the message whose first it took for the type. `ServerTypeOK` needs that a session has
one place, with the acceptor, alive or over (`Places`), and that what a walk keeps of its
course is empty when there is none (`Walked`).

**Mask.** The offset is the number of bytes unmasked modulo four, wherever the frame was
cut; the groups of four and the single bytes of `applyMask` each keep it.

**Framing.** `HeaderReadsBack` speaks of a header that was read whole. `FramingInv` says what
the buffer holds before: the first two bytes and zeros, and that the second read was asked
for exactly the rest. `HeaderIs`, `SecondByteIs` and `LengthBytesAre` say where
`makeHeader` puts each byte, in each of the three encodings of the length, and
`PayloadReadsBack` and `MaskReadsBack` that the reader looks for them there: a length is
encoded in the shortest of the three that holds it, so that the bytes left out are zeros.

**Base64.** `CharactersAreGroups` is not inductive, since the bits of a character come from
two bytes. `EncodeInv` says what the accumulator carries from one byte to the next
(`Carried`): after 3q + r bytes there are 4q + r characters and 2r bits left, which are the
last of the byte before. The accumulator's higher bits are never cleared in the code;
`LowBitsStay` says that what they are, and that they run over, cannot be seen in the
twelve bits in use (`Moved`). `GroupIs` is the other half: each of the four groups of three
bytes in terms of the bytes. The end of the input is the same argument with zeros after
it, and one sign of padding, or none, after that. From the same count of characters
`AbortsForNothingElse` follows: the string is at most one sign longer than them, and at
least two long unless the input is empty.

`DecodesBack` is about two loops, the second over what the first has made. `Finished` is what
the first leaves to the second: `Characters` of the input, and nothing but padding behind
them. `DecodeInv` is the second's invariant: of 4q + r characters it has put out the first
bytes of the input, 3q of them for the fours and none, one or two for one to three more,
and holds the six, four or two bits that are left (`DecodedIs`). `MovedIn` and `BytesOut` say which bits of the accumulator the
next byte is made of; that they are the byte's is `GroupIs` again (`DecodeMoves`).
`CharactersCover` says that a character has a byte for it as long as there are characters,
without which the bits of zeros after the last byte could be taken for one more, and
`CharactersEnd` that none is missing at the end (`AllIsDecoded`).

**Only model-checked.** Liveness (`PostedIsDelivered`, `CloseEnds`,
`EveryPeerAccepted`, `EveryRequestPublished`): the prover does not do fairness and
ENABLED. Every other property of the passing runs is a theorem, with `WholeKeepsType`
under the hypothesis of one io thread.

## Not modelled, and why

* The text of the handshake: it is one read, taken whole, without a key or without the
  key's end; what of a request comes in later segments is not followed. The digest is OpenSSL's.
* The payload bytes of control frames: size, code and whether the reason is UTF-8 decide
  everything but what is echoed. That `cancel_socket` announces a payload of no bytes and
  writes two is in the model (`Closing`) and a hazard; no text of the repository says what
  the frame is to carry, so that no run is spent on it.
* What becomes of a session after a read has written past its chunk, and of the registry
  after two threads were in it at once: anything, which the models reach (`Overrun`,
  `Tear`) and do not follow.
* `authed_` and its operations, which need `authenticated_`, set by nothing; the maps of
  feeds, written by nothing.
* The overload of `base64_encode` for strings, and characters outside the alphabet,
  which nothing gives to the decoder.
* Messages that ZeroMQ drops when its queue is full or nobody is connected: the
  library's, on the other side of `send`.
* `utilities_random` wraps a library function that is called for masks only, which the
  server does not send; `ws_timeouts` is not built; printing and debugging write to the
  console; `server_main` reads arguments. That it passes the number of threads as a
  `uint8_t` makes none of 256, which a hazard names; the models assume a thread.

## Plan

1. **Done**: the data path, the session, its writes, the publisher, the server and the
   codecs; every safety and action property of the passing runs is a theorem.
2. Proofs that are left. That a session's writes, `Outgoing`, and its handlers, `Session`,
   go through the *same* life needs a module that composes the two. The answers of
   `Header::process` and `Control::process` are proved about only as far as the theorems
   of the session need: which close code each malformed frame gets could be stated as
   lemmas of its own.
