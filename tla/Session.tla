------------------------------ MODULE Session ------------------------------
(***************************************************************************)
(* Websocket::Session from start() to its last handler, with the asio      *)
(* operations it has outstanding, its entry in the SessionManager, and the *)
(* messages it posts to io_strand_ for the dealer.  The data path is       *)
(* Gather; a handler here is the Gather action it drives together with     *)
(* what it does to the rest of the session.                                *)
(*                                                                         *)
(* Operations of one session complete one at a time on its strand_.  The   *)
(* requests it posts run on io_strand_ instead: with one io thread they    *)
(* run before any handler the session starts later; with more, handlers go *)
(* on meanwhile, and two requests that two threads have taken from the     *)
(* queue enter io_strand_ in either order.                                 *)
(***************************************************************************)
EXTENDS Gather, Control, SequencesExt

CONSTANTS Threads,      \* threads that run the io_service
          Requests,     \* first requests: "whole", "noKey" or "noEnd"
          PeerOpcodes,  \* opcodes of the frames the peer sends
          Unmasked,     \* whether they may be unmasked
          ControlSizes, \* payload sizes of its control frames
          CloseCodes,   \* codes of its close frames
          MaxWrites     \* bound: broadcasts posted, and pongs outstanding

Codes == 0 .. 2^16 - 1     \* what two bytes hold

ASSUME SessionAssumption == /\ Threads \in Nat \ {0}
                            /\ Requests \subseteq {"whole", "noKey", "noEnd"}
                            /\ Unmasked \subseteq BOOLEAN
                            /\ ControlSizes \subseteq Nat
                            /\ CloseCodes \subseteq Codes
                            /\ MaxWrites \in Nat

ASSUME OpcodesAssumption == PeerOpcodes \subseteq 0 .. 15     \* four bits

VARIABLES ops,          \* outstanding asynchronous operations, by kind
          registered,   \* the session is in unauthed_
          crashed,      \* the process is gone, or its memory is
          temp,         \* temp_header_, once its first two bytes are in
          closeFrame,   \* the close frame sent: see NoClose
          broadcasts,   \* Session::write calls the dealer's thread has posted, not run
          written,      \* history: Session::write calls posted in all
          queue,        \* requests posted to io_strand_ and not run, as message numbers
          delivered,    \* history: what the dealer was given, in order
          messages      \* history: what the peer meant each message to be

sessionOnly == <<ops, registered, crashed, temp, closeFrame, broadcasts, written,
                 queue, delivered, messages>>
sessionVars == <<gatherVars, sessionOnly>>

Reads  == {"request", "first", "second", "control", "payload"}
Writes == {"reply", "close", "pong", "data"}

Headers == {f \in FrameHeaders(PeerOpcodes \ Control, Payloads)
                     \cup FrameHeaders(PeerOpcodes \cap Control, ControlSizes) :
              f.unmasked \in Unmasked}
-----------------------------------------------------------------------------
\* A handler: operation `done' has completed and the handler starts `started'.
Complete(done, started) ==
  /\ ~crashed
  /\ ops[done] > 0
  /\ ops' = [k \in DOMAIN ops |-> ops[k] - (IF k = done THEN 1 ELSE 0)
                                         + (IF k \in started THEN 1 ELSE 0)]

\* The io_service's order of handlers, which the session relies on: with one thread a
\* request that is posted runs before a later read completes.
ReadCompletesAnyThread(done, started) == Complete(done, started)       \* mutant
ReadCompletes(done, started) == /\ Complete(done, started)
                                /\ Threads = 1 => queue = << >>

Unregister == registered' = FALSE

\* read_header gives temp_header_ a new, zeroed buffer.
NewHeader == [fin |-> FALSE, rsv |-> TRUE, opcode |-> 0, unmasked |-> TRUE, size |-> 0]

\* cancel_socket's frame: its header announces no payload, and the two bytes of the code
\* are written after it.
Closing(code) == [code |-> code, length |-> 0, written |-> 2]

\* cancel_socket, after the operation `done'; its write is the session's last.
CancelSocketGoesOn(done, code) ==                                      \* mutant
  /\ ReadCompletes(done, {"close", "first"})
  /\ closeFrame' = Closing(code)
  /\ UNCHANGED registered

CancelSocket(done, code) == /\ ReadCompletes(done, {"close"})
                            /\ closeFrame' = Closing(code)
                            /\ UNCHANGED registered

\* read_first_header.  The pointer strstr returns is moved past the pattern before it
\* is compared with null (line 86), so the search for the end of a key that is not
\* there starts at an address of no object: the process dies.
HandleFirstRequest(r) ==
  /\ UNCHANGED <<temp, closeFrame, broadcasts, written, queue, delivered, messages>>
  /\ \/ /\ r = "whole"
        /\ Complete("request", {"reply"})
        /\ UNCHANGED <<registered, crashed, gatherVars>>
     \/ /\ r = "noEnd"
        /\ Complete("request", {})
        /\ Unregister /\ Stop
        /\ UNCHANGED crashed
     \/ /\ r = "noKey"
        /\ Complete("request", {})
        /\ crashed' = TRUE
        /\ UNCHANGED <<registered, gatherVars>>

\* The handshake's answer is written: the first read_header.
Replied == /\ Complete("reply", {"first"})
           /\ temp' = NewHeader
           /\ UNCHANGED <<gatherVars, registered, crashed, closeFrame, broadcasts,
                          written, queue, delivered, messages>>

\* handle_read_header, the first two bytes of frame f.
HandleFirst(f) ==
  /\ temp' = f
  /\ UNCHANGED <<crashed, broadcasts, written, queue, delivered, messages>>
  /\ \/ /\ Process1(f) # 0
        /\ CancelSocket("first", Process1(f))
        /\ Stop
     \/ /\ Process1(f) = 0
        /\ ReadCompletes("first", {"second"})
        /\ UNCHANGED <<gatherVars, registered, closeFrame>>

\* What the read loop does after a step of the data path, by the phase it ends in.
AfterChunkEager(done) ==                                               \* mutant
  /\ \/ phase' = "stopped" /\ CancelSocket(done, 1007) /\ UNCHANGED <<temp, queue>>
     \/ /\ phase' = "payload"
        /\ ReadCompletes(done, {"payload"})
        /\ UNCHANGED <<registered, closeFrame, temp, queue>>
     \/ /\ phase' = "header"
        /\ ReadCompletes(done, {"first"})
        /\ temp' = NewHeader
        /\ queue' = Append(queue, Len(posted'))
        /\ UNCHANGED <<registered, closeFrame>>

AfterChunkNewest(done) ==                                              \* mutant
  /\ \/ phase' = "stopped" /\ CancelSocket(done, 1007) /\ UNCHANGED <<temp, queue>>
     \/ /\ phase' = "payload"
        /\ ReadCompletes(done, {"payload"})
        /\ UNCHANGED <<registered, closeFrame, temp, queue>>
     \/ /\ phase' = "header"
        /\ ReadCompletes(done, {"first"})
        /\ temp' = NewHeader
        /\ queue' = IF newRequest' THEN <<Len(posted')>> \o queue ELSE queue
        /\ UNCHANGED <<registered, closeFrame>>

AfterChunk(done) ==
  /\ \/ phase' = "stopped" /\ CancelSocket(done, 1007) /\ UNCHANGED <<temp, queue>>
     \/ /\ phase' = "payload"
        /\ ReadCompletes(done, {"payload"})
        /\ UNCHANGED <<registered, closeFrame, temp, queue>>
     \/ /\ phase' = "header"
        /\ ReadCompletes(done, {"first"})
        /\ temp' = NewHeader
        /\ queue' = IF newRequest' THEN Append(queue, Len(posted')) ELSE queue
        /\ UNCHANGED <<registered, closeFrame>>

\* handle_read_header, CONTROL: header_, which the rest of a fragmented message still
\* needs, is left alone.
StartControlTransfers ==                                               \* mutant
  /\ ReadCompletes("second", {"control"})
  /\ header' = [fin |-> temp.fin, binary |-> temp.opcode = 10, unmasked |-> temp.unmasked]
  /\ UNCHANGED <<phase, newRequest, gather, buffer, whole, announced, posted, registered,
                 closeFrame, temp, queue, messages>>

StartControl == /\ ReadCompletes("second", {"control"})
                /\ UNCHANGED <<gatherVars, registered, closeFrame, temp, queue, messages>>

\* handle_read_header, the rest of the header of frame temp.
HandleSecond ==
  LET code == Process2(temp, newRequest)
  IN /\ UNCHANGED <<crashed, broadcasts, written, delivered>>
     /\ \/ /\ code # 0
           /\ CancelSocket("second", code)
           /\ Stop
           /\ UNCHANGED <<temp, queue, messages>>
        \/ /\ code = 0 /\ temp.opcode \in Control
           /\ StartControl
        \/ /\ code = 0 /\ temp.opcode \notin Control
           /\ messages' = IF newRequest
                          THEN Append(messages, [binary |-> temp.opcode = 2,
                                                 fragmented |-> ~temp.fin])
                          ELSE messages
           /\ Frame(temp.size, temp.fin, temp.opcode, temp.unmasked)
           /\ AfterChunk("second")

\* read_chunk.
HandlePayload == /\ ChunkRead
                 /\ AfterChunk("payload")
                 /\ UNCHANGED <<crashed, broadcasts, written, delivered, messages>>

\* A read that leaves its chunk: what it writes over is not the session's.
HandleOverrun == /\ Overrun
                 /\ Complete("payload", {})
                 /\ crashed' = TRUE
                 /\ UNCHANGED <<registered, temp, closeFrame, broadcasts, written, queue,
                                delivered, messages>>

\* handle_control_read, with payload p.
HandleControl(p) ==
  /\ ops["control"] > 0
  /\ UNCHANGED <<crashed, broadcasts, written, queue, delivered, messages>>
  /\ \/ /\ ProcessControl(temp, p) # 0
        /\ CancelSocket("control", ProcessControl(temp, p))
        /\ Stop
        /\ UNCHANGED temp
     \/ /\ ProcessControl(temp, p) = 0 /\ ControlState(temp) = "KILL"
        /\ ReadCompletes("control", {"close"})
        /\ closeFrame' = Answering(temp, p)
        /\ Stop
        /\ UNCHANGED <<temp, registered>>
     \/ /\ ControlState(temp) = "PONG"
        /\ ReadCompletes("control", {"first"})
        /\ temp' = NewHeader
        /\ UNCHANGED <<gatherVars, registered, closeFrame>>
     \/ /\ ControlState(temp) = "PING"
        /\ ops["pong"] < MaxWrites
        /\ ReadCompletes("control", {"first", "pong"})
        /\ temp' = NewHeader
        /\ UNCHANGED <<gatherVars, registered, closeFrame>>

\* A read, or the write of the handshake, completes with an error.
LoopFails(k) == /\ ReadCompletes(k, {})
                /\ Unregister /\ Stop
                /\ UNCHANGED <<crashed, temp, closeFrame, broadcasts, written, queue,
                               delivered, messages>>

\* The close frame is written, or could not be: socket_.cancel() and remove.
CloseDoneIfWritten ==                                                  \* mutant
  /\ Complete("close", {})
  /\ registered' \in {registered, FALSE}
  /\ UNCHANGED <<gatherVars, crashed, temp, closeFrame, broadcasts, written, queue,
                 delivered, messages>>

CloseDone == /\ Complete("close", {})
             /\ Unregister
             /\ UNCHANGED <<gatherVars, crashed, temp, closeFrame, broadcasts, written,
                            queue, delivered, messages>>

\* A pong or the frame of a broadcast is written; an error removes the session.
WriteDone(k) == /\ Complete(k, {})
                /\ registered' \in {registered, FALSE}
                /\ UNCHANGED <<gatherVars, crashed, temp, closeFrame, broadcasts, written,
                               queue, delivered, messages>>

\* The dealer's thread posts Session::write of a session it finds in unauthed_.
Broadcast == /\ ~crashed /\ registered /\ written < MaxWrites
             /\ broadcasts' = broadcasts + 1
             /\ written' = written + 1
             /\ UNCHANGED <<gatherVars, ops, registered, crashed, temp, closeFrame, queue,
                            delivered, messages>>

\* Session::write runs, whatever has become of the session since.
Write == /\ ~crashed /\ broadcasts > 0
         /\ broadcasts' = broadcasts - 1
         /\ ops' = [ops EXCEPT !["data"] = @ + 1]
         /\ UNCHANGED <<gatherVars, registered, crashed, temp, closeFrame, written, queue,
                        delivered, messages>>

\* Session::request of the i-th request posted: it asks header_ for the type now.
RequestIfRegistered(i) ==                                              \* mutant
  /\ ~crashed /\ registered
  /\ i <= Threads
  /\ delivered' = Append(delivered, [message |-> queue[i], binary |-> header.binary])
  /\ queue' = RemoveAt(queue, i)
  /\ UNCHANGED <<gatherVars, ops, registered, crashed, temp, closeFrame, broadcasts,
                 written, messages>>

Request(i) ==
  /\ ~crashed
  /\ i <= Threads
  /\ delivered' = Append(delivered, [message |-> queue[i], binary |-> header.binary])
  /\ queue' = RemoveAt(queue, i)
  /\ UNCHANGED <<gatherVars, ops, registered, crashed, temp, closeFrame, broadcasts,
                 written, messages>>

\* Session::start, called by Server::handle_accept.
SessionInit == /\ GatherInit
               /\ ops = [k \in Reads \cup Writes |-> IF k = "request" THEN 1 ELSE 0]
               /\ registered = TRUE
               /\ crashed = FALSE
               /\ temp = NewHeader
               /\ closeFrame = NoClose
               /\ broadcasts = 0 /\ written = 0
               /\ queue = << >>
               /\ delivered = << >>
               /\ messages = << >>

SessionNext ==
  \/ \E r \in Requests : HandleFirstRequest(r)
  \/ Replied
  \/ \E f \in Headers : HandleFirst(f)
  \/ HandleSecond
  \/ HandlePayload
  \/ HandleOverrun
  \/ \E p \in ControlPayloads(CloseCodes) : HandleControl(p)
  \/ \E k \in Reads \cup {"reply"} : LoopFails(k)
  \/ CloseDone
  \/ \E k \in {"pong", "data"} : WriteDone(k)
  \/ Broadcast
  \/ Write
  \/ \E i \in 1 .. Len(queue) : Request(i)

SessionSafety == SessionInit /\ [][SessionNext]_sessionVars

\* The io threads run what is posted.
SessionSpec == SessionSafety
                 /\ WF_sessionVars(\E i \in 1 .. Len(queue) : Request(i))
-----------------------------------------------------------------------------
Loop == Reads \cup {"reply", "close"}      \* what a session's life hangs on

\* Every variable has its type.
SessionTypeOK == /\ GatherTypeOK
                 /\ ops \in [Reads \cup Writes -> Nat]
                 /\ registered \in BOOLEAN /\ crashed \in BOOLEAN
                 /\ temp \in FrameHeaders(0 .. 15, Nat)
                 /\ closeFrame \in [code : Codes, length : Nat, written : Nat]
                 /\ broadcasts \in 0 .. MaxWrites /\ written \in 0 .. MaxWrites
                 /\ queue \in Seq(Nat)
                 /\ delivered \in Seq([message : Nat, binary : BOOLEAN])
                 /\ messages \in Seq([binary : BOOLEAN, fragmented : BOOLEAN])

\* A session has at most one read loop, handshake or close under way, whatever pongs
\* and broadcasts are in flight; and one that is in unauthed_ has exactly one, so that
\* an entry nobody will ever remove cannot stay behind (handlers, ws_session.cpp:71-331).
OneLoop ==
  ~crashed => /\ \A j, k \in Loop : ops[j] > 0 /\ ops[k] > 0 => j = k /\ ops[j] = 1
              /\ registered => \E k \in Loop : ops[k] > 0

\* A finished message is posted once and handed over once: it is either waiting in the
\* queue or delivered, whatever becomes of the session (ws_session.cpp:200-202).
EveryMessageOnce ==
  LET done == [i \in DOMAIN delivered |-> delivered[i].message]
      all  == queue \o done
  IN /\ Len(all) = Len(posted)
     /\ {all[i] : i \in DOMAIN all} = DOMAIN posted

\* Requests overtake each other only while threads hold them: of the messages that came
\* after the i-th handed over so far, at most Threads - 1 are ahead of their turn, and
\* none is when there is one thread.
FewAhead == \A i \in DOMAIN delivered : delivered[i].message <= i + (Threads - 1)

\* A message of one frame is handed over with the type its peer gave it.  Holds with
\* one io thread; Session::request reads header_ when it runs (ws_session.cpp:211).
WholeKeepsType ==
  \A i \in DOMAIN delivered :
    LET m == messages[delivered[i].message]
    IN m.fragmented \/ delivered[i].binary = m.binary

\* send_open(bool is_binary) is told the type of every message (ws_dealer.hpp:17).
EveryMessageKeepsType ==
  \A i \in DOMAIN delivered :
    delivered[i].binary = messages[delivered[i].message].binary

\* A control frame that is not final is closed with 1002 (ws_session.cpp:152-156).
UnfinishedControlIs1002 ==
  ops["close"] > 0 /\ temp.opcode \in Control /\ ~temp.fin => closeFrame.code = 1002

\* A first request without a key ends its session, and nothing else ("could not find
\* key", ws_session.cpp:87-91).
MissingKeyEndsSession == ~crashed

\* Handshake, control frames, broadcasts, registry and requests leave the data path
\* alone: what the session does to it is Gather, also between a message's fragments.
DataPathIsGather == GatherSafety

\* A session answers its handshake, reads, and closes once, after which it reads no
\* more; it leaves unauthed_ when it ends, whichever operation was its last, and never
\* comes back (handlers, ws_session.cpp:60-331).
Pending(kinds) == \E k \in kinds : ops[k] > 0
StageReached == IF crashed THEN "crashed"
                ELSE IF Pending({"close"}) THEN "closing"
                ELSE IF Pending({"request"}) THEN "handshake"
                ELSE IF Pending({"reply"}) THEN "reply"
                ELSE IF Pending(Reads) THEN "open"
                ELSE "over"

Life == INSTANCE Lifecycle WITH stage <- StageReached
ImplementsLifecycle == Life!LifecycleSpec

\* The read loop and the data path keep step: a payload is read exactly while Gather
\* waits for one, so that no byte of it is taken for a header or the other way round,
\* and nothing is read when it has stopped, whatever stopped it (ws_session.cpp:136-218).
ReadsWhatIsDue ==
  /\ Pending({"payload"}) <=> phase = "payload"
  /\ ~crashed => (Pending(Reads \cup {"reply"}) <=> phase \in {"header", "payload"})

\* What is posted is handed over, also when the session ends first; unless the process
\* dies.
PostedIsDelivered ==
  \A k \in 1 .. MaxMessages :
    Len(posted) >= k ~> crashed \/ \E i \in DOMAIN delivered : delivered[i].message = k
=============================================================================
