------------------------------ MODULE Outgoing ------------------------------
(***************************************************************************)
(* What one session writes to its socket: the answer to the handshake,     *)
(* pongs, broadcasts and the close frame, each an async_write of its own   *)
(* that may start while others are under way.  The life of the session is  *)
(* Lifecycle; here its steps also start writes, or are the end of one.     *)
(*                                                                         *)
(* An async_write is a chain of async_write_some operations.  The socket   *)
(* keeps those in a queue and carries them out in turn; one that moves only*)
(* a part of its frame completes, and the async_write queues another for   *)
(* the rest.  A frame is abstracted to a number of parts.                  *)
(***************************************************************************)
EXTENDS Lifecycle, Integers, SequencesExt

CONSTANTS Parts,        \* parts a frame may reach the socket in
          MaxWrites     \* bound: pongs and broadcasts, started or posted

ASSUME OutgoingAssumption == Parts \in Nat \ {0} /\ MaxWrites \in Nat

VARIABLES broadcasts,   \* Session::write calls posted and not run
          started,      \* history: the frames started, kind and control buffer of each
          left,         \* parts of each that are not on the wire
          sending,      \* the socket's queue of async_write_some, as numbers of frames
          resuming,     \* frames cut short that are to be queued again
          ended,        \* writes whose handler is due: frame and whether it succeeded
          wire,         \* history: the parts the peer receives, as numbers of frames
          broken,       \* the connection takes no more
          control,      \* the buffer control_ has
          filling       \* a control frame's payload is being read into it

socketVars == <<left, sending, resuming, wire, broken>>
outgoingVars == <<lifecycleVars, socketVars, broadcasts, started, ended, control, filling>>

Frames == DOMAIN started
Kinds  == {"reply", "pong", "close", "data"}
Writes == broadcasts + Quantify(Frames, LAMBDA i : started[i].kind \in {"pong", "data"})

\* The buffers that control_ or the handler of a write still holds; 0 is none of them.
Held == {control} \cup {started[i].buffer : i \in {j \in Frames :
           \/ j \in ToSet(sending) \cup resuming
           \/ \E ok \in BOOLEAN : <<j, ok>> \in ended}}
-----------------------------------------------------------------------------
\* async_write of a frame of kind k.
Start(k, b) == /\ started' = Append(started, [kind |-> k, buffer |-> b])
               /\ left' = Append(left, Parts)
               /\ sending' = Append(sending, Len(started'))
               /\ UNCHANGED <<resuming, wire, broken>>

StartsNothing == UNCHANGED <<socketVars, started>>

\* control_.new_buffer: memory that nothing else holds.
NewBufferKept == control                                               \* mutant
NewBuffer == Min((1 .. (MaxWrites + 2)) \ Held)

\* read_first_header: the answer is written, or the session is over before it began.
HandleFirstRequestEager ==                                             \* mutant
  /\ stage = "handshake" /\ stage' = "open" /\ UNCHANGED registered
  /\ Start("reply", 0)
  /\ UNCHANGED <<broadcasts, ended, control, filling>>

HandleFirstRequest ==
  /\ \/ Answer /\ Start("reply", 0)
     \/ stage = "handshake" /\ Finish /\ StartsNothing
     \/ stage = "handshake" /\ Crash /\ StartsNothing
  /\ UNCHANGED <<broadcasts, ended, control, filling>>

\* handle_read_header, CONTROL: the payload is read into a new buffer.
ReadControl == /\ stage = "open" /\ ~filling
               /\ control' = NewBuffer
               /\ filling' = TRUE
               /\ UNCHANGED <<lifecycleVars, socketVars, broadcasts, started, ended>>

\* handle_control_read, PONG and PING, with the read of the next header.
HandleControl == /\ stage = "open" /\ filling
                 /\ filling' = FALSE
                 /\ \/ StartsNothing
                    \/ Writes < MaxWrites /\ Start("pong", control)
                 /\ UNCHANGED <<lifecycleVars, broadcasts, ended, control>>

\* handle_control_read, KILL: the peer's frame is sent back.
HandleKill == /\ filling /\ Close
              /\ Start("close", control)
              /\ filling' = FALSE
              /\ UNCHANGED <<broadcasts, ended, control>>

\* cancel_socket, from a handler of the read loop.
CancelSocket == /\ Close
                /\ Start("close", 0)
                /\ filling' = FALSE
                /\ UNCHANGED <<broadcasts, ended, control>>

\* A read fails.
ReadFails == /\ stage = "open" /\ Finish
             /\ filling' = FALSE
             /\ StartsNothing
             /\ UNCHANGED <<broadcasts, ended, control>>

\* A read of the data path leaves its chunk (Gather).
ReadOverruns == /\ stage = "open" /\ ~filling /\ Crash
                /\ StartsNothing
                /\ UNCHANGED <<broadcasts, ended, control, filling>>

\* The dealer's thread finds the session in unauthed_.
Broadcast == /\ stage # "crashed" /\ registered
             /\ Writes < MaxWrites
             /\ broadcasts' = broadcasts + 1
             /\ StartsNothing
             /\ UNCHANGED <<lifecycleVars, ended, control, filling>>

\* Session::write, on any thread and at any stage.
WriteUnasked == /\ stage # "crashed"                                    \* mutant
                /\ broadcasts' = broadcasts - 1
                /\ Start("data", 0)
                /\ UNCHANGED <<lifecycleVars, ended, control, filling>>

Write == /\ stage # "crashed" /\ broadcasts > 0
         /\ broadcasts' = broadcasts - 1
         /\ Start("data", 0)
         /\ UNCHANGED <<lifecycleVars, ended, control, filling>>
-----------------------------------------------------------------------------
\* The socket takes n parts of the frame whose turn it is.
Transfer(n) ==
  /\ stage # "crashed" /\ ~broken /\ sending # << >>
  /\ LET i == Head(sending)
     IN /\ n <= left[i]
        /\ left' = [left EXCEPT ![i] = @ - n]
        /\ wire' = wire \o [p \in 1 .. n |-> i]
        /\ sending' = Tail(sending)
        /\ \/ /\ n < left[i]
              /\ resuming' = resuming \cup {i}
              /\ UNCHANGED ended
           \/ /\ n = left[i]
              /\ ended' = ended \cup {<<i, TRUE>>}
              /\ UNCHANGED resuming
        /\ UNCHANGED <<lifecycleVars, broadcasts, started, broken, control, filling>>

\* The handler between two async_write_some of one frame queues the next.
Resume(i) == /\ stage # "crashed" /\ i \in resuming
             /\ resuming' = resuming \ {i}
             /\ sending' = Append(sending, i)
             /\ UNCHANGED <<lifecycleVars, left, wire, broken, broadcasts, started, ended,
                            control, filling>>

\* The connection is gone: the operation whose turn it is fails, and all after it.
Fail == /\ stage # "crashed" /\ sending # << >>
        /\ broken' = TRUE
        /\ ended' = ended \cup {<<Head(sending), FALSE>>}
        /\ sending' = Tail(sending)
        /\ UNCHANGED <<lifecycleVars, left, wire, resuming, broadcasts, started, control,
                       filling>>
-----------------------------------------------------------------------------
\* The handlers of the writes, ok telling that there was no error.
ReplyWritten(i, ok) == /\ started[i].kind = "reply"
                       /\ IF ok THEN Open ELSE stage = "reply" /\ Finish
                       /\ UNCHANGED sending
                       /\ ended' = ended \ {<<i, ok>>}

\* A pong or a broadcast: an error removes the session.
FrameWritten(i, ok) == /\ started[i].kind \in {"pong", "data"}
                       /\ IF ok THEN UNCHANGED lifecycleVars ELSE Drop
                       /\ UNCHANGED sending
                       /\ ended' = ended \ {<<i, ok>>}

\* The close frame: socket_.cancel() ends what waits in the queue, and the session is
\* removed, error or not.
CloseWrittenIfOk(i, ok) ==                                             \* mutant
  /\ started[i].kind = "close"
  /\ IF ok THEN Finish ELSE stage' = "over" /\ UNCHANGED registered
  /\ sending' = << >>
  /\ ended' = (ended \ {<<i, ok>>}) \cup {<<j, FALSE>> : j \in ToSet(sending)}

CloseWritten(i, ok) == /\ started[i].kind = "close"
                       /\ Finish
                       /\ sending' = << >>
                       /\ ended' = (ended \ {<<i, ok>>})
                                     \cup {<<j, FALSE>> : j \in ToSet(sending)}

Written(i, ok) == /\ stage # "crashed" /\ <<i, ok>> \in ended
                  /\ ReplyWritten(i, ok) \/ FrameWritten(i, ok) \/ CloseWritten(i, ok)
                  /\ UNCHANGED <<left, wire, resuming, broken, broadcasts, started, control,
                                 filling>>

OutgoingInit == /\ LifecycleInit
                /\ broadcasts = 0
                /\ started = << >> /\ left = << >>
                /\ sending = << >> /\ resuming = {} /\ ended = {}
                /\ wire = << >> /\ broken = FALSE
                /\ control = 0 /\ filling = FALSE

OutgoingNext ==
  \/ HandleFirstRequest
  \/ ReadControl
  \/ HandleControl
  \/ HandleKill
  \/ CancelSocket
  \/ ReadFails
  \/ ReadOverruns
  \/ Broadcast
  \/ Write
  \/ \E n \in 1 .. Parts : Transfer(n)
  \/ \E i \in Frames : Resume(i)
  \/ Fail
  \/ \E i \in Frames, ok \in BOOLEAN : Written(i, ok)

OutgoingSafety == OutgoingInit /\ [][OutgoingNext]_outgoingVars

\* The peer goes on reading or the connection breaks, and io threads run what is due.
\* Nothing is assumed of what the peer sends, or of the dealer.
OutgoingSpec ==
  /\ OutgoingSafety
  /\ WF_outgoingVars(Fail \/ \E n \in 1 .. Parts : Transfer(n))
  /\ \A i \in 1 .. (MaxWrites + 2) :
       /\ WF_outgoingVars(Resume(i))
       /\ \A ok \in BOOLEAN : WF_outgoingVars(Written(i, ok))
-----------------------------------------------------------------------------
\* Every variable has its type.
OutgoingTypeOK == /\ stage \in Stages /\ registered \in BOOLEAN
                  /\ broadcasts \in 0 .. MaxWrites
                  /\ started \in Seq([kind : Kinds, buffer : 0 .. (MaxWrites + 2)])
                  /\ left \in Seq(0 .. Parts) /\ Len(left) = Len(started)
                  /\ sending \in Seq(Frames) /\ resuming \subseteq Frames
                  /\ ended \subseteq Frames \X BOOLEAN
                  /\ wire \in Seq(Frames)
                  /\ control \in 0 .. (MaxWrites + 2)
                  /\ broken \in BOOLEAN /\ filling \in BOOLEAN

\* Whatever broadcasts do, the read loop's own frames keep their places: pongs and the
\* close come after the whole answer to the handshake, there is one close, and no pong
\* begins after it.  A broadcast may come before the one and after the other, since the
\* session is registered all that time (ws_session.cpp:61, 329).
LoopWritesInTurn ==
  LET kind(p) == started[wire[p]].kind
  IN \A p, q \in DOMAIN wire :
       /\ kind(p) = "reply" /\ kind(q) \in {"pong", "close"} =>
            p < q /\ left[wire[p]] = 0
       /\ kind(p) = "close" /\ kind(q) = "close" => wire[p] = wire[q]
       /\ p < q /\ kind(p) = "close" /\ kind(q) = "pong" =>
            \E r \in 1 .. (p - 1) : wire[r] = wire[q]

\* The payload of a control frame is read into memory that no pong still on its way
\* is sent from (control_.new_buffer, ws_session.cpp:157, and the buffer that the handler
\* holds, 293).
BuffersUntouched ==
  filling => \A i \in ToSet(sending) \cup resuming : started[i].buffer # control

\* If the peer reads on or its connection breaks, a session that closes gets out of the
\* registry, also when its close frame cannot be written or is cut short.  Nothing else
\* bounds how long that takes (ws_session.cpp:281-287, 325-330).
CloseEnds == stage = "closing" ~> ~registered
=============================================================================
