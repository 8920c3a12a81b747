----------------------------- MODULE Publisher -----------------------------
(***************************************************************************)
(* The requests of all sessions on io_strand_ and the dealer's publishing  *)
(* socket: Session::request as the calls it makes, send_open, send_more    *)
(* for every chunk but the last, send_last and send_close, of which only   *)
(* the third is without ZMQ_SNDMORE.  The socket is one for all sessions   *)
(* and puts a part in the message under way, whoever sends it.             *)
(*                                                                         *)
(* Session has a request run in one step, and tells what type it sends;    *)
(* here a request is a number and its chunks.                              *)
(***************************************************************************)
EXTENDS Integers, Sequences, SequencesExt

CONSTANTS Threads,      \* threads that run the io_service
          ChunkCounts,  \* chunks of the requests that are posted
          MaxRequests   \* bound: requests posted

ASSUME PublisherAssumption == /\ Threads \in Nat \ {0}
                              /\ ChunkCounts \subseteq Nat
                              /\ MaxRequests \in Nat

VARIABLES handed,       \* history: the chunks of each request posted
          queue,        \* requests posted and not entered in io_strand_
          running,      \* chunks sent of each request that has entered it
          assembling,   \* socket_pub_: the parts of the message under way
          out           \* history: the messages published

publisherVars == <<handed, queue, running, assembling, out>>

Promise == INSTANCE Publishing

\* Session::read_chunk posts the request of a message.
Post(chunks) == /\ Len(handed) < MaxRequests
                /\ handed' = Append(handed, chunks)
                /\ queue' = Append(queue, Len(handed'))
                /\ UNCHANGED <<running, assembling, out>>

\* The i-th request of the queue, taken by some io thread, enters the strand, which is
\* free, and calls send_open.
SendOpenUnwrapped(i) ==                                                \* mutant
  /\ i <= Threads
  /\ running' = [r \in DOMAIN running \cup {queue[i]} |->
                   IF r = queue[i] THEN 0 ELSE running[r]]
  /\ queue' = RemoveAt(queue, i)
  /\ assembling' = Append(assembling, Promise!Part(queue[i], 0))
  /\ UNCHANGED <<handed, out>>

SendOpen(i) == /\ i <= Threads
               /\ running = << >>
               /\ running' = [r \in {queue[i]} |-> 0]
               /\ queue' = RemoveAt(queue, i)
               /\ assembling' = Append(assembling, Promise!Part(queue[i], 0))
               /\ UNCHANGED <<handed, out>>

\* send_more of a chunk that is not the last.
SendMore(r) == /\ running[r] + 1 < handed[r]
               /\ running' = [running EXCEPT ![r] = @ + 1]
               /\ assembling' = Append(assembling, Promise!Part(r, running'[r]))
               /\ UNCHANGED <<handed, queue, out>>

\* send_last of the last chunk, or of an empty one, and send_close.
SendLastSilent(r) ==                                                   \* mutant
  /\ running[r] + 1 >= handed[r]
  /\ running' = [q \in DOMAIN running \ {r} |-> running[q]]
  /\ UNCHANGED <<handed, queue>>
  /\ IF handed[r] = 0 THEN UNCHANGED <<assembling, out>>
     ELSE /\ out' = Append(out, Append(assembling, Promise!Part(r, running[r] + 1)))
          /\ assembling' = << >>

SendLast(r) == /\ running[r] + 1 >= handed[r]
               /\ out' = Append(out, Append(assembling, Promise!Part(r, running[r] + 1)))
               /\ assembling' = << >>
               /\ running' = [q \in DOMAIN running \ {r} |-> running[q]]
               /\ UNCHANGED <<handed, queue>>

Send == \/ \E i \in 1 .. Len(queue) : SendOpen(i)
        \/ \E r \in DOMAIN running : SendMore(r) \/ SendLast(r)

PublisherInit == /\ handed = << >> /\ queue = << >> /\ running = << >>
                 /\ assembling = << >> /\ out = << >>

PublisherNext == (\E chunks \in ChunkCounts : Post(chunks)) \/ Send

PublisherSafety == PublisherInit /\ [][PublisherNext]_publisherVars
-----------------------------------------------------------------------------
\* Every variable has its type.
PublisherTypeOK == /\ handed \in Seq(ChunkCounts)
                   /\ queue \in Seq(DOMAIN handed)
                   /\ DOMAIN running \subseteq DOMAIN handed
                   /\ \A r \in DOMAIN running : running[r] \in Nat
                   /\ assembling \in Seq([request : Nat, part : Nat])
                   /\ out \in Seq(Seq([request : Nat, part : Nat]))

\* The parts of two requests never share a message, whatever sessions and threads they
\* come from, and an empty request does not run into the next one: what is published is
\* one whole request per message, each request once (ws_session.cpp:210-229,
\* zmq_dealer.cpp:58-104).
ImplementsPublishing == Promise!PublishingSpec
=============================================================================
