----------------------------- MODULE Publishing -----------------------------
(***************************************************************************)
(* What the dealer's publishing side promises: a request that is handed    *)
(* over is published at most once, whole and as one message of its own,    *)
(* its type first and then its chunks in order.  Publisher implements this.*)
(***************************************************************************)
EXTENDS Integers, Sequences

CONSTANTS ChunkCounts   \* how many chunks a request may have

VARIABLES handed,       \* the chunks of each request handed over, oldest first
          out           \* the messages published, each a sequence of parts

\* Part p of request r; part 0 is the type.
Part(r, p) == [request |-> r, part |-> p]

\* An empty request is published with one empty chunk.
LastPart(chunks) == IF chunks = 0 THEN 1 ELSE chunks

Message(r, chunks) == [i \in 1 .. (1 + LastPart(chunks)) |-> Part(r, i - 1)]

Published(r) == \E m \in DOMAIN out : \E i \in DOMAIN out[m] : out[m][i].request = r

PublishingInit == handed = << >> /\ out = << >>

Hand(chunks) == /\ handed' = Append(handed, chunks)
                /\ UNCHANGED out

Publish(r) == /\ ~Published(r)
              /\ out' = Append(out, Message(r, handed[r]))
              /\ UNCHANGED handed

PublishingNext == \/ \E chunks \in ChunkCounts : Hand(chunks)
                  \/ \E r \in DOMAIN handed : Publish(r)

PublishingSpec == PublishingInit /\ [][PublishingNext]_<<handed, out>>
=============================================================================
