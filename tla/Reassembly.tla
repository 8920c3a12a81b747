---------------------------- MODULE Reassembly ----------------------------
(***************************************************************************)
(* What the data path of a session promises, without chunks, reads or      *)
(* header bytes: the payloads of the frames of one message are added up,   *)
(* and the final frame hands the whole message over, packed as tightly as  *)
(* its chunks allow.  Nothing limits what frames may announce, and a       *)
(* message whose sum does not fit the counter ends the promise: it is      *)
(* never handed over, and nothing after it is.  Gather implements this     *)
(* specification.                                                          *)
(***************************************************************************)
EXTENDS Integers, Sequences

CONSTANTS ChunkSize,    \* bytes in a full chunk (CHUNK_VECTOR_DEFAULT_SIZE)
          Payloads,     \* the payload sizes a frame may have
          Limit         \* the sums the counter of a message can hold are below it

VARIABLES partial,      \* bytes of the message under way, in complete frames
          broken,       \* a message has announced Limit bytes or more
          out           \* the messages handed over, oldest first

\* n bytes fill k chunks with no chunk to spare: frames of 1600, 250 and 1000 bytes
\* "as tightly as possible" take three chunks of 1000 (ws_gather.hpp:17-28).
Packs(k, n) == IF n = 0 THEN k = 0
               ELSE (k - 1) * ChunkSize < n /\ n <= k * ChunkSize

Init == partial = 0 /\ broken = FALSE /\ out = << >>

MoreFrame(n) == /\ ~broken /\ partial + n < Limit
                /\ partial' = partial + n
                /\ UNCHANGED <<broken, out>>

LastFrame(n) == /\ ~broken /\ partial + n < Limit
                /\ partial' = 0
                /\ \E k \in 0 .. (partial + n) :
                     /\ Packs(k, partial + n)
                     /\ out' = Append(out, [size |-> partial + n, chunks |-> k])
                /\ UNCHANGED broken

Overflow(n) == /\ ~broken /\ partial + n >= Limit
               /\ broken' = TRUE
               /\ UNCHANGED <<partial, out>>

Next == \E n \in Payloads : MoreFrame(n) \/ LastFrame(n) \/ Overflow(n)

Spec == Init /\ [][Next]_<<partial, broken, out>>
=============================================================================
