----------------------------- MODULE Lifecycle -----------------------------
(***************************************************************************)
(* What Session promises of its life, without operations, frames or bytes: *)
(* a handshake that is read and then answered, reading, closing, and the   *)
(* end; and the session's entry in the SessionManager, which it has from   *)
(* start() until it ends or a write of it fails, and never again.  Session *)
(* implements this specification and Outgoing adds the bytes written.      *)
(***************************************************************************)

VARIABLES stage,        \* how far the session has come
          registered    \* the session is in unauthed_

lifecycleVars == <<stage, registered>>

Stages  == {"handshake", "reply", "open", "closing", "over", "crashed"}
Running == {"handshake", "reply", "open", "closing"}

\* The session's own steps.  Each waits for one operation, the next of its life.
Answer == /\ stage = "handshake" /\ stage' = "reply"
          /\ UNCHANGED registered

Open == /\ stage = "reply" /\ stage' = "open"
        /\ UNCHANGED registered

Close == /\ stage = "open" /\ stage' = "closing"
         /\ UNCHANGED registered

\* That operation was the last: the close frame is written, or an operation failed.
Finish == /\ stage \in Running /\ stage' = "over"
          /\ registered' = FALSE

\* A request without a key, or a read that leaves its chunk.
Crash == /\ stage \in {"handshake", "open"} /\ stage' = "crashed"
         /\ UNCHANGED registered

\* A pong or a broadcast could not be written; the read loop goes on.
Drop == /\ stage # "crashed"
        /\ registered' = FALSE
        /\ UNCHANGED stage

LifecycleInit == stage = "handshake" /\ registered = TRUE

LifecycleNext == Answer \/ Open \/ Close \/ Finish \/ Crash \/ Drop

LifecycleSpec == LifecycleInit /\ [][LifecycleNext]_lifecycleVars
=============================================================================
