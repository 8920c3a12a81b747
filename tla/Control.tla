------------------------------ MODULE Control ------------------------------
(***************************************************************************)
(* Websocket::Control: what process() makes of a control frame whose       *)
(* payload is in.  The payload is abstracted to its size, the code in its  *)
(* first two bytes and the decoder's state after the rest.                 *)
(***************************************************************************)
EXTENDS Header

ControlPayloads(codes) == [code : codes, complete : BOOLEAN]

\* The codes process() lets through.
Known == {1000, 1001, 1002, 1003, 1007, 1008, 1009, 1010, 1011}

ReplyCode(code) ==
  IF code < 1000 \/ (code < 3000 /\ code \notin Known) \/ code > 4999
  THEN 1002 ELSE code

\* 0 or the code to close with: the reason of a close frame must be whole UTF-8.
\* A reason needs more than the two bytes of the code; applyMask of none is complete.
ProcessControl(f, p) ==
  IF f.opcode = 8 /\ f.size > 2 /\ ~p.complete THEN 1007 ELSE 0

ControlState(f) == CASE f.opcode = 8 -> "KILL" [] f.opcode = 9 -> "PING"
                     [] f.opcode = 10 -> "PONG"

\* A close frame: the code in its first two bytes, 0 when it has fewer, the payload it
\* announces and the bytes that are written after its header.
NoClose == [code |-> 0, length |-> 0, written |-> 0]

\* The reply to close frame f is as long as f: with a payload of one byte it has no code,
\* and one byte.
Answering(f, p) == [code |-> IF f.size >= 2 THEN ReplyCode(p.code) ELSE 0,
                    length |-> f.size, written |-> f.size]
=============================================================================
