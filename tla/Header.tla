------------------------------- MODULE Header -------------------------------
(***************************************************************************)
(* Websocket::Header as Session uses it: what process() answers when the   *)
(* first two bytes of a frame are in, and when the rest of its header is.  *)
(* A header is a record of what its bytes say; how they say it is Framing. *)
(***************************************************************************)
EXTENDS Integers

Control  == 8 .. 10                     \* close, ping, pong
Reserved == 3 .. 7 \cup 11 .. 15

\* rsv: the three reserved bits are those of rsvc_, which is always 0 here.
FrameHeaders(opcodes, sizes) ==
  [fin : BOOLEAN, rsv : BOOLEAN, opcode : opcodes, unmasked : BOOLEAN, size : sizes]

\* process_state_1: 0 or the code to close with.
Process1(f) == IF ~f.rsv \/ f.opcode \in Reserved THEN 1002 ELSE 0

\* process_state_2.
Process2(f, newRequest) ==
  CASE f.opcode \in Control /\ ~f.fin -> 1007
    [] f.opcode \in Control /\ f.fin /\ f.size > 125 -> 1002
    [] f.opcode \notin Control /\ newRequest /\ f.opcode = 0 -> 1002
    [] f.opcode \notin Control /\ ~newRequest /\ f.opcode # 0 -> 1002
    [] OTHER -> 0
=============================================================================
