-------------------------------- MODULE Mask --------------------------------
(***************************************************************************)
(* Utilities::Websocket::applyMask over the reads of one masked frame.     *)
(* A byte is abstracted to which of the four bytes of the mask it has met: *)
(* unmasking a frame is right when byte i has met mask byte i % 4, once.   *)
(* Gather keeps of this only the offset (its MaskAfter).                   *)
(***************************************************************************)
EXTENDS Integers, Sequences

CONSTANTS ReadSizes,    \* how many bytes one call is given
          MaxBytes      \* bound: bytes of the frame

ASSUME MaskAssumption == ReadSizes \subseteq Nat /\ MaxBytes \in Nat

VARIABLES offset,       \* mask_offset_, an uint8_t
          met           \* history: the mask byte each byte of the frame has met

maskVars == <<offset, met>>

\* Of n bytes the first groups of four take the mask from the offset on, and each of the
\* rest moves it on.
Grouped(n) == 4 * (n \div 4)

MaskByteFromStart(n, o, i) == IF i < Grouped(n) THEN i % 4                \* mutant
                              ELSE (o + (i - Grouped(n))) % 4
MaskByte(n, o, i) == IF i < Grouped(n) THEN (o + (i % 4)) % 4
                     ELSE (o + (i - Grouped(n))) % 4

OffsetAfter(n, o) == (o + (n - Grouped(n))) % 256

ApplyMask(n) == /\ Len(met) + n <= MaxBytes
                /\ met' = met \o [i \in 1 .. n |-> MaskByte(n, offset, i - 1)]
                /\ offset' = OffsetAfter(n, offset)

MaskInit == met = << >> /\ offset = 0

MaskNext == \E n \in ReadSizes : ApplyMask(n)

MaskSpec == MaskInit /\ [][MaskNext]_maskVars
-----------------------------------------------------------------------------
\* However a frame is cut into reads, each byte is unmasked with the mask byte of its
\* place in the frame, past the wrap of the offset too (websocket.cpp:114-137).
EachByteItsMask == \A i \in DOMAIN met : met[i] = (i - 1) % 4
=============================================================================
