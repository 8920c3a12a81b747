------------------------------ MODULE MCCodec ------------------------------
(***************************************************************************)
(* The byte-level units, Framing, Mask and Base64, each by itself: a       *)
(* behaviour is one of one unit, the others being left where they begin.   *)
(***************************************************************************)
EXTENDS Framing, Mask, Base64

VARIABLES unit

\* Lengths of which at most two bytes are not zero, those at the edges of the encodings
\* among them.
EdgeBytes == {1, 125, 126, 127, 128, 255}
Lengths == {[i \in 1 .. 8 |-> IF i = p THEN b ELSE IF i = q THEN c ELSE 0] :
              p \in 1 .. 8, q \in 1 .. 8, b \in EdgeBytes, c \in EdgeBytes}
             \cup {Zeros(8), [i \in 1 .. 8 |-> 255]}
FrameFlags == [fin : BOOLEAN, opcode : {0, 1, 2, 8, 9, 10}, masked : BOOLEAN]
\* What Session::write makes: fin, text or binary, no mask.
WriteFlags == [fin : {TRUE}, opcode : {1, 2}, masked : {FALSE}]
Keys == {<<1, 2, 3, 255>>}

\* All inputs of up to three bytes that are edges, and some of the 20 of a digest.
Digests == {[i \in 1 .. 20 |-> (a * i + c) % 256] : a \in {0, 1, 37, 85}, c \in {0, 1, 255}}
Inputs == UNION {[1 .. n -> {0, 1, 3, 85, 170, 255}] : n \in 0 .. 3} \cup Digests

Init == \/ /\ unit = "framing" /\ MaskInit /\ Base64Init({<< >>})
           /\ \/ FramingInit(WriteFlags, Lengths, Keys)
              \/ FramingInit(FrameFlags, {n \in Lengths : SubSeq(n, 2, 6) = Zeros(5)}, Keys)
        \/ /\ unit = "mask" /\ Base64Init({<< >>})
           /\ FramingInit(WriteFlags, {Zeros(8)}, Keys)
           /\ MaskInit
        \/ /\ unit = "base64" /\ MaskInit
           /\ FramingInit(WriteFlags, {Zeros(8)}, Keys)
           /\ Base64Init(Inputs)

Next == /\ UNCHANGED unit
        /\ \/ unit = "framing" /\ FramingNext /\ UNCHANGED <<maskVars, base64Vars>>
           \/ unit = "mask" /\ MaskNext /\ UNCHANGED <<framingVars, base64Vars>>
           \/ unit = "base64" /\ Base64Next /\ UNCHANGED <<framingVars, maskVars>>

Spec == Init /\ [][Next]_<<unit, framingVars, maskVars, base64Vars>>
=============================================================================
