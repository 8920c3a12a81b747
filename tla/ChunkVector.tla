---------------------------- MODULE ChunkVector ----------------------------
(***************************************************************************)
(* Utilities::ChunkVector: a byte vector kept as chunks of ChunkSize bytes *)
(* of which only the last may be shorter.  A vector is a record: the number *)
(* of chunks, the size of the last one, and open_.  Bytes are not kept.    *)
(***************************************************************************)
EXTENDS Integers

CONSTANT ChunkSize

ASSUME ChunkSizeAssumption == ChunkSize \in Nat \ {0}

ChunkVectorType == [count : Nat, back : 0 .. ChunkSize, open : BOOLEAN]

EmptyChunkVector == [count |-> 0, back |-> 0, open |-> TRUE]

SizeOf(b) == IF b.count = 0 THEN 0 ELSE (b.count - 1) * ChunkSize + b.back

\* new_chunk() throws logic_error on a closed vector; NeverGrowsClosed of Gather
\* says that it is never asked to.
WithNewChunk(b) == [b EXCEPT !.count = @ + 1, !.back = ChunkSize]

WithLastClosed(b, n) == IF b.count > 0 THEN [b EXCEPT !.back = n, !.open = FALSE]
                                       ELSE [b EXCEPT !.open = FALSE]
=============================================================================
