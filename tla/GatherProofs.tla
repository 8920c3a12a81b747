---------------------------- MODULE GatherProofs ----------------------------
(***************************************************************************)
(* Gather, for every chunk size, every set of payload sizes and every      *)
(* bound: its invariants, and that it implements Reassembly.  The          *)
(* inductive invariant GatherInv says what Loaded says of the Gather and   *)
(* the buffer between the two halves of read_chunk, for the two places     *)
(* where the handler returns: with a read under way (Reading) and between  *)
(* two frames (Between).  Both allow for a total_size_ that has wrapped: a *)
(* frame that makes it wrap is never Full, and its read does not fit.      *)
(***************************************************************************)
EXTENDS Gather, TLAPS

\* The buffer's chunks are full, and hold `consumed' bytes with no chunk to spare.
Tight(b, consumed) == /\ b.open
                      /\ b.count > 0 => b.back = ChunkSize
                      /\ Promise!Packs(b.count, consumed)

\* The mask byte the next byte of the frame meets is the one of its offset.
Aligned(h, g) == ~h.unmasked => g.mask % 4 = (g.consumed - whole) % 4

\* total_size_ when the frames have announced a bytes: it has wrapped at most once.
Wrapped(a) == IF a < U64 THEN a ELSE a - U64

\* The bytes that arrived are counted, and read_chunk has not decided what is next.
\* The frames of the message, the one under way included, have announced a bytes.
Loaded(h, g, b, a) == /\ h \in HeaderType
                      /\ g \in GatherType
                      /\ b \in ChunkVectorType
                      /\ a \in Nat /\ a - whole \in Payloads
                      /\ g.size = Wrapped(a)
                      /\ whole <= g.consumed /\ g.consumed <= a
                      /\ a >= U64 => g.consumed = whole
                      /\ Tight(b, g.consumed)
                      /\ b.count * ChunkSize <= Memory
                      /\ Aligned(h, g)

\* The frames have announced less than 2^64 bytes: the read ends where the frame does,
\* or the chunk.
ReadingFits == /\ gather.consumed + gather.next <= announced
               /\ gather.consumed + gather.next <= buffer.count * ChunkSize
               /\ \/ gather.consumed + gather.next = announced
                  \/ gather.consumed + gather.next = buffer.count * ChunkSize

\* They have announced more: total_size_ has wrapped and the read is for all of it.
ReadingOver == /\ gather.consumed = whole
               /\ gather.consumed + gather.next = announced

Reading == /\ newRequest = header.fin
           /\ announced - whole \in Payloads
           /\ gather.size = Wrapped(announced)
           /\ whole <= gather.consumed /\ gather.consumed < announced
           /\ buffer.open /\ buffer.count > 0 /\ buffer.back = ChunkSize
           /\ buffer.count * ChunkSize <= Memory
           /\ (buffer.count - 1) * ChunkSize <= gather.consumed
           /\ gather.pos = gather.consumed
           /\ gather.next > 0
           /\ announced < U64 => ReadingFits
           /\ announced >= U64 => ReadingOver
           /\ Aligned(header, gather)

Between == /\ announced < U64
           /\ newRequest => whole = 0
           /\ ~newRequest => /\ gather.size = whole /\ gather.consumed = whole
                             /\ Tight(buffer, whole)
                             /\ buffer.count * ChunkSize <= Memory

GatherInv == /\ GatherTypeOK
             /\ phase = "payload" => Reading
             /\ phase = "header" => Between
-----------------------------------------------------------------------------
\* A vector of k full chunks has k * ChunkSize bytes.
LEMMA FullSize ==
  ASSUME NEW b \in ChunkVectorType, b.count > 0 => b.back = ChunkSize
  PROVE  SizeOf(b) = b.count * ChunkSize
  BY ChunkSizeAssumption DEF SizeOf, ChunkVectorType

\* Division by the chunk size, as the provers need it: on variables.
LEMMA Remainder ==
  ASSUME NEW q \in Int, NEW r \in 0 .. (ChunkSize - 1)
  PROVE  (q * ChunkSize + r) % ChunkSize = r
  BY ChunkSizeAssumption

\* close_last_chunk leaves a vector that fits the message exactly (gather.cpp:35).
LEMMA LastChunkFits ==
  ASSUME NEW k \in Nat \ {0}, NEW n \in Nat,
         (k - 1) * ChunkSize < n, n <= k * ChunkSize
  PROVE  /\ LastChunkSize(n) \in 0 .. ChunkSize
         /\ (k - 1) * ChunkSize + LastChunkSize(n) = n
<1> DEFINE r == n - 1 - (k - 1) * ChunkSize
<1>1. r \in 0 .. (ChunkSize - 1) /\ ChunkSize + n - 1 = k * ChunkSize + r
  BY ChunkSizeAssumption
<1>2. (k * ChunkSize + r) % ChunkSize = r
  <2> HIDE DEF r
  <2> QED  BY <1>1, Remainder
<1>3. LastChunkSize(n) = r + 1
  BY <1>1, <1>2 DEF LastChunkSize
<1> QED  BY <1>1, <1>3, ChunkSizeAssumption

\* A read of n bytes moves the mask offset by n, modulo 4: the groups of four, which
\* leave it alone, do not matter, and neither does the wrap of the uint8_t.
LEMMA MaskStep ==
  ASSUME NEW m \in 0 .. 255, NEW n \in Nat, NEW a \in Int, m % 4 = a % 4
  PROVE  ((m + (n % 4)) % 256) % 4 = (a + n) % 4
<1>1. ((m + (n % 4)) % 256) % 4 = (m + (n % 4)) % 4
  OBVIOUS
<1>2. (m + (n % 4)) % 4 = (m + n) % 4
  OBVIOUS
<1>3. (m + n) % 4 = (a + n) % 4
  OBVIOUS
<1> QED  BY <1>1, <1>2, <1>3

\* A buffer that is not open is never grown, and growing one makes room.
LEMMA GrownHasRoom ==
  ASSUME NEW b \in ChunkVectorType, NEW c \in Nat, Tight(b, c)
  PROVE  LET d == Grown(b, c)
         IN /\ d \in ChunkVectorType
            /\ d.open /\ d.count > 0 /\ d.back = ChunkSize
            /\ (d.count - 1) * ChunkSize <= c /\ c < d.count * ChunkSize
<1>1. SizeOf(b) = b.count * ChunkSize
  BY FullSize DEF Tight
<1> DEFINE d == Grown(b, c)
<1>2. CASE c = SizeOf(b)
  <2>1. d = [count |-> b.count + 1, back |-> ChunkSize, open |-> b.open]
    BY <1>2 DEF Grown, WithNewChunk, ChunkVectorType
  <2>2. (b.count + 1) * ChunkSize = b.count * ChunkSize + ChunkSize
    BY ChunkSizeAssumption DEF ChunkVectorType
  <2>3. d \in ChunkVectorType /\ d.open /\ d.count > 0 /\ d.back = ChunkSize
    BY <2>1, ChunkSizeAssumption DEF ChunkVectorType, Tight
  <2>4. d.count - 1 = b.count /\ d.count = b.count + 1
    BY <2>1 DEF ChunkVectorType
  <2> HIDE DEF d
  <2>5. (d.count - 1) * ChunkSize <= c /\ c < d.count * ChunkSize
    BY <1>1, <1>2, <2>2, <2>4, ChunkSizeAssumption DEF ChunkVectorType
  <2> QED  BY <2>3, <2>5 DEF d
<1>3. CASE c # SizeOf(b)
  BY <1>1, <1>3, ChunkSizeAssumption
  DEF Grown, ChunkVectorType, Tight, Promise!Packs
<1> QED  BY <1>2, <1>3

\* The history variables keep their types, and what they had is kept by ReadOn.
HistoryOK == whole \in Nat /\ announced \in Nat /\ posted \in Seq([size : Nat, chunks : Nat])

\* The bytes of the message under way are in its chunks, which are in memory.
LEMMA LoadedInMemory ==
  ASSUME NEW h, NEW g, NEW b, NEW a, HistoryOK, Loaded(h, g, b, a)
  PROVE  /\ g.consumed <= b.count * ChunkSize
         /\ g.consumed < U64 /\ whole < U64
  BY GatherAssumption, MemoryAssumption, ChunkSizeAssumption
  DEF Loaded, Tight, Promise!Packs, GatherType, ChunkVectorType, HistoryOK

\* A frame that makes total_size_ wrap is never complete: it is larger than the sum left.
LEMMA FullFits ==
  ASSUME NEW h, NEW g, NEW b, NEW a, HistoryOK, Loaded(h, g, b, a), Full(g)
  PROVE  a < U64 /\ g.size = a /\ g.consumed = a
<1>1. /\ a \in Nat /\ a - whole < U64 /\ whole \in Nat /\ U64 \in Nat
      /\ g.consumed = g.size /\ g.size = Wrapped(a)
      /\ a >= U64 => g.consumed = whole
  BY GatherAssumption DEF Loaded, HistoryOK, Full
<1>2. a < U64
  <2> SUFFICES ASSUME a >= U64 PROVE FALSE
    BY <1>1
  <2>1. whole = a - U64
    BY <1>1 DEF Wrapped
  <2> QED  BY <1>1, <2>1
<1> QED  BY <1>1, <1>2 DEF Wrapped

\* Addition as an uint64_t does it, when it goes past the end.
LEMMA Carry ==
  ASSUME NEW x \in Int, U64 <= x, x < 2 * U64
  PROVE  x % U64 = x - U64
<1>1. U64 \in Nat /\ U64 > 0 /\ x - U64 \in 0 .. (U64 - 1)
  BY GatherAssumption
<1>2. x = 1 * U64 + (x - U64)
  BY <1>1
<1>3. \A m \in Nat \ {0}, q \in Int : \A y \in 0 .. (m - 1) : (q * m + y) % m = y
  OBVIOUS
<1>4. (1 * U64 + (x - U64)) % U64 = x - U64
  BY <1>1, <1>3
<1> QED  BY <1>2, <1>4

\* Subtraction as an uint64_t does it, when it goes below zero.
LEMMA Borrow ==
  ASSUME NEW x \in Int, -U64 < x, x < 0
  PROVE  x % U64 = x + U64
<1>1. U64 \in Nat /\ U64 > 0 /\ x + U64 \in 0 .. (U64 - 1)
  BY GatherAssumption
<1>2. x = (-1) * U64 + (x + U64)
  BY <1>1
<1>3. \A m \in Nat \ {0}, q \in Int : \A y \in 0 .. (m - 1) : (q * m + y) % m = y
  OBVIOUS
<1>4. ((-1) * U64 + (x + U64)) % U64 = x + U64
  BY <1>1, <1>3
<1> QED  BY <1>2, <1>4

\* While the frame is incomplete the next read is placed and sized as Reading says.
LEMMA ReadOnStep ==
  ASSUME NEW h, NEW g, NEW b, HistoryOK, NEW a, Loaded(h, g, b, a), ~Full(g),
         header' = h, newRequest' = h.fin, announced' = a, ReadOn(g, b)
  PROVE  GatherInv'
<1> DEFINE d == Grown(b, g.consumed)
           x == NextConsume(g, d)
<1>1. /\ d \in ChunkVectorType
      /\ d.open /\ d.count > 0 /\ d.back = ChunkSize
      /\ (d.count - 1) * ChunkSize <= g.consumed
      /\ g.consumed < d.count * ChunkSize
  BY GrownHasRoom DEF Loaded, GatherType
<1>2. SizeOf(d) = d.count * ChunkSize
  BY <1>1, FullSize
<1>3. /\ phase' = "payload" /\ buffer' = d /\ SizeOf(d) <= Memory
      /\ gather' = [g EXCEPT !.pos = g.consumed, !.next = x]
      /\ whole' = whole /\ posted' = posted
  BY DEF ReadOn
<1>4. d.count * ChunkSize \in Nat /\ d.count * ChunkSize < U64
  BY <1>1, <1>2, <1>3, ChunkSizeAssumption, MemoryAssumption, GatherAssumption
  DEF ChunkVectorType
<1>5. /\ g.size \in Nat /\ g.consumed \in Nat /\ a \in Nat /\ g.size = Wrapped(a)
      /\ U64 \in Nat \ {0} /\ g.consumed <= a /\ g.consumed # g.size
      /\ a >= U64 => g.consumed = whole
      /\ a - whole < U64 /\ whole < U64 /\ whole \in Nat
  BY GatherAssumption, LoadedInMemory DEF Loaded, GatherType, Full, HistoryOK
<1> HIDE DEF d
<1>6. ASSUME a < U64
      PROVE  /\ x \in Nat /\ x > 0 /\ g.consumed < a
             /\ g.consumed + x <= a
             /\ g.consumed + x <= d.count * ChunkSize
             /\ g.consumed + x = a \/ g.consumed + x = d.count * ChunkSize
  <2>1. g.size = a /\ g.consumed < a
    BY <1>5, <1>6 DEF Wrapped
  <2>2. (g.size - g.consumed) % U64 = g.size - g.consumed
    BY <1>5, <1>6, <2>1
  <2>3. /\ x \in Nat /\ x > 0
        /\ g.consumed + x <= a
        /\ g.consumed + x <= d.count * ChunkSize
        /\ g.consumed + x = a \/ g.consumed + x = d.count * ChunkSize
    BY <1>1, <1>2, <1>4, <1>5, <2>1, <2>2 DEF NextConsume
  <2> QED  BY <1>6, <2>1, <2>3
<1>7. ASSUME a >= U64
      PROVE  /\ x \in Nat /\ x > 0 /\ g.consumed < a
             /\ g.consumed = whole /\ g.consumed + x = a
  <2>1. g.size = a - U64 /\ g.size < g.consumed
    BY <1>5, <1>7 DEF Wrapped
  <2>2. -U64 < g.size - g.consumed /\ g.size - g.consumed < 0
    BY <1>5, <1>7, <2>1
  <2>3. (g.size - g.consumed) % U64 = (g.size - g.consumed) + U64
    BY <1>5, <2>2, Borrow
  <2>4. x = (g.size - g.consumed) % U64
    BY <1>1, <1>2, <1>4, <1>5, <2>1 DEF NextConsume
  <2>5. x \in Nat /\ x > 0 /\ g.consumed + x = a
    BY <1>5, <1>7, <2>1, <2>3, <2>4
  <2> QED  BY <1>5, <1>7, <2>5
<1> HIDE DEF x
<1>8. /\ x \in Nat /\ x > 0 /\ g.consumed < a
      /\ a < U64 => /\ g.consumed + x <= a
                    /\ g.consumed + x <= d.count * ChunkSize
                    /\ g.consumed + x = a \/ g.consumed + x = d.count * ChunkSize
      /\ a >= U64 => g.consumed = whole /\ g.consumed + x = a
  BY <1>5, <1>6, <1>7
<1>9. gather' \in GatherType
  BY <1>3, <1>5, <1>8 DEF Loaded, GatherType
<1>10. GatherTypeOK'
  BY <1>1, <1>3, <1>5, <1>9 DEF GatherTypeOK, HistoryOK, Loaded, HeaderType
<1>11. /\ gather'.size = g.size /\ gather'.consumed = g.consumed
       /\ gather'.mask = g.mask /\ gather'.pos = g.consumed /\ gather'.next = x
  BY <1>3 DEF Loaded, GatherType
<1>12. Aligned(header, gather)'
  BY <1>3, <1>11 DEF Loaded, Aligned
<1>13. (announced < U64 => ReadingFits)' /\ (announced >= U64 => ReadingOver)'
  BY <1>3, <1>8, <1>11 DEF ReadingFits, ReadingOver
<1>14. Reading'
  BY <1>1, <1>2, <1>3, <1>5, <1>8, <1>11, <1>12, <1>13 DEF Reading, Loaded, Wrapped
<1> QED  BY <1>3, <1>10, <1>14 DEF GatherInv

\* A frame that is not the last leaves Gather and buffer ready for the next one.
LEMMA EndFrameStep ==
  ASSUME NEW h, NEW g, NEW b, HistoryOK, NEW a, Loaded(h, g, b, a), Full(g), ~h.fin,
         header' = h, newRequest' = h.fin, announced' = a, EndFrame(g, b)
  PROVE  GatherInv'
<1>1. /\ gather' = [g EXCEPT !.next = 0] /\ buffer' = b /\ phase' = "header"
      /\ whole' = g.consumed /\ posted' = posted /\ newRequest' = FALSE
  BY DEF EndFrame, Loaded, HeaderType
<1>2. gather' \in GatherType /\ gather'.size = g.size /\ gather'.consumed = g.consumed
  BY <1>1 DEF Loaded, GatherType
<1>3. GatherTypeOK'
  BY <1>1, <1>2 DEF GatherTypeOK, HistoryOK, Loaded, GatherType
<1>4. Tight(buffer, whole)'
  BY <1>1 DEF Tight, Loaded
<1>5. a < U64
  BY FullFits
<1>6. Between'
  BY <1>1, <1>2, <1>4, <1>5 DEF Between, Loaded, Full
<1> QED  BY <1>1, <1>3, <1>6 DEF GatherInv

\* The buffer of a finished message has exactly the message's bytes, tightly packed.
LEMMA ClosedFits ==
  ASSUME NEW h, NEW g, NEW b, NEW a, HistoryOK, Loaded(h, g, b, a), Full(g)
  PROVE  LET d == WithLastClosed(b, LastChunkSize(g.size))
         IN /\ d \in ChunkVectorType
            /\ d.count = b.count
            /\ SizeOf(d) = g.size
            /\ Promise!Packs(d.count, g.size)
<1> DEFINE n == LastChunkSize(g.size)
           d == WithLastClosed(b, n)
<1>1. b \in ChunkVectorType /\ g.size \in Nat /\ Promise!Packs(b.count, g.size)
  BY DEF Loaded, GatherType, Tight, Full
<1>2. CASE b.count = 0
  <2> HIDE DEF n
  <2>1. d = [b EXCEPT !.open = FALSE]
    BY <1>1, <1>2 DEF WithLastClosed, ChunkVectorType
  <2>2. g.size = 0
    BY <1>1, <1>2, ChunkSizeAssumption DEF Promise!Packs
  <2> QED  BY <1>1, <1>2, <2>1, <2>2 DEF SizeOf, ChunkVectorType, n
<1>3. CASE b.count > 0
  <2>1. (b.count - 1) * ChunkSize < g.size /\ g.size <= b.count * ChunkSize
    BY <1>1, <1>3 DEF Promise!Packs
  <2>2. n \in 0 .. ChunkSize /\ (b.count - 1) * ChunkSize + n = g.size
    BY <1>1, <1>3, <2>1, LastChunkFits DEF ChunkVectorType
  <2> HIDE DEF n
  <2>3. d = [b EXCEPT !.back = n, !.open = FALSE]
    BY <1>1, <1>3 DEF WithLastClosed, ChunkVectorType
  <2>4. d \in ChunkVectorType /\ d.count = b.count /\ d.back = n
    BY <1>1, <2>2, <2>3 DEF ChunkVectorType
  <2> HIDE DEF d
  <2>5. SizeOf(d) = (b.count - 1) * ChunkSize + n
    BY <1>3, <2>4 DEF SizeOf
  <2> QED  BY <1>1, <2>2, <2>4, <2>5 DEF d, n
<1> QED  BY <1>1, <1>2, <1>3 DEF ChunkVectorType

\* The end of a message leaves everything ready for a new one.
LEMMA EndMessageStep ==
  ASSUME NEW h, NEW g, NEW b, HistoryOK, NEW a, Loaded(h, g, b, a), Full(g), h.fin,
         header' = h, newRequest' = h.fin, announced' = a, EndMessage(g, b)
  PROVE  GatherInv'
<1> DEFINE d == WithLastClosed(b, LastChunkSize(g.size))
<1>1. /\ d \in ChunkVectorType /\ SizeOf(d) = g.size
  BY ClosedFits
<1> HIDE DEF d
<1>2. /\ gather' = [g EXCEPT !.next = 0] /\ phase' = "header" /\ buffer' = d
      /\ whole' = 0 /\ newRequest' = TRUE
      /\ posted' = Append(posted, [size |-> SizeOf(d), chunks |-> d.count])
  BY DEF EndMessage, Loaded, HeaderType, d
<1>3. gather' \in GatherType
  BY <1>2 DEF Loaded, GatherType
<1>4. [size |-> SizeOf(d), chunks |-> d.count] \in [size : Nat, chunks : Nat]
  BY <1>1 DEF ChunkVectorType, Loaded, GatherType
<1>5. GatherTypeOK'
  BY <1>1, <1>2, <1>3, <1>4 DEF GatherTypeOK, HistoryOK, Loaded
<1>6. a < U64
  BY FullFits
<1> QED  BY <1>2, <1>5, <1>6 DEF GatherInv, Between

\* The handler's first half, in read_chunk: the read that was asked for is counted.
LEMMA ChunkReadLoads ==
  ASSUME GatherInv, phase = "payload", announced < U64, NEW t \in TextStates
  PROVE  Loaded(header, Consumed(header, gather, gather.next, t), buffer, announced)
<1> DEFINE n == gather.next
           g == Consumed(header, gather, n, t)
<1>1. /\ gather \in GatherType /\ header \in HeaderType /\ buffer \in ChunkVectorType
      /\ whole \in Nat /\ announced \in Nat
  BY DEF GatherInv, GatherTypeOK
<1>2. Reading /\ ReadingFits
  BY DEF GatherInv, Reading
<1>3. n \in Nat /\ n > 0 /\ gather.consumed + n \in Nat
  BY <1>1, <1>2 DEF Reading, GatherType
<1>4. gather.consumed + n < U64
  BY <1>1, <1>2, <1>3, GatherAssumption DEF ReadingFits, GatherType
<1>5. (gather.consumed + n) % U64 = gather.consumed + n
  BY <1>3, <1>4, GatherAssumption
<1> HIDE DEF n
<1>6. g = [gather EXCEPT !.text = t, !.mask = MaskAfter(header, gather.mask, n),
                         !.consumed = gather.consumed + n]
  <2>1. n # 0
    BY <1>3
  <2>2. g = [gather EXCEPT !.text = t, !.mask = MaskAfter(header, @, n),
                           !.consumed = (@ + n) % U64]
    BY <2>1, Zenon DEF Consumed
  <2> QED  BY <1>1, <1>5, <2>2 DEF GatherType
<1>7. MaskAfter(header, gather.mask, n) \in 0 .. 255
  BY <1>1, <1>3 DEF MaskAfter, GatherType
<1>8. g \in GatherType
  BY <1>1, <1>3, <1>6, <1>7, ZenonT(60) DEF GatherType
<1>9. /\ g.size = gather.size /\ g.consumed = gather.consumed + n
      /\ g.mask = MaskAfter(header, gather.mask, n)
  BY <1>1, <1>6 DEF GatherType
<1> HIDE DEF g
<1>10. Aligned(header, g)
  <2> SUFFICES ASSUME ~header.unmasked
               PROVE  g.mask % 4 = (g.consumed - whole) % 4
    BY DEF Aligned
  <2>1. gather.mask % 4 = (gather.consumed - whole) % 4
    BY <1>2 DEF Reading, Aligned
  <2>2. gather.mask \in 0 .. 255 /\ gather.consumed - whole \in Int
    BY <1>1 DEF GatherType
  <2>3. ((gather.mask + (n % 4)) % 256) % 4 = ((gather.consumed - whole) + n) % 4
    BY <2>1, <2>2, <1>3, MaskStep, ZenonT(60)
  <2>4. (gather.consumed - whole) + n = g.consumed - whole
    BY <1>1, <1>3, <1>9 DEF GatherType
  <2> QED  BY <1>9, <2>3, <2>4 DEF MaskAfter
<1>11. Tight(buffer, g.consumed)
  <2>1. g.consumed = announced \/ g.consumed = buffer.count * ChunkSize
    BY <1>2, <1>9 DEF ReadingFits, n
  <2> QED  BY <1>1, <1>2, <1>3, <1>9, <2>1, ChunkSizeAssumption
           DEF Reading, ReadingFits, Tight, Promise!Packs, ChunkVectorType, GatherType, n
<1>12. /\ whole <= g.consumed /\ g.consumed <= announced
       /\ g.size = Wrapped(announced)
  BY <1>1, <1>2, <1>3, <1>9 DEF Reading, ReadingFits, GatherType, n
<1>13. /\ announced - whole \in Payloads /\ buffer.count * ChunkSize <= Memory
       /\ ~(announced >= U64)
  BY <1>1, <1>2, GatherAssumption DEF Reading
<1> QED  BY <1>1, <1>8, <1>10, <1>11, <1>12, <1>13 DEF Loaded, n, g

\* The same in handle_read_header: the frame's size is added, and nothing is counted.
LEMMA FrameLoads ==
  ASSUME GatherInv, phase = "header", NEW n \in Payloads, NEW fin \in BOOLEAN,
         NEW opcode \in Opcodes, NEW unmasked \in BOOLEAN,
         NEW t
  PROVE  LET h == [fin |-> fin, binary |-> opcode = 2, unmasked |-> unmasked]
         IN Loaded(h, Consumed(h, GatherMore(MessageGather, n), 0, t), MessageBuffer,
                   whole + n)
<1> DEFINE h == [fin |-> fin, binary |-> opcode = 2, unmasked |-> unmasked]
           m == MessageGather
           g == GatherMore(m, n)
           b == MessageBuffer
<1>1. gather \in GatherType /\ buffer \in ChunkVectorType /\ whole \in Nat /\ Between
  BY DEF GatherInv, GatherTypeOK
<1>2. h \in HeaderType
  BY DEF HeaderType
<1>3. n \in Nat /\ n < U64
  BY GatherAssumption
<1>4. /\ m \in GatherType /\ m.size = whole /\ m.consumed = whole
      /\ b \in ChunkVectorType /\ Tight(b, whole) /\ b.count * ChunkSize <= Memory
  <2>1. CASE newRequest
    BY <1>1, <2>1, ChunkSizeAssumption, GatherAssumption
    DEF MessageGather, MessageBuffer, GatherReset, EmptyChunkVector, GatherType,
        ChunkVectorType, TextStates, Tight, Promise!Packs, Between
  <2>2. CASE ~newRequest
    BY <1>1, <2>2 DEF MessageGather, MessageBuffer, Between
  <2> QED  BY <2>1, <2>2
<1> HIDE DEF m, b
<1>5. whole < U64
  <2>1. whole <= b.count * ChunkSize
    BY <1>1, <1>4, ChunkSizeAssumption DEF Tight, Promise!Packs, ChunkVectorType
  <2> QED  BY <1>1, <1>4, <2>1, GatherAssumption, MemoryAssumption, ChunkSizeAssumption
           DEF ChunkVectorType
<1>6. (whole + n) % U64 = Wrapped(whole + n) /\ Wrapped(whole + n) \in Nat
  <2>1. CASE whole + n < U64
    BY <1>1, <1>3, <2>1, GatherAssumption DEF Wrapped
  <2>2. CASE whole + n >= U64
    BY <1>1, <1>3, <1>5, <2>2, Carry, GatherAssumption DEF Wrapped
  <2> QED  BY <1>1, <1>3, <2>1, <2>2, GatherAssumption
<1>7. g = [m EXCEPT !.size = Wrapped(whole + n), !.mask = 0]
  BY <1>4, <1>6 DEF GatherMore
<1> HIDE DEF g
<1>8. /\ g \in GatherType /\ g.size = Wrapped(whole + n)
      /\ g.consumed = whole /\ g.mask = 0
  <2>1. 0 \in 0 .. 255
    OBVIOUS
  <2> QED  BY <1>4, <1>6, <1>7, <2>1 DEF GatherType
<1>9. Loaded(h, g, b, whole + n)
  <2>1. (whole + n) - whole = n /\ g.consumed - whole = 0 /\ whole + n \in Nat
    BY <1>1, <1>3, <1>8
  <2>2. Aligned(h, g)
    BY <1>8, <2>1 DEF Aligned
  <2> QED  BY <1>1, <1>2, <1>3, <1>4, <1>8, <2>1, <2>2 DEF Loaded
<1> QED  BY <1>9 DEF Consumed, g, m, b

\* The state of Reassembly, as Gather has it.
promised == <<whole, announced >= U64, posted>>

\* A step that hands nothing over and ends no frame is a stutter of Reassembly, or the
\* frame with which the message announces 2^64 bytes.
LEMMA QuietStep ==
  ASSUME HistoryOK, announced < U64, NEW a \in Nat, a - whole \in Payloads,
         announced' = a, whole' = whole, posted' = posted
  PROVE  [Promise!Next]_promised
<1>1. CASE a < U64
  <2>1. (announced >= U64) = FALSE /\ (announced >= U64)' = FALSE
    BY <1>1, GatherAssumption DEF HistoryOK
  <2> QED  BY <2>1 DEF promised
<1>2. CASE a >= U64
  <2>1. ~(announced >= U64) /\ (announced >= U64)' = TRUE
    BY <1>2, GatherAssumption DEF HistoryOK
  <2>2. whole + (a - whole) >= U64
    BY <1>2 DEF HistoryOK
  <2>3. Promise!Overflow(a - whole)
    BY <2>1, <2>2 DEF Promise!Overflow
  <2> QED  BY <2>3 DEF Promise!Next
<1> QED  BY <1>1, <1>2, GatherAssumption

\* What one step of read_chunk does to a loaded Gather: both what GatherInv needs and
\* the abstract step of Reassembly it stands for.
LEMMA ReadChunkStep ==
  ASSUME HistoryOK, announced < U64, NEW h, NEW g, NEW b, NEW n \in Nat, NEW a \in Nat,
         \A t \in TextsAfter(h, g, n) : Loaded(h, Consumed(h, g, n, t), b, a),
         announced' = a, ReadChunk(h, g, b, n)
  PROVE  GatherInv' /\ [Promise!Next]_promised
<1>1. PICK t \in TextsAfter(h, g, n) :
         LET c == Consumed(h, g, n, t)
         IN /\ header' = h
            /\ newRequest' = h.fin
            /\ \/ Rejects(h, c, n) /\ Reject(c, b)
               \/ ~Rejects(h, c, n) /\ Full(c) /\ ~h.fin /\ EndFrame(c, b)
               \/ ~Rejects(h, c, n) /\ Full(c) /\ h.fin /\ EndMessage(c, b)
               \/ ~Rejects(h, c, n) /\ ~Full(c) /\ ReadOn(c, b)
  BY DEF ReadChunk
<1> DEFINE c == Consumed(h, g, n, t)
           x == a - whole
<1>2. Loaded(h, c, b, a)
  OBVIOUS
<1>3. header' = h /\ newRequest' = h.fin
  BY <1>1
<1> HIDE DEF c, x
<1>4. x \in Payloads /\ whole + x = a /\ ~(announced >= U64)
  BY <1>2, GatherAssumption DEF Loaded, HistoryOK, x
<1>5. CASE Reject(c, b)
  <2>1. GatherTypeOK' /\ phase' = "stopped"
    BY <1>2, <1>3, <1>5 DEF Reject, GatherTypeOK, HistoryOK, Loaded, HeaderType
  <2>2. [Promise!Next]_promised
    BY <1>4, <1>5, QuietStep DEF Reject, x
  <2> QED  BY <2>1, <2>2 DEF GatherInv
<1>6. CASE Full(c) /\ ~h.fin /\ EndFrame(c, b)
  <2>1. GatherInv'
    BY <1>2, <1>3, <1>6, EndFrameStep
  <2>2. a < U64 /\ c.consumed = a
    BY <1>2, <1>6, FullFits
  <2>3. whole' = whole + x /\ posted' = posted /\ whole + x < U64
    BY <1>4, <1>6, <2>2 DEF EndFrame
  <2>4. (announced >= U64)' = (announced >= U64)
    BY <1>4, <2>2, GatherAssumption
  <2>5. Promise!MoreFrame(x)
    BY <1>4, <2>3, <2>4 DEF Promise!MoreFrame
  <2> QED  BY <1>4, <2>1, <2>5 DEF Promise!Next
<1>7. CASE Full(c) /\ h.fin /\ EndMessage(c, b)
  <2>1. GatherInv'
    BY <1>2, <1>3, <1>7, EndMessageStep
  <2> DEFINE d == WithLastClosed(b, LastChunkSize(c.size))
  <2>2. a < U64 /\ c.size = a
    BY <1>2, <1>7, FullFits
  <2>3. /\ d \in ChunkVectorType /\ SizeOf(d) = a /\ Promise!Packs(d.count, a)
    BY <1>2, <1>7, <2>2, ClosedFits
  <2> HIDE DEF d
  <2>4. whole' = 0 /\ posted' = Append(posted, [size |-> a, chunks |-> d.count])
    BY <1>7, <2>3 DEF EndMessage, d
  <2>5. d.count \in 0 .. a
    <3>1. CASE a = 0
      BY <2>3, <3>1 DEF Promise!Packs
    <3>2. CASE a > 0
      <4>1. d.count - 1 < a \/ d.count = 0
        BY <2>3, <3>2, ChunkSizeAssumption DEF Promise!Packs, ChunkVectorType
      <4> QED  BY <2>3, <4>1 DEF ChunkVectorType
    <3> QED  BY <3>1, <3>2
  <2>6. (announced >= U64)' = (announced >= U64)
    BY <1>4, <2>2, GatherAssumption
  <2>7. \E k \in 0 .. (whole + x) :
          /\ Promise!Packs(k, whole + x)
          /\ posted' = Append(posted, [size |-> whole + x, chunks |-> k])
    BY <1>4, <2>3, <2>4, <2>5
  <2>8. Promise!LastFrame(x)
    BY <1>4, <2>2, <2>4, <2>6, <2>7 DEF Promise!LastFrame
  <2> QED  BY <1>4, <2>1, <2>8 DEF Promise!Next
<1>8. CASE ~Full(c) /\ ReadOn(c, b)
  <2>1. GatherInv'
    BY <1>2, <1>3, <1>8, ReadOnStep
  <2>2. [Promise!Next]_promised
    BY <1>4, <1>8, QuietStep DEF ReadOn, x
  <2> QED  BY <2>1, <2>2
<1> QED  BY <1>1, <1>5, <1>6, <1>7, <1>8 DEF c

\* A read has room exactly while the frames of the message announce less than 2^64
\* bytes.
LEMMA FitsIfFew ==
  ASSUME GatherInv, phase = "payload"
  PROVE  ReadFits <=> announced < U64
<1>1. /\ Reading /\ gather \in GatherType /\ announced \in Nat
      /\ buffer \in ChunkVectorType
  BY DEF GatherInv, GatherTypeOK
<1>2. SizeOf(buffer) = buffer.count * ChunkSize
  BY <1>1, FullSize DEF Reading
<1>3. buffer.count * ChunkSize \in Nat /\ buffer.count * ChunkSize < U64
  BY <1>1, ChunkSizeAssumption, MemoryAssumption, GatherAssumption
  DEF Reading, ChunkVectorType
<1>4. CASE announced < U64
  BY <1>1, <1>2, <1>4 DEF Reading, ReadingFits, ReadFits
<1>5. CASE ~(announced < U64)
  <2>1. gather.pos + gather.next = announced
    BY <1>1, <1>5, GatherAssumption DEF Reading, ReadingOver
  <2>2. announced > SizeOf(buffer)
    BY <1>1, <1>2, <1>3, <1>5, GatherAssumption
  <2> QED  BY <1>1, <1>2, <1>3, <1>5, <2>1, <2>2 DEF ReadFits
<1> QED  BY <1>4, <1>5

\* Every step keeps GatherInv and is a step or a stutter of Reassembly.
LEMMA GatherStep == GatherInv /\ [GatherNext]_gatherVars
                    => GatherInv' /\ [Promise!Next]_promised
<1> SUFFICES ASSUME GatherInv, [GatherNext]_gatherVars
             PROVE  GatherInv' /\ [Promise!Next]_promised
  OBVIOUS
<1>1. HistoryOK
  BY DEF GatherInv, GatherTypeOK, HistoryOK
<1>2. ASSUME NEW n \in Payloads, NEW fin \in BOOLEAN, NEW unmasked \in BOOLEAN,
             NEW opcode \in Opcodes, Frame(n, fin, opcode, unmasked)
      PROVE  GatherInv' /\ [Promise!Next]_promised
  <2> DEFINE h == [fin |-> fin, binary |-> opcode = 2, unmasked |-> unmasked]
             g == GatherMore(MessageGather, n)
             a == whole + n
  <2>1. /\ phase = "header" /\ announced' = a
        /\ ReadChunk(h, g, MessageBuffer, 0)
    BY <1>2 DEF Frame
  <2>2. \A t : Loaded(h, Consumed(h, g, 0, t), MessageBuffer, a)
    BY <2>1, FrameLoads
  <2>3. announced < U64 /\ a \in Nat
    BY <1>1, <2>1, GatherAssumption DEF GatherInv, Between, HistoryOK
  <2> HIDE DEF h, g, a
  <2> QED  BY <1>1, <2>1, <2>2, <2>3, ReadChunkStep
<1>3. CASE ChunkRead
  <2>1. /\ phase = "payload" /\ ReadFits /\ announced' = announced
        /\ ReadChunk(header, gather, buffer, gather.next)
    BY <1>3 DEF ChunkRead
  <2>2. gather.next \in Nat /\ gather.text \in TextStates /\ announced \in Nat
    BY DEF GatherInv, GatherTypeOK, GatherType
  <2>3. TextsAfter(header, gather, gather.next) \subseteq TextStates
    BY <2>2 DEF TextsAfter
  <2>4. announced < U64
    BY <2>1, FitsIfFew
  <2>5. \A t \in TextsAfter(header, gather, gather.next) :
          Loaded(header, Consumed(header, gather, gather.next, t), buffer, announced)
    BY <2>1, <2>3, <2>4, ChunkReadLoads
  <2> QED  BY <1>1, <2>1, <2>2, <2>4, <2>5, ReadChunkStep
<1>4. CASE Stop \/ Overrun
  <2>1. /\ phase' = "stopped" \/ phase' = "undefined"
        /\ UNCHANGED <<newRequest, header, gather, buffer, whole, announced, posted>>
    BY <1>4 DEF Stop, Overrun
  <2>2. GatherInv'
    BY <2>1 DEF GatherInv, GatherTypeOK
  <2>3. UNCHANGED promised
    BY <2>1 DEF promised
  <2> QED  BY <2>2, <2>3
<1>5. CASE UNCHANGED gatherVars
  <2>1. /\ phase' = phase /\ newRequest' = newRequest /\ header' = header
        /\ gather' = gather /\ buffer' = buffer /\ whole' = whole
        /\ announced' = announced /\ posted' = posted
    BY <1>5 DEF gatherVars
  <2>2. GatherInv'
    BY <2>1 DEF GatherInv, GatherTypeOK, Reading, ReadingFits, ReadingOver, Between,
                Tight, Aligned
  <2>3. UNCHANGED promised
    BY <2>1 DEF promised
  <2> QED  BY <2>2, <2>3
<1> QED  BY <1>2, <1>3, <1>4, <1>5 DEF GatherNext

\* A read that completes without ending its frame has filled its chunk.
LEMMA FillsItsChunk ==
  ASSUME GatherInv, ChunkRead, phase' = "payload"
  PROVE  gather'.consumed > gather.consumed /\ gather'.consumed % ChunkSize = 0
<1> DEFINE n == gather.next
<1>1. /\ phase = "payload" /\ ReadFits /\ announced' = announced
      /\ ReadChunk(header, gather, buffer, n)
  BY DEF ChunkRead
<1>2. announced < U64
  BY <1>1, FitsIfFew
<1>3. /\ Reading /\ ReadingFits /\ gather \in GatherType /\ buffer \in ChunkVectorType
      /\ announced \in Nat
  BY <1>1, <1>2 DEF GatherInv, GatherTypeOK, Reading
<1>4. PICK t \in TextsAfter(header, gather, n) :
         ~Full(Consumed(header, gather, n, t)) /\ ReadOn(Consumed(header, gather, n, t), buffer)
  BY <1>1 DEF ReadChunk, Reject, EndFrame, EndMessage
<1>5. t \in TextStates
  BY <1>3, <1>4 DEF TextsAfter, GatherType
<1> DEFINE g == Consumed(header, gather, n, t)
<1>6. Loaded(header, g, buffer, announced)
  BY <1>1, <1>2, <1>5, ChunkReadLoads
<1>7. n \in Nat /\ n > 0 /\ gather.consumed + n < U64 /\ gather.consumed \in Nat
  BY <1>2, <1>3, GatherAssumption DEF Reading, ReadingFits, GatherType
<1>8. g.consumed = gather.consumed + n
  <2>1. (gather.consumed + n) % U64 = gather.consumed + n
    BY <1>7, GatherAssumption
  <2>2. g = [gather EXCEPT !.text = t, !.mask = MaskAfter(header, @, n),
                           !.consumed = (@ + n) % U64]
    BY <1>7 DEF Consumed
  <2> QED  BY <1>3, <2>1, <2>2 DEF GatherType
<1> HIDE DEF g
<1>9. g.consumed # announced
  BY <1>2, <1>4, <1>6 DEF Full, Loaded, Wrapped, g
<1>10. g.consumed = buffer.count * ChunkSize
  BY <1>3, <1>8, <1>9 DEF ReadingFits, n
<1>11. gather'.consumed = g.consumed
  BY <1>4, <1>6 DEF ReadOn, Loaded, GatherType, g
<1>12. (buffer.count * ChunkSize + 0) % ChunkSize = 0
  BY <1>3, Remainder, ChunkSizeAssumption DEF ChunkVectorType
<1>13. buffer.count * ChunkSize + 0 = buffer.count * ChunkSize
  BY <1>3, ChunkSizeAssumption DEF ChunkVectorType
<1> QED  BY <1>7, <1>8, <1>10, <1>11, <1>12, <1>13

\* A new Gather satisfies its invariant, and begins as Reassembly does.
LEMMA GatherStarts == GatherInit => GatherInv /\ Promise!Init
<1> SUFFICES ASSUME GatherInit PROVE GatherInv /\ Promise!Init
  OBVIOUS
<1>1. \A n \in Junk : n \in 0 .. 255 /\ n \in Nat
  BY GatherAssumption
<1>2. gather \in GatherType
  <2>1. gather \in [text : {"complete"}, mask : Junk, size : Junk,
                    consumed : Junk, next : Junk, pos : Junk]
    BY DEF GatherInit
  <2>2. /\ gather.text \in TextStates /\ gather.mask \in 0 .. 255
        /\ gather.size \in Nat /\ gather.consumed \in Nat
        /\ gather.next \in Nat /\ gather.pos \in Nat
    <3>1. /\ gather.text \in {"complete"} /\ gather.mask \in Junk
          /\ gather.size \in Junk /\ gather.consumed \in Junk
          /\ gather.next \in Junk /\ gather.pos \in Junk
      BY <2>1
    <3>2. gather.text \in TextStates
      BY <3>1 DEF TextStates
    <3> QED  BY <1>1, <3>1, <3>2
  <2> QED  BY <2>1, <2>2 DEF GatherType
<1>3. buffer \in ChunkVectorType
  <2>1. EmptyChunkVector \in ChunkVectorType
    BY ChunkSizeAssumption DEF EmptyChunkVector, ChunkVectorType
  <2>2. ASSUME NEW b \in ChunkVectorType, NEW d, d = WithNewChunk(b)
        PROVE  d \in ChunkVectorType
    <3>1. d = [count |-> b.count + 1, back |-> ChunkSize, open |-> b.open]
      BY <2>2 DEF WithNewChunk, ChunkVectorType
    <3> QED  BY <3>1, ChunkSizeAssumption DEF ChunkVectorType
  <2> QED  BY <2>1, <2>2 DEF GatherInit
<1>4. announced = 0 /\ announced < U64 /\ ~(announced >= U64)
  BY GatherAssumption DEF GatherInit
<1> QED  BY <1>2, <1>3, <1>4 DEF GatherInit, GatherInv, GatherTypeOK, Between, Promise!Init

\* The inductive invariant holds in every reachable state.
THEOREM GatherInvariant == GatherSafety => []GatherInv
<1>1. GatherInit => GatherInv
  BY GatherStarts
<1>2. GatherInv /\ [GatherNext]_gatherVars => GatherInv'
  BY GatherStep
<1> QED  BY <1>1, <1>2, PTL DEF GatherSafety

\* Every variable of the data path keeps its type.
THEOREM GatherTypes == GatherSafety => []GatherTypeOK
<1>1. GatherInv => GatherTypeOK
  BY DEF GatherInv
<1> QED  BY <1>1, GatherInvariant, PTL

\* A read starts in the last chunk and ends there exactly while the message announces
\* less than 2^64 bytes, whatever the chunk size and however frames share the chunks
\* (ws_gather.cpp:40-50, 73-77).
THEOREM ReadsFitTheChunk == GatherSafety => []ReadsStayInLastChunk
<1>1. GatherInv => ReadsStayInLastChunk
  <2> SUFFICES ASSUME GatherInv, phase = "payload"
               PROVE  /\ 0 < gather.next
                      /\ (buffer.count - 1) * ChunkSize <= gather.pos
                      /\ ReadFits <=> announced < U64
    BY DEF ReadsStayInLastChunk
  <2>1. Reading /\ gather \in GatherType
    BY DEF GatherInv, GatherTypeOK
  <2> QED  BY <2>1, FitsIfFew DEF Reading, GatherType
<1> QED  BY <1>1, GatherInvariant, PTL

\* A read never takes bytes of the next frame, whatever the frames of the message
\* announce (ws_session.cpp:192-198).
THEOREM ReadsFitTheFrame == GatherSafety => []ReadsStayInFrame
<1>1. GatherInv => ReadsStayInFrame
  <2> SUFFICES ASSUME GatherInv, phase = "payload"
               PROVE  gather.consumed + gather.next <= announced
    BY DEF ReadsStayInFrame
  <2>1. Reading /\ gather \in GatherType /\ announced \in Nat
    BY DEF GatherInv, GatherTypeOK
  <2> QED  BY <2>1, GatherAssumption DEF Reading, ReadingFits, ReadingOver, GatherType
<1> QED  BY <1>1, GatherInvariant, PTL

\* A read that does not end its frame fills its chunk, so that no frame takes more reads
\* than the chunks it touches (ws_gather.cpp:45-49).
THEOREM ReadsAreFewest == GatherSafety => FrameAdvances
<1>1. GatherInv /\ [GatherNext]_gatherVars
        => [phase = "payload" /\ phase' = "payload" =>
              /\ gather'.consumed > gather.consumed
              /\ gather'.consumed % ChunkSize = 0]_gatherVars
  <2> SUFFICES ASSUME GatherInv, GatherNext, phase = "payload", phase' = "payload"
               PROVE  gather'.consumed > gather.consumed /\ gather'.consumed % ChunkSize = 0
    OBVIOUS
  <2>1. ChunkRead
    BY DEF GatherNext, Frame, Overrun, Stop
  <2> QED  BY <2>1, FillsItsChunk
<1> QED  BY <1>1, GatherInvariant, PTL DEF GatherSafety, FrameAdvances

\* Unmasking in pieces meets the mask bytes a single pass would, although the offset
\* is an uint8_t and groups of four do not advance it (utilities_websocket.cpp:114-137).
THEOREM MaskStaysAligned == GatherSafety => []MaskFollowsFrame
<1>1. GatherInv => MaskFollowsFrame
  BY DEF GatherInv, Reading, Aligned, MaskFollowsFrame
<1> QED  BY <1>1, GatherInvariant, PTL

\* new_chunk's logic_error is never thrown (utilities_chunk_vector.cpp:20).
THEOREM NewChunkNeverThrows == GatherSafety => []NeverGrowsClosed
<1>1. GatherInv => NeverGrowsClosed
  BY DEF GatherInv, Reading, NeverGrowsClosed
<1> QED  BY <1>1, GatherInvariant, PTL

\* The data path implements the abstract reassembly: what is handed over is each
\* message's bytes, packed into as few chunks as hold them (ws_gather.hpp:16-28).
THEOREM GatherImplementsReassembly == GatherSafety => ImplementsReassembly
<1>1. GatherInit => Promise!Init
  BY GatherStarts
<1>2. GatherInv /\ [GatherNext]_gatherVars
        => [Promise!Next]_<<whole, announced >= U64, posted>>
  BY GatherStep DEF promised
<1> QED  BY <1>1, <1>2, GatherInvariant, PTL
         DEF GatherSafety, ImplementsReassembly, Promise!Spec
=============================================================================
