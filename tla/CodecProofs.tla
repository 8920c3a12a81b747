---------------------------- MODULE CodecProofs ----------------------------
(***************************************************************************)
(* The byte-level units.  Every byte of a frame meets the mask byte of its *)
(* place, however the frame is cut into reads; a frame's header comes back *)
(* whole from the bytes it was made into, for every length there is; and   *)
(* base64 puts out the input's bits, six by six, of which the bytes are    *)
(* made again, for every input but the empty one.                          *)
(***************************************************************************)
EXTENDS Framing, Mask, Base64, SequenceTheorems, TLAPS

\* The offset is, modulo four, how many bytes have been unmasked; its own wrap at 256,
\* of which 4 is a divisor, cannot be seen there.
OffsetCounts == /\ offset \in 0 .. 255
                /\ met \in Seq(0 .. 3)
                /\ offset % 4 = Len(met) % 4
                /\ EachByteItsMask

\* An offset, and a number of bytes it stands for.
InPhase(o, k) == o \in 0 .. 255 /\ k \in Nat /\ o % 4 = k % 4

\* The mask byte of the i-th of n bytes, wherever the offset stands.
LEMMA MaskByteIs ==
  ASSUME NEW n \in Nat, NEW o, NEW k, InPhase(o, k), NEW i \in Nat, i < n
  PROVE  MaskByte(n, o, i) = (k + i) % 4
<1> USE DEF InPhase
<1>1. (o + (i % 4)) % 4 = (k + i) % 4
  OBVIOUS
<1>2. (o + (i - 4 * (n \div 4))) % 4 = (k + i) % 4
  OBVIOUS
<1> QED  BY <1>1, <1>2 DEF MaskByte, Grouped

\* The offset applyMask leaves behind (websocket.cpp:131-137).
LEMMA OffsetAfterIs ==
  ASSUME NEW n \in Nat, NEW o, NEW k, InPhase(o, k)
  PROVE  InPhase(OffsetAfter(n, o), k + n)
<1> USE DEF InPhase
<1> DEFINE m == o + (n - Grouped(n))
<1>1. n - Grouped(n) \in 0 .. 3
  BY DEF Grouped
<1>2. m \in Nat
  BY <1>1
<1>3. m % 4 = (k + n) % 4
  BY DEF Grouped
<1>4. m % 256 \in 0 .. 255 /\ (m % 256) % 4 = m % 4
  BY <1>2
<1> QED  BY <1>3, <1>4 DEF OffsetAfter

\* One call of applyMask.
LEMMA ApplyMaskStep ==
  ASSUME OffsetCounts, NEW n \in ReadSizes, ApplyMask(n)
  PROVE  OffsetCounts'
<1>1. n \in Nat /\ offset \in Nat /\ Len(met) \in Nat /\ offset % 4 = Len(met) % 4
  BY MaskAssumption DEF OffsetCounts
<1>0. n \in Nat /\ InPhase(offset, Len(met))
  BY <1>1 DEF OffsetCounts, InPhase
<1> DEFINE new == [i \in 1 .. n |-> MaskByte(n, offset, i - 1)]
<1>2. \A i \in 1 .. n : new[i] = (Len(met) + i - 1) % 4 /\ new[i] \in 0 .. 3
  <2> SUFFICES ASSUME NEW i \in 1 .. n
               PROVE  new[i] = (Len(met) + i - 1) % 4 /\ new[i] \in 0 .. 3
    OBVIOUS
  <2>1. i - 1 \in Nat /\ i - 1 < n
    BY <1>1
  <2>2. new[i] = (Len(met) + (i - 1)) % 4
    <3>1. MaskByte(n, offset, i - 1) = (Len(met) + (i - 1)) % 4
      BY ONLY <1>0, <2>1, MaskByteIs, Zenon
    <3> QED  BY <3>1
  <2> QED  BY <1>1, <2>2
<1>3. new \in Seq(0 .. 3) /\ Len(new) = n
  BY <1>1, <1>2
<1> HIDE DEF new
<1>4. met' = met \o new /\ met \in Seq(0 .. 3)
  BY DEF ApplyMask, OffsetCounts, new
<1>5. met' \in Seq(0 .. 3) /\ Len(met') = Len(met) + n
  BY <1>3, <1>4
<1>6. offset' \in 0 .. 255 /\ offset' % 4 = Len(met') % 4
  <2>1. InPhase(OffsetAfter(n, offset), Len(met) + n)
    BY ONLY <1>0, OffsetAfterIs, Zenon
  <2>2. offset' = OffsetAfter(n, offset) /\ Len(met') = Len(met) + n
    BY <1>5 DEF ApplyMask
  <2>3. InPhase(offset', Len(met'))
    BY ONLY <2>1, <2>2, Zenon
  <2> QED  BY ONLY <2>3 DEF InPhase
<1>7. ASSUME NEW i \in DOMAIN met' PROVE met'[i] = (i - 1) % 4
  <2>1. CASE i <= Len(met)
    <3>1. i \in DOMAIN met /\ met'[i] = met[i]
      BY ONLY <1>3, <1>4, <1>7, <2>1
    <3>2. \A j \in DOMAIN met : met[j] = (j - 1) % 4
      BY DEF OffsetCounts, EachByteItsMask
    <3> QED  BY ONLY <3>1, <3>2, Zenon
  <2>2. CASE i > Len(met)
    <3>1. i - Len(met) \in 1 .. n /\ met'[i] = new[i - Len(met)]
      BY <1>1, <1>3, <1>4, <1>5, <2>2
    <3>2. met'[i] = (Len(met) + (i - Len(met)) - 1) % 4
      BY <1>2, <3>1
    <3>3. i \in Int /\ Len(met) + (i - Len(met)) - 1 = i - 1
      BY <1>1, <1>5
    <3> QED  BY <3>2, <3>3
  <2> QED  BY <1>1, <1>5, <2>1, <2>2
<1> QED  BY <1>5, <1>6, <1>7 DEF OffsetCounts, EachByteItsMask

\* Each byte of a frame is unmasked with the mask byte of its place, whatever the sizes
\* of the reads that bring it (applyMask, websocket.cpp:114-137).
THEOREM EachByteIsUnmasked == MaskSpec => []EachByteItsMask
<1>1. MaskInit => OffsetCounts
  BY DEF MaskInit, OffsetCounts, EachByteItsMask
<1>2. OffsetCounts /\ [MaskNext]_maskVars => OffsetCounts'
  <2> SUFFICES ASSUME OffsetCounts, [MaskNext]_maskVars PROVE OffsetCounts'
    OBVIOUS
  <2>1. CASE MaskNext
    BY <2>1, ApplyMaskStep DEF MaskNext
  <2>2. CASE UNCHANGED maskVars
    BY <2>2 DEF maskVars, OffsetCounts, EachByteItsMask
  <2> QED  BY <2>1, <2>2
<1>3. OffsetCounts => EachByteItsMask
  BY DEF OffsetCounts
<1> QED  BY <1>1, <1>2, <1>3, PTL DEF MaskSpec
-----------------------------------------------------------------------------
\* Every header there can be: the opcodes there are, all 64-bit lengths and all masks.
AnyFlags  == [fin : BOOLEAN, opcode : {0, 1, 2, 8, 9, 10}, masked : BOOLEAN]
AnyLength == [1 .. 8 -> 0 .. 255]
AnyKey    == [1 .. 4 -> 0 .. 255]

FramingSafety == FramingInit(AnyFlags, AnyLength, AnyKey) /\ [][FramingNext]_framingVars

TheHeader == MakeHeader(flags, length, key)

\* The buffer has what was read of the header, and zeros.
FramingInv ==
  /\ flags \in AnyFlags /\ length \in AnyLength /\ key \in AnyKey
  /\ buffer \in [1 .. 14 -> Nat]
  /\ state = "FIRST" => unread = TheHeader /\ \A i \in 1 .. 14 : buffer[i] = 0
  /\ state = "SECOND" => /\ unread = SubSeq(TheHeader, 3, Len(TheHeader))
                         /\ next = Len(TheHeader) - 2
                         /\ \A i \in 1 .. 14 : buffer[i] = IF i <= 2 THEN TheHeader[i] ELSE 0
  /\ state = "DATA" => /\ unread = << >>
                       /\ \A i \in 1 .. 14 :
                            buffer[i] = IF i <= Len(TheHeader) THEN TheHeader[i] ELSE 0

\* A tuple is a sequence.
LEMMA TupleIs ==
  ASSUME NEW S, NEW k \in Nat, NEW f \in [1 .. k -> S]
  PROVE  f \in Seq(S) /\ Len(f) = k
<1>1. f \in Seq(S)
  BY SeqDef
<1>2. DOMAIN f = 1 .. k
  OBVIOUS
<1> QED  BY <1>1, <1>2, LenProperties

\* So is a mask.
LEMMA KeyIs == ASSUME NEW f \in [1 .. 4 -> Nat] PROVE f \in Seq(Nat) /\ Len(f) = 4
<1> DEFINE k == 4
<1>1. k \in Nat /\ f \in [1 .. k -> Nat]
  OBVIOUS
<1> HIDE DEF k
<1>2. f \in Seq(Nat) /\ Len(f) = k
  BY ONLY <1>1, TupleIs, Zenon
<1> QED  BY <1>2 DEF k

\* What a concatenation has where.
LEMMA ConcatIs ==
  ASSUME NEW s \in Seq(Nat), NEW t \in Seq(Nat)
  PROVE  /\ s \o t \in Seq(Nat) /\ Len(s \o t) = Len(s) + Len(t)
         /\ \A i \in 1 .. Len(s) : (s \o t)[i] = s[i]
         /\ \A i \in 1 .. Len(t) : (s \o t)[Len(s) + i] = t[i]
<1>1. s \o t \in Seq(Nat) /\ Len(s \o t) = Len(s) + Len(t)
  OBVIOUS
<1>2. \A i \in 1 .. Len(s) : (s \o t)[i] = s[i]
  OBVIOUS
<1>3. ASSUME NEW i \in 1 .. Len(t) PROVE (s \o t)[Len(s) + i] = t[i]
  <2>1. /\ Len(s) + i \in 1 .. (Len(s) + Len(t)) /\ Len(s) + i > Len(s)
        /\ (Len(s) + i) - Len(s) = i
    OBVIOUS
  <2> QED  BY <2>1
<1> QED  BY <1>1, <1>2, <1>3

\* What is left of a sequence after its first two elements.
LEMMA AfterTwo ==
  ASSUME NEW s \in Seq(Nat), Len(s) >= 2
  PROVE  /\ SubSeq(s, 3, Len(s)) \in Seq(Nat) /\ Len(SubSeq(s, 3, Len(s))) = Len(s) - 2
         /\ \A i \in 1 .. (Len(s) - 2) : SubSeq(s, 3, Len(s))[i] = s[i + 2]
<1>1. Len(s) \in Nat /\ \A i \in 3 .. Len(s) : s[i] \in Nat
  OBVIOUS
<1>2. /\ SubSeq(s, 3, Len(s)) \in Seq(Nat) /\ Len(SubSeq(s, 3, Len(s))) = Len(s) - 2
      /\ \A i \in 1 .. (Len(s) - 2) : SubSeq(s, 3, Len(s))[i] = s[3 + i - 1]
  <2>1. \A i \in 1 .. Len(s) - 3 + 1 : SubSeq(s, 3, Len(s))[i] = s[3 + i - 1]
    BY <1>1, SubSeqProperties
  <2>2. SubSeq(s, 3, Len(s)) \in Seq(Nat)
    BY <1>1, SubSeqProperties
  <2>3. Len(SubSeq(s, 3, Len(s))) = Len(s) - 2
    <3>1. Len(SubSeq(s, 3, Len(s))) = IF 3 <= Len(s) THEN Len(s) - 3 + 1 ELSE 0
      BY <1>1, SubSeqProperties
    <3>2. Len(s) \in Nat
      BY <1>1
    <3>3. (IF 3 <= Len(s) THEN Len(s) - 3 + 1 ELSE 0) = Len(s) - 2
      <4> DEFINE k == Len(s)
      <4>1. k \in Nat /\ k >= 2
        BY <3>2
      <4> HIDE DEF k
      <4>2. (IF 3 <= k THEN k - 3 + 1 ELSE 0) = k - 2
        BY ONLY <4>1
      <4> QED  BY ONLY <4>2 DEF k
    <3> QED  BY ONLY <3>1, <3>3
  <2>4. Len(s) - 3 + 1 = Len(s) - 2
    BY <1>1
  <2> QED  BY <2>1, <2>2, <2>3, <2>4
<1>3. \A i \in 1 .. (Len(s) - 2) : 3 + i - 1 = i + 2
  BY <1>1
<1> QED  BY <1>2, <1>3

\* A length is eight bytes.
LEMMA LengthBytesAre ==
  ASSUME NEW n \in AnyLength
  PROVE  n \in Seq(Nat) /\ Len(n) = 8 /\ \A i \in 1 .. 8 : n[i] \in Nat
<1> DEFINE k == 8
<1>1. n \in [1 .. k -> Nat] /\ k \in Nat
  <2>1. n \in [1 .. k -> 0 .. 255]
    BY Zenon DEF AnyLength
  <2>2. k \in Nat /\ 0 .. 255 \subseteq Nat
    OBVIOUS
  <2> HIDE DEF k
  <2> DEFINE bytes == 0 .. 255
  <2> HIDE DEF bytes
  <2>3. n \in [1 .. k -> bytes] /\ bytes \subseteq Nat
    BY ONLY <2>1, <2>2 DEF bytes
  <2> QED  BY ONLY <2>2, <2>3
<1> HIDE DEF k
<1>2. n \in Seq(Nat) /\ Len(n) = k
  BY ONLY <1>1, TupleIs, Zenon
<1>3. \A i \in 1 .. k : n[i] \in Nat
  BY ONLY <1>1, Zenon
<1> QED  BY <1>2, <1>3 DEF k

\* The three encodings of a length.
LEMMA LengthIs ==
  ASSUME NEW n \in AnyLength
  PROVE  /\ Extended(n) \in Seq(Nat) /\ Length7(n) \in 0 .. 127
         /\ \/ /\ Small(n) /\ ~Medium(n) /\ \A i \in 1 .. 7 : n[i] = 0
               /\ Length7(n) \in 0 .. 125 /\ Length7(n) = n[8] /\ Len(Extended(n)) = 0
            \/ /\ ~Small(n) /\ Medium(n) /\ \A i \in 1 .. 6 : n[i] = 0
               /\ Length7(n) = 126 /\ Len(Extended(n)) = 2
               /\ Extended(n)[1] = n[7] /\ Extended(n)[2] = n[8]
            \/ /\ ~Small(n) /\ ~Medium(n) /\ Length7(n) = 127 /\ Extended(n) = n
               /\ Len(Extended(n)) = 8
<1>1. n \in Seq(Nat) /\ Len(n) = 8 /\ \A i \in 1 .. 8 : n[i] \in Nat
  BY LengthBytesAre
<1>2. CASE Small(n)
  <2>1. SubSeq(n, 1, 7) = Zeros(7) /\ n[8] <= 125
    BY <1>2 DEF Small
  <2>2. \A i \in 1 .. 7 : SubSeq(n, 1, 7)[i] = n[i] /\ Zeros(7)[i] = 0
    BY <1>1 DEF Zeros
  <2>3. \A i \in 1 .. 7 : n[i] = 0
    BY <2>1, <2>2
  <2>4. n[8] \in 0 .. 125
    <3>1. 8 \in 1 .. 8
      OBVIOUS
    <3>2. n[8] \in Nat
      BY <1>1, <3>1
    <3> QED  BY <2>1, <3>2
  <2>5. Extended(n) = << >> /\ Length7(n) = n[8] /\ ~Medium(n)
    BY <1>2 DEF Extended, Length7, Medium
  <2> QED  BY <1>2, <2>3, <2>4, <2>5
<1>3. CASE Medium(n)
  <2>1. SubSeq(n, 1, 6) = Zeros(6) /\ ~Small(n)
    BY <1>3 DEF Medium
  <2>2. \A i \in 1 .. 6 : SubSeq(n, 1, 6)[i] = n[i] /\ Zeros(6)[i] = 0
    BY <1>1 DEF Zeros
  <2>3. \A i \in 1 .. 6 : n[i] = 0
    BY <2>1, <2>2
  <2>4. Extended(n) = SubSeq(n, 7, 8) /\ Length7(n) = 126
    BY <1>3, <2>1 DEF Extended, Length7
  <2>5. /\ SubSeq(n, 7, 8) \in Seq(Nat) /\ Len(SubSeq(n, 7, 8)) = 2
        /\ SubSeq(n, 7, 8)[1] = n[7] /\ SubSeq(n, 7, 8)[2] = n[8]
    BY <1>1
  <2> QED  BY <1>3, <2>1, <2>3, <2>4, <2>5
<1>4. CASE ~Small(n) /\ ~Medium(n)
  <2>1. Extended(n) = n /\ Length7(n) = 127
    BY <1>4 DEF Extended, Length7
  <2> QED  BY <1>1, <1>4, <2>1
<1> QED  BY <1>2, <1>3, <1>4

\* The header, byte by byte.
LEMMA HeaderIs ==
  ASSUME flags \in AnyFlags, length \in AnyLength, key \in AnyKey
  PROVE  \E e \in 0 .. 8, m \in {0, 4} :
           /\ e = Len(Extended(length)) /\ m = (IF flags.masked THEN 4 ELSE 0)
           /\ TheHeader \in Seq(Nat) /\ Len(TheHeader) = 2 + e + m
           /\ TheHeader[1] = flags.opcode + (IF flags.fin THEN 128 ELSE 0)
           /\ TheHeader[2] = Length7(length) + (IF flags.masked THEN 128 ELSE 0)
           /\ \A i \in 1 .. e : TheHeader[2 + i] = Extended(length)[i]
           /\ \A i \in 1 .. m : TheHeader[2 + e + i] = key[i]
<1> DEFINE e == Len(Extended(length))
           m == IF flags.masked THEN 4 ELSE 0
           a == FirstByte(flags)
           b == Length7(length) + (IF flags.masked THEN 128 ELSE 0)
           E == Extended(length)
           K == IF flags.masked THEN key ELSE << >>
<1>1. E \in Seq(Nat) /\ e \in 0 .. 8 /\ Length7(length) \in Nat
  <2>1. E \in Seq(Nat) /\ Length7(length) \in 0 .. 127
    BY LengthIs
  <2>2. e \in {0, 2, 8}
    BY LengthIs
  <2> HIDE DEF E, e
  <2>3. e \in 0 .. 8
    BY ONLY <2>2
  <2>4. Length7(length) \in Nat
    <3>1. Length7(length) \in 0 .. 127
      BY LengthIs
    <3> QED  BY ONLY <3>1
  <2> QED  BY ONLY <2>1, <2>3, <2>4
<1>2. K \in Seq(Nat) /\ m \in {0, 4} /\ Len(K) = m /\ \A i \in 1 .. m : K[i] = key[i]
  <2>1. key \in [1 .. 4 -> Nat] /\ 4 \in Nat
    BY DEF AnyKey
  <2>2. key \in Seq(Nat) /\ Len(key) = 4
    BY ONLY <2>1, KeyIs, Zenon
  <2>3. CASE flags.masked
    BY <2>2, <2>3
  <2>4. CASE ~flags.masked
    <3>1. K = << >> /\ m = 0
      BY <2>4
    <3>2. << >> \in Seq(Nat) /\ Len(<< >>) = 0
      OBVIOUS
    <3> QED  BY <3>1, <3>2
  <2> QED  BY <2>3, <2>4
<1>3. a = flags.opcode + (IF flags.fin THEN 128 ELSE 0) /\ a \in Nat
  <2>1. flags.opcode \in {0, 1, 2, 8, 9, 10}
    BY DEF AnyFlags
  <2>2. (flags.opcode \div 4) % 2 # 1
    BY <2>1
  <2> QED  BY <2>1, <2>2 DEF FirstByte
<1>4. b \in Nat
  BY <1>1
<1>5. TheHeader = (<<a, b>> \o E) \o K
  BY DEF TheHeader, MakeHeader
<1> HIDE DEF e, m, a, b, E, K
<1>6. <<a, b>> \in Seq(Nat) /\ Len(<<a, b>>) = 2 /\ <<a, b>>[1] = a /\ <<a, b>>[2] = b
  BY <1>3, <1>4
<1> DEFINE s == <<a, b>>
<1> HIDE DEF s
<1>7. s \in Seq(Nat) /\ Len(s) = 2 /\ s[1] = a /\ s[2] = b /\ TheHeader = (s \o E) \o K
  BY <1>5, <1>6 DEF s
<1>8. Len(E) = e
  BY DEF e, E
<1>9. /\ s \o E \in Seq(Nat) /\ Len(s \o E) = 2 + e
      /\ \A i \in 1 .. 2 : (s \o E)[i] = s[i]
      /\ \A i \in 1 .. e : (s \o E)[2 + i] = E[i]
  <2>1. s \in Seq(Nat) /\ E \in Seq(Nat) /\ Len(s) = 2 /\ Len(E) = e
    BY <1>1, <1>7, <1>8
  <2>2. /\ s \o E \in Seq(Nat) /\ Len(s \o E) = Len(s) + Len(E)
        /\ \A i \in 1 .. Len(s) : (s \o E)[i] = s[i]
        /\ \A i \in 1 .. Len(E) : (s \o E)[Len(s) + i] = E[i]
    BY ONLY <2>1, ConcatIs
  <2> QED  BY ONLY <2>1, <2>2
<1> DEFINE t == s \o E
<1>10. /\ t \in Seq(Nat) /\ Len(t) = 2 + e /\ t[1] = a /\ t[2] = b
       /\ (\A i \in 1 .. e : t[2 + i] = E[i]) /\ TheHeader = t \o K
  <2>1. 1 \in 1 .. 2 /\ 2 \in 1 .. 2
    OBVIOUS
  <2> QED  BY <1>7, <1>9, <2>1
<1> HIDE DEF t
<1>11. /\ t \o K \in Seq(Nat) /\ Len(t \o K) = 2 + e + m
       /\ \A i \in 1 .. (2 + e) : (t \o K)[i] = t[i]
       /\ \A i \in 1 .. m : (t \o K)[2 + e + i] = K[i]
  <2>1. t \in Seq(Nat) /\ K \in Seq(Nat) /\ Len(t) = 2 + e /\ Len(K) = m
    BY <1>2, <1>10
  <2>2. /\ t \o K \in Seq(Nat) /\ Len(t \o K) = Len(t) + Len(K)
        /\ \A i \in 1 .. Len(t) : (t \o K)[i] = t[i]
        /\ \A i \in 1 .. Len(K) : (t \o K)[Len(t) + i] = K[i]
    BY ONLY <2>1, ConcatIs
  <2> QED  BY ONLY <2>1, <2>2
<1>12. /\ TheHeader[1] = a /\ TheHeader[2] = b
       /\ \A i \in 1 .. e : TheHeader[2 + i] = E[i]
  <2>1. \A i \in 1 .. (2 + e) : TheHeader[i] = t[i]
    BY <1>10, <1>11
  <2>2. 1 \in 1 .. (2 + e) /\ 2 \in 1 .. (2 + e) /\ \A i \in 1 .. e : 2 + i \in 1 .. (2 + e)
    BY <1>1
  <2> QED  BY <1>10, <2>1, <2>2
<1>13. \A i \in 1 .. m : TheHeader[2 + e + i] = key[i]
  BY <1>2, <1>10, <1>11
<1>14. TheHeader \in Seq(Nat) /\ Len(TheHeader) = 2 + e + m
  BY <1>10, <1>11
<1>15. TheHeader[1] = flags.opcode + (IF flags.fin THEN 128 ELSE 0)
  BY ONLY <1>3, <1>12
<1>16. TheHeader[2] = b /\ \A i \in 1 .. e : TheHeader[2 + i] = E[i]
  BY ONLY <1>12
<1>17. e \in 0 .. 8 /\ m \in {0, 4} /\ e = Len(E)
  BY ONLY <1>1, <1>2, <1>8
<1> HIDE DEF TheHeader
<1>18. b = Length7(length) + (IF flags.masked THEN 128 ELSE 0) /\ E = Extended(length)
       /\ m = (IF flags.masked THEN 4 ELSE 0)
  BY DEF b, E, m
<1>19. /\ e = Len(Extended(length))
       /\ TheHeader[2] = Length7(length) + (IF flags.masked THEN 128 ELSE 0)
       /\ \A i \in 1 .. e : TheHeader[2 + i] = Extended(length)[i]
  BY ONLY <1>16, <1>17, <1>18, Zenon
<1> QED  BY ONLY <1>13, <1>14, <1>15, <1>17, <1>18, <1>19, Zenon

\* What process_state_1 finds in the second byte: the bytes and the mask that follow.
LEMMA SecondByteIs ==
  ASSUME flags \in AnyFlags, length \in AnyLength, key \in AnyKey,
         NEW b, b[2] = TheHeader[2]
  PROVE  /\ Bits7(b) = Length7(length) /\ Masked(b) = flags.masked
         /\ LengthBytes(b) = Len(Extended(length))
<1> DEFINE L == Length7(length)
<1>1. L \in 0 .. 127 /\ flags.masked \in BOOLEAN
  BY LengthIs DEF AnyFlags
<1>2. b[2] = L + (IF flags.masked THEN 128 ELSE 0)
  BY HeaderIs
<1>3. /\ L = 126 => Len(Extended(length)) = 2
      /\ L = 127 => Len(Extended(length)) = 8
      /\ L # 126 /\ L # 127 => Len(Extended(length)) = 0
  <2>1. CASE Small(length)
    <3>1. L \in 0 .. 125 /\ Len(Extended(length)) = 0
      BY <2>1, LengthIs
    <3> HIDE DEF L
    <3>2. L \in 0 .. 125
      BY <3>1
    <3>3. L # 126 /\ L # 127
      BY ONLY <3>2
    <3> QED  BY <3>1, <3>3
  <2>2. CASE Medium(length)
    <3>1. L = 126 /\ Len(Extended(length)) = 2
      BY <2>2, LengthIs
    <3>2. L # 127
      BY ONLY <3>1
    <3> QED  BY <3>1, <3>2
  <2>3. CASE ~Small(length) /\ ~Medium(length)
    <3>1. L = 127 /\ Len(Extended(length)) = 8
      BY <2>3, LengthIs
    <3>2. L # 126
      BY ONLY <3>1
    <3> QED  BY <3>1, <3>2
  <2> QED  BY <2>1, <2>2, <2>3
<1> HIDE DEF L
<1>4. CASE flags.masked
  <2>1. b[2] = L + 128
    BY <1>2, <1>4
  <2>2. b[2] % 128 = L /\ b[2] >= 128
    BY ONLY <1>1, <2>1
  <2>3. Bits7(b) = L /\ Masked(b)
    BY ONLY <2>2, Zenon DEF Bits7, Masked
  <2>4. LengthBytes(b) = (IF L = 126 THEN 2 ELSE IF L = 127 THEN 8 ELSE 0)
    BY ONLY <2>3, Zenon DEF LengthBytes
  <2> QED  BY ONLY <1>3, <1>4, <2>3, <2>4 DEF L
<1>5. CASE ~flags.masked
  <2>1. b[2] = L
    BY <1>1, <1>2, <1>5
  <2>2. b[2] % 128 = L /\ ~(b[2] >= 128)
    BY ONLY <1>1, <2>1
  <2> QED  BY <1>1, <1>3, <1>5, <2>2 DEF Bits7, Masked, LengthBytes, L
<1> QED  BY <1>4, <1>5

\* The header is read in two reads, the second of what the first asks for.
LEMMA FirstRead == FramingInv /\ ProcessFirst => FramingInv'
<1> SUFFICES ASSUME FramingInv, ProcessFirst PROVE FramingInv'
  OBVIOUS
<1> DEFINE H == TheHeader
<1>1. /\ flags \in AnyFlags /\ length \in AnyLength /\ key \in AnyKey
      /\ buffer \in [1 .. 14 -> Nat] /\ unread = H /\ \A i \in 1 .. 14 : buffer[i] = 0
  BY DEF FramingInv, ProcessFirst
<1>2. PICK e \in 0 .. 8, m \in {0, 4} :
        /\ e = Len(Extended(length)) /\ m = (IF flags.masked THEN 4 ELSE 0)
        /\ H \in Seq(Nat) /\ Len(H) = 2 + e + m
  BY <1>1, HeaderIs
<1>3. /\ UNCHANGED <<flags, length, key>> /\ state' = "SECOND"
      /\ next' = LengthBytes(buffer') + (IF Masked(buffer') THEN 4 ELSE 0)
      /\ ReadInto(1, 2)
  BY DEF ProcessFirst
<1>4. H' = H
  BY <1>3 DEF TheHeader
<1> HIDE DEF H
<1>5. buffer' = [i \in 1 .. 14 |-> IF i \in 1 .. (1 + 2 - 1) THEN unread[i - 1 + 1]
                                                             ELSE buffer[i]]
  BY <1>3 DEF ReadInto
<1>6. unread' = SubSeq(unread, 3, Len(unread))
  BY <1>3 DEF ReadInto
<1>7. \A i \in 1 .. 14 : buffer'[i] = IF i <= 2 THEN H[i] ELSE 0
  BY <1>1, <1>5
<1>8. buffer' \in [1 .. 14 -> Nat]
  <2>1. H[1] \in Nat /\ H[2] \in Nat
    BY <1>2
  <2>2. \A i \in 1 .. 14 : buffer'[i] \in Nat
    BY <1>7, <2>1
  <2>3. DOMAIN buffer' = 1 .. 14 /\ buffer' = [i \in 1 .. 14 |-> buffer'[i]]
    BY <1>5
  <2> QED  BY <2>2, <2>3
<1>9. next' = Len(H) - 2
  <2>1. buffer'[2] = H[2]
    BY <1>7
  <2>2. LengthBytes(buffer') = e /\ Masked(buffer') = flags.masked
    BY <1>1, <1>2, <2>1, SecondByteIs DEF H
  <2> QED  BY <1>2, <1>3, <2>2
<1>10. unread' = SubSeq(H, 3, Len(H))
  BY <1>1, <1>6
<1> QED  BY <1>1, <1>3, <1>4, <1>7, <1>8, <1>9, <1>10 DEF FramingInv, H

\* The second read takes the rest of the header (process_state_2).
LEMMA SecondRead == FramingInv /\ ProcessSecond => FramingInv'
<1> SUFFICES ASSUME FramingInv, ProcessSecond PROVE FramingInv'
  OBVIOUS
<1> DEFINE H == TheHeader
<1>1. /\ flags \in AnyFlags /\ length \in AnyLength /\ key \in AnyKey
      /\ buffer \in [1 .. 14 -> Nat]
      /\ unread = SubSeq(H, 3, Len(H)) /\ next = Len(H) - 2
      /\ \A i \in 1 .. 14 : buffer[i] = IF i <= 2 THEN H[i] ELSE 0
  BY DEF FramingInv, ProcessSecond
<1>2. H \in Seq(Nat) /\ Len(H) \in 2 .. 14
  <2>1. \E e \in 0 .. 8, m \in {0, 4} : H \in Seq(Nat) /\ Len(H) = 2 + e + m
    BY <1>1, HeaderIs
  <2> HIDE DEF H
  <2> QED  BY <2>1
<1>3. UNCHANGED <<flags, length, key>> /\ state' = "DATA" /\ ReadInto(3, next)
  BY DEF ProcessSecond
<1>4. H' = H
  BY <1>3 DEF TheHeader
<1> HIDE DEF H
<1>5. buffer' = [i \in 1 .. 14 |-> IF i \in 3 .. (3 + next - 1) THEN unread[i - 3 + 1]
                                                                ELSE buffer[i]]
  BY <1>3 DEF ReadInto
<1>6. unread' = SubSeq(unread, next + 1, Len(unread))
  BY <1>3 DEF ReadInto
<1>7. /\ unread \in Seq(Nat) /\ Len(unread) = Len(H) - 2
      /\ \A j \in 1 .. (Len(H) - 2) : unread[j] = H[j + 2]
  <2>1. /\ SubSeq(H, 3, Len(H)) \in Seq(Nat)
        /\ Len(SubSeq(H, 3, Len(H))) = Len(H) - 2
        /\ \A j \in 1 .. (Len(H) - 2) : SubSeq(H, 3, Len(H))[j] = H[j + 2]
    <3>1. H \in Seq(Nat) /\ Len(H) \in 2 .. 14
      BY <1>2
    <3> DEFINE k == Len(H)
    <3>2. k \in 2 .. 14
      BY <3>1
    <3> HIDE DEF k
    <3>3. k >= 2
      BY ONLY <3>2
    <3> USE DEF k
    <3> QED  BY ONLY <3>1, <3>3, AfterTwo
  <2>2. unread = SubSeq(H, 3, Len(H))
    BY <1>1
  <2> QED  BY ONLY <2>1, <2>2
<1>8. unread' = << >>
  <2>1. next = Len(H) - 2 /\ Len(H) \in 2 .. 14 /\ Len(unread) = Len(H) - 2
    BY <1>1, <1>2, <1>7
  <2>2. next + 1 > Len(unread) /\ next \in Nat
    BY ONLY <2>1
  <2> QED  BY ONLY <1>6, <1>7, <2>2
<1>9. \A i \in 1 .. 14 : buffer'[i] = IF i <= Len(H) THEN H[i] ELSE 0
  <2> SUFFICES ASSUME NEW i \in 1 .. 14
               PROVE  buffer'[i] = IF i <= Len(H) THEN H[i] ELSE 0
    OBVIOUS
  <2>1. buffer'[i] = IF i \in 3 .. Len(H) THEN unread[i - 2] ELSE buffer[i]
    BY <1>1, <1>2, <1>5
  <2>2. CASE i \in 3 .. Len(H)
    <3>1. i - 2 \in 1 .. (Len(H) - 2) /\ (i - 2) + 2 = i
      BY <1>2, <2>2
    <3> QED  BY <1>2, <1>7, <2>1, <2>2, <3>1
  <2>3. CASE ~(i \in 3 .. Len(H))
    <3> DEFINE k == Len(H)
    <3>1. k \in 2 .. 14
      BY <1>2
    <3>2. buffer'[i] = buffer[i]
      BY ONLY <2>1, <2>3
    <3>3. buffer[i] = IF i <= 2 THEN H[i] ELSE 0
      BY ONLY <1>1, i \in 1 .. 14
    <3>4. ~(i \in 3 .. k)
      BY <2>3
    <3> HIDE DEF k
    <3>5. i <= 2 <=> i <= k
      BY ONLY <3>1, <3>4, i \in 1 .. 14
    <3>6. buffer'[i] = IF i <= k THEN H[i] ELSE 0
      BY ONLY <3>2, <3>3, <3>5
    <3> QED  BY ONLY <3>6 DEF k
  <2> QED  BY <2>2, <2>3
<1>10. buffer' \in [1 .. 14 -> Nat]
  <2>1. \A i \in 1 .. 14 : buffer'[i] \in Nat
    <3>1. \A i \in 1 .. Len(H) : H[i] \in Nat
      BY <1>2
    <3>2. Len(H) \in Nat
      BY <1>2
    <3>3. ASSUME NEW i \in 1 .. 14, i <= Len(H) PROVE buffer'[i] \in Nat
      <4>1. buffer'[i] = IF i <= Len(H) THEN H[i] ELSE 0
        BY ONLY <1>9, <3>3
      <4>2. buffer'[i] = H[i]
        BY ONLY <3>3, <4>1
      <4>3. i \in 1 .. Len(H)
        BY <3>2, <3>3
      <4> QED  BY ONLY <3>1, <4>2, <4>3
    <3>4. ASSUME NEW i \in 1 .. 14, ~(i <= Len(H)) PROVE buffer'[i] \in Nat
      <4>1. buffer'[i] = IF i <= Len(H) THEN H[i] ELSE 0
        BY ONLY <1>9, <3>4
      <4>2. buffer'[i] = 0
        BY ONLY <3>4, <4>1
      <4> QED  BY ONLY <4>2
    <3> QED  BY ONLY <3>3, <3>4
  <2>2. DOMAIN buffer' = 1 .. 14 /\ buffer' = [i \in 1 .. 14 |-> buffer'[i]]
    BY <1>5
  <2> QED  BY <2>1, <2>2
<1> QED  BY <1>1, <1>3, <1>4, <1>8, <1>9, <1>10 DEF FramingInv, H

\* A new Header has a zeroed buffer, and the whole header is to come (new_buffer).
LEMMA FramingStarts == FramingInit(AnyFlags, AnyLength, AnyKey) => FramingInv
<1> SUFFICES ASSUME FramingInit(AnyFlags, AnyLength, AnyKey) PROVE FramingInv
  OBVIOUS
<1>1. /\ flags \in AnyFlags /\ length \in AnyLength /\ key \in AnyKey
      /\ unread = TheHeader /\ state = "FIRST" /\ buffer = Zeros(14)
  BY DEF FramingInit, TheHeader
<1>2. buffer \in [1 .. 14 -> Nat] /\ \A i \in 1 .. 14 : buffer[i] = 0
  BY <1>1 DEF Zeros
<1> QED  BY <1>1, <1>2 DEF FramingInv

\* The two reads of Header, for every header makeHeader can write (ws_header.cpp:70-125).
THEOREM FramingInvariant == FramingSafety => []FramingInv
<1>1. FramingInv /\ [FramingNext]_framingVars => FramingInv'
  <2> SUFFICES ASSUME FramingInv, [FramingNext]_framingVars PROVE FramingInv'
    OBVIOUS
  <2>1. CASE UNCHANGED framingVars
    BY <2>1 DEF FramingInv, TheHeader, framingVars
  <2> QED  BY <2>1, FirstRead, SecondRead DEF FramingNext
<1> QED  BY <1>1, FramingStarts, PTL DEF FramingSafety

\* Whatever the 64-bit length, reserve is the size of the header that makeHeader writes
\* for a frame without a mask.
LEMMA ReserveIsExact == FramingInv => FillsTheReserve
<1> SUFFICES ASSUME FramingInv, state = "FIRST", ~flags.masked
             PROVE  Len(unread) = Reserve(length)
  BY DEF FillsTheReserve
<1>1. /\ flags \in AnyFlags /\ length \in AnyLength /\ key \in AnyKey /\ unread = TheHeader
  BY DEF FramingInv
<1>2. PICK e \in 0 .. 8, m \in {0, 4} :
        /\ e = Len(Extended(length)) /\ m = (IF flags.masked THEN 4 ELSE 0)
        /\ Len(TheHeader) = 2 + e + m
  BY <1>1, HeaderIs
<1>3. Len(unread) = 2 + e
  BY <1>1, <1>2
<1>4. Reserve(length) = 2 + e
  <2>1. CASE Small(length)
    <3>1. Len(Extended(length)) = 0
      BY <1>1, <2>1, LengthIs
    <3> QED  BY <1>2, <2>1, <3>1 DEF Reserve
  <2>2. CASE Medium(length)
    <3>1. Len(Extended(length)) = 2 /\ ~Small(length)
      BY <1>1, <2>2, LengthIs
    <3> QED  BY <1>2, <2>2, <3>1 DEF Reserve
  <2>3. CASE ~Small(length) /\ ~Medium(length)
    <3>1. Len(Extended(length)) = 8
      BY <1>1, <2>3, LengthIs
    <3> QED  BY <1>2, <2>3, <3>1 DEF Reserve
  <2> QED  BY <2>1, <2>2, <2>3
<1> QED  BY <1>3, <1>4

\* Session::write writes its header and its payload into just the bytes it allocates
\* (websocket.cpp:14-27, ws_session.cpp:238-248).
THEOREM WriteFillsItsReserve == FramingSafety => []FillsTheReserve
BY FramingInvariant, ReserveIsExact, PTL

\* A slice of the buffer.
LEMMA SliceIs ==
  ASSUME NEW b \in [1 .. 14 -> Nat], NEW p \in Nat, NEW q \in Nat, NEW k \in Nat,
         p <= q, q <= 14, p >= 1, k = q - p + 1
  PROVE  /\ SubSeq(b, p, q) \in Seq(Nat) /\ Len(SubSeq(b, p, q)) = k
         /\ \A i \in 1 .. k : SubSeq(b, p, q)[i] = b[p + i - 1]
<1>1. \A i \in p .. q : b[i] \in Nat
  OBVIOUS
<1>2. SubSeq(b, p, q) \in Seq(Nat)
  BY <1>1, SubSeqProperties
<1>3. Len(SubSeq(b, p, q)) = k
  <2>1. Len(SubSeq(b, p, q)) = IF p <= q THEN q - p + 1 ELSE 0
    BY <1>1, SubSeqProperties
  <2> QED  BY <2>1
<1>4. \A i \in 1 .. k : SubSeq(b, p, q)[i] = b[p + i - 1]
  <2>1. \A i \in 1 .. q - p + 1 : SubSeq(b, p, q)[i] = b[p + i - 1]
    BY <1>1, SubSeqProperties
  <2> QED  BY ONLY <2>1, k = q - p + 1
<1> QED  BY <1>2, <1>3, <1>4

\* What a run of zeros is.
LEMMA ZerosAre ==
  ASSUME NEW k \in Nat
  PROVE  /\ Zeros(k) \in Seq(Nat) /\ Len(Zeros(k)) = k
         /\ \A i \in 1 .. k : Zeros(k)[i] = 0
<1>1. Zeros(k) \in [1 .. k -> Nat] /\ \A i \in 1 .. k : Zeros(k)[i] = 0
  BY DEF Zeros
<1>2. Zeros(k) \in Seq(Nat) /\ Len(Zeros(k)) = k
  BY ONLY <1>1, TupleIs, k \in Nat
<1> QED  BY <1>1, <1>2

\* The three ways the payload's size is read, each the inverse of how it was written.
LEMMA PayloadReadsBack ==
  ASSUME flags \in AnyFlags, length \in AnyLength, key \in AnyKey,
         NEW b \in [1 .. 14 -> Nat], b[2] = TheHeader[2],
         \A i \in 1 .. Len(Extended(length)) : b[2 + i] = Extended(length)[i]
  PROVE  PayloadSize(b) = length
<1> DEFINE n == length
<1>1. n \in Seq(Nat) /\ Len(n) = 8 /\ \A i \in 1 .. 8 : n[i] \in Nat
  BY LengthBytesAre
<1>2. Bits7(b) = Length7(n)
  BY SecondByteIs
<1>3. CASE Small(n)
  <2>1. /\ Length7(n) \in 0 .. 125 /\ Length7(n) = n[8] /\ \A i \in 1 .. 7 : n[i] = 0
    BY <1>3, LengthIs
  <2>2. Bits7(b) = n[8] /\ n[8] # 126 /\ n[8] # 127
    <3>1. Length7(n) \in 0 .. 125
      BY <2>1
    <3>2. Length7(n) # 126 /\ Length7(n) # 127
      BY ONLY <3>1
    <3> QED  BY <1>2, <2>1, <3>2
  <2>3. PayloadSize(b) = Zeros(7) \o <<n[8]>>
    BY <2>2 DEF PayloadSize
  <2> DEFINE z == Zeros(7)
             t == <<n[8]>>
  <2>4. z \in Seq(Nat) /\ Len(z) = 7 /\ \A i \in 1 .. 7 : z[i] = 0
    BY ZerosAre
  <2>5. t \in Seq(Nat) /\ Len(t) = 1 /\ t[1] = n[8]
    BY <1>1
  <2> HIDE DEF z, t
  <2>6. /\ z \o t \in Seq(Nat) /\ Len(z \o t) = Len(z) + Len(t)
        /\ \A i \in 1 .. Len(z) : (z \o t)[i] = z[i]
        /\ \A i \in 1 .. Len(t) : (z \o t)[Len(z) + i] = t[i]
    BY ONLY <2>4, <2>5, ConcatIs
  <2>7. Len(z \o t) = 8 /\ \A i \in 1 .. 8 : (z \o t)[i] = n[i]
    <3>1. \A i \in 1 .. 7 : (z \o t)[i] = n[i]
      <4>1. \A i \in 1 .. 7 : (z \o t)[i] = z[i]
        BY ONLY <2>4, <2>6
      <4>2. \A i \in 1 .. 7 : z[i] = 0 /\ n[i] = 0
        BY ONLY <2>1, <2>4
      <4> HIDE DEF n
      <4> QED  BY ONLY <4>1, <4>2, Zenon
    <3>2. (z \o t)[8] = n[8]
      <4>1. 1 \in 1 .. Len(t) /\ Len(z) + 1 = 8
        BY <2>4, <2>5
      <4> QED  BY ONLY <2>5, <2>6, <4>1
    <3>3. Len(z \o t) = 8
      BY ONLY <2>4, <2>5, <2>6
    <3>4. \A i \in 1 .. 8 : i \in 1 .. 7 \/ i = 8
      OBVIOUS
    <3> QED  BY <3>1, <3>2, <3>3, <3>4
  <2>8. z \o t = n
    BY ONLY <1>1, <2>6, <2>7, SeqEqual
  <2> QED  BY <2>3, <2>8 DEF z, t
<1>4. CASE Medium(n)
  <2>1. /\ Length7(n) = 126 /\ Len(Extended(n)) = 2 /\ \A i \in 1 .. 6 : n[i] = 0
        /\ Extended(n)[1] = n[7] /\ Extended(n)[2] = n[8]
    BY <1>4, LengthIs
  <2>2. PayloadSize(b) = Zeros(6) \o SubSeq(b, 3, 4)
    BY <1>2, <2>1 DEF PayloadSize
  <2> DEFINE z == Zeros(6)
             t == SubSeq(b, 3, 4)
  <2>3. z \in Seq(Nat) /\ Len(z) = 6 /\ \A i \in 1 .. 6 : z[i] = 0
    BY ZerosAre
  <2>4. t \in Seq(Nat) /\ Len(t) = 2 /\ \A i \in 1 .. 2 : t[i] = b[3 + i - 1]
    BY SliceIs
  <2>5. t[1] = n[7] /\ t[2] = n[8]
    <3>1. t[1] = b[3] /\ t[2] = b[4]
      BY <2>4
    <3>2. b[3] = Extended(n)[1] /\ b[4] = Extended(n)[2]
      BY <2>1
    <3> QED  BY <2>1, <3>1, <3>2
  <2> HIDE DEF z, t
  <2>6. /\ z \o t \in Seq(Nat) /\ Len(z \o t) = Len(z) + Len(t)
        /\ \A i \in 1 .. Len(z) : (z \o t)[i] = z[i]
        /\ \A i \in 1 .. Len(t) : (z \o t)[Len(z) + i] = t[i]
    BY ONLY <2>3, <2>4, ConcatIs
  <2>7. Len(z \o t) = 8 /\ \A i \in 1 .. 8 : (z \o t)[i] = n[i]
    <3>1. \A i \in 1 .. 6 : (z \o t)[i] = n[i]
      <4>1. \A i \in 1 .. 6 : (z \o t)[i] = z[i]
        BY ONLY <2>3, <2>6
      <4>2. \A i \in 1 .. 6 : z[i] = 0 /\ n[i] = 0
        BY ONLY <2>1, <2>3
      <4> HIDE DEF n
      <4> QED  BY ONLY <4>1, <4>2, Zenon
    <3>2. (z \o t)[7] = n[7] /\ (z \o t)[8] = n[8]
      <4>1. /\ 1 \in 1 .. Len(t) /\ Len(z) + 1 = 7
            /\ 2 \in 1 .. Len(t) /\ Len(z) + 2 = 8
        BY <2>3, <2>4
      <4> QED  BY ONLY <2>5, <2>6, <4>1
    <3>3. Len(z \o t) = 8
      BY ONLY <2>3, <2>4, <2>6
    <3>4. \A i \in 1 .. 8 : i \in 1 .. 6 \/ i = 7 \/ i = 8
      OBVIOUS
    <3> QED  BY <3>1, <3>2, <3>3, <3>4
  <2>8. z \o t = n
    BY ONLY <1>1, <2>6, <2>7, SeqEqual
  <2> QED  BY <2>2, <2>8 DEF z, t
<1>5. CASE ~Small(n) /\ ~Medium(n)
  <2>1. Length7(n) = 127 /\ Extended(n) = n /\ Len(Extended(n)) = 8
    BY <1>5, LengthIs
  <2>2. PayloadSize(b) = SubSeq(b, 3, 10)
    BY <1>2, <2>1 DEF PayloadSize
  <2> DEFINE t == SubSeq(b, 3, 10)
  <2>3. t \in Seq(Nat) /\ Len(t) = 8 /\ \A i \in 1 .. 8 : t[i] = b[3 + i - 1]
    BY SliceIs
  <2>4. \A i \in 1 .. 8 : t[i] = n[i]
    <3>1. \A i \in 1 .. 8 : b[2 + i] = n[i]
      BY <2>1
    <3>2. \A i \in 1 .. 8 : 3 + i - 1 = 2 + i
      OBVIOUS
    <3> HIDE DEF t
    <3> QED  BY ONLY <2>3, <3>1, <3>2
  <2> HIDE DEF t
  <2>5. t = n
    BY ONLY <1>1, <2>3, <2>4, SeqEqual
  <2> QED  BY <2>2, <2>5 DEF t
<1> QED  BY <1>3, <1>4, <1>5

\* The mask is where the lengths end; a frame without one has zeros there, past the
\* longest header without a mask.
LEMMA MaskReadsBack ==
  ASSUME flags \in AnyFlags, length \in AnyLength, key \in AnyKey,
         NEW b \in [1 .. 14 -> Nat], b[2] = TheHeader[2],
         NEW e \in 0 .. 8, e = Len(Extended(length)),
         flags.masked => \A i \in 1 .. 4 : b[2 + e + i] = key[i],
         ~flags.masked => \A i \in 11 .. 14 : b[i] = 0
  PROVE  MaskOf(b) = IF flags.masked THEN key ELSE Zeros(4)
<1>1. LengthBytes(b) = e /\ Masked(b) = flags.masked
  BY SecondByteIs
<1>2. CASE flags.masked
  <2> DEFINE t == SubSeq(b, 2 + e + 1, 2 + e + 4)
  <2>1. MaskOf(b) = t
    BY <1>1, <1>2 DEF MaskOf, MaskAt
  <2>2. t \in Seq(Nat) /\ Len(t) = 4 /\ \A i \in 1 .. 4 : t[i] = b[(2 + e + 1) + i - 1]
    <3> DEFINE p == 2 + e + 1
               q == 2 + e + 4
    <3>1. /\ p \in Nat /\ q \in Nat /\ 4 \in Nat
          /\ p <= q /\ q <= 14 /\ p >= 1 /\ 4 = q - p + 1
      BY ONLY e \in 0 .. 8
    <3> HIDE DEF p, q
    <3>2. /\ SubSeq(b, p, q) \in Seq(Nat) /\ Len(SubSeq(b, p, q)) = 4
          /\ \A i \in 1 .. 4 : SubSeq(b, p, q)[i] = b[p + i - 1]
      BY ONLY <3>1, SliceIs, b \in [1 .. 14 -> Nat]
    <3> QED  BY ONLY <3>2 DEF p, q, t
  <2>3. key \in Seq(Nat) /\ Len(key) = 4
    <3>1. key \in [1 .. 4 -> Nat] /\ 4 \in Nat
      BY ONLY key \in AnyKey DEF AnyKey
    <3> QED  BY ONLY <3>1, KeyIs, Zenon
  <2>4. \A i \in 1 .. 4 : t[i] = key[i]
    <3>1. \A i \in 1 .. 4 : b[2 + e + i] = key[i]
      BY <1>2
    <3>2. \A i \in 1 .. 4 : (2 + e + 1) + i - 1 = 2 + e + i
      OBVIOUS
    <3> HIDE DEF t
    <3> QED  BY ONLY <2>2, <3>1, <3>2
  <2> HIDE DEF t
  <2>5. t = key
    BY ONLY <2>2, <2>3, <2>4, SeqEqual
  <2> QED  BY <1>2, <2>1, <2>5
<1>3. CASE ~flags.masked
  <2> DEFINE t == SubSeq(b, 11, 14)
             z == Zeros(4)
  <2>1. MaskOf(b) = t
    BY <1>1, <1>3 DEF MaskOf, MaskAt
  <2>2. t \in Seq(Nat) /\ Len(t) = 4 /\ \A i \in 1 .. 4 : t[i] = b[11 + i - 1]
    BY SliceIs
  <2>3. z \in Seq(Nat) /\ Len(z) = 4 /\ \A i \in 1 .. 4 : z[i] = 0
    BY ZerosAre
  <2> HIDE DEF t, z
  <2>4. \A i \in 1 .. 4 : t[i] = z[i]
    <3>1. \A i \in 1 .. 4 : 11 + i - 1 \in 11 .. 14
      OBVIOUS
    <3>2. \A i \in 11 .. 14 : b[i] = 0
      BY <1>3
    <3> QED  BY ONLY <2>2, <2>3, <3>1, <3>2
  <2>5. t = z
    BY ONLY <2>2, <2>3, <2>4, SeqEqual
  <2> QED  BY <1>3, <2>1, <2>5 DEF z
<1> QED  BY <1>2, <1>3

\* What the buffer has when the header is in says what the header was made for.
LEMMA ReadBack == FramingInv => HeaderReadsBack
<1> SUFFICES ASSUME FramingInv, state = "DATA"
             PROVE  /\ buffer[1] = flags.opcode + (IF flags.fin THEN 128 ELSE 0)
                    /\ PayloadSize(buffer) = length
                    /\ MaskOf(buffer) = IF flags.masked THEN key ELSE Zeros(4)
                    /\ unread = << >>
  BY DEF HeaderReadsBack
<1> DEFINE H == TheHeader
           E == Extended(length)
<1>1. /\ flags \in AnyFlags /\ length \in AnyLength /\ key \in AnyKey
      /\ buffer \in [1 .. 14 -> Nat] /\ unread = << >>
      /\ \A i \in 1 .. 14 : buffer[i] = IF i <= Len(H) THEN H[i] ELSE 0
  BY DEF FramingInv
<1>2. PICK e \in 0 .. 8, m \in {0, 4} :
        /\ e = Len(E) /\ m = (IF flags.masked THEN 4 ELSE 0)
        /\ H \in Seq(Nat) /\ Len(H) = 2 + e + m
        /\ H[1] = flags.opcode + (IF flags.fin THEN 128 ELSE 0)
        /\ \A i \in 1 .. e : H[2 + i] = E[i]
        /\ \A i \in 1 .. m : H[2 + e + i] = key[i]
  BY <1>1, HeaderIs
<1> DEFINE n == Len(H)
<1>3. n = 2 + e + m /\ \A i \in 1 .. 14 : buffer[i] = IF i <= n THEN H[i] ELSE 0
  BY <1>1, <1>2
<1> HIDE DEF H, E, n
<1>4. \A i \in 1 .. n : buffer[i] = H[i]
  <2>1. \A i \in 1 .. n : i \in 1 .. 14 /\ i <= n
    BY <1>3
  <2> QED  BY <1>3, <2>1
<1>5. \A i \in (n + 1) .. 14 : buffer[i] = 0
  <2>1. \A i \in (n + 1) .. 14 : i \in 1 .. 14 /\ ~(i <= n)
    BY <1>3
  <2> QED  BY <1>3, <2>1
<1>6. buffer[1] = H[1] /\ buffer[2] = H[2]
  <2>1. 1 \in 1 .. n /\ 2 \in 1 .. n
    BY <1>3
  <2> QED  BY <1>4, <2>1
<1>7. \A i \in 1 .. e : buffer[2 + i] = E[i]
  <2>1. \A i \in 1 .. e : 2 + i \in 1 .. n
    BY <1>3
  <2> QED  BY <1>2, <1>4, <2>1
<1>8. PayloadSize(buffer) = length
  BY <1>1, <1>2, <1>6, <1>7, PayloadReadsBack DEF H, E
<1>9. flags.masked => \A i \in 1 .. 4 : buffer[2 + e + i] = key[i]
  <2> SUFFICES ASSUME flags.masked, NEW i \in 1 .. 4 PROVE buffer[2 + e + i] = key[i]
    OBVIOUS
  <2>1. m = 4
    BY <1>2
  <2>2. 2 + e + i \in 1 .. n /\ i \in 1 .. m
    BY <1>3, <2>1
  <2> QED  BY <1>2, <1>4, <2>2
<1>10. ~flags.masked => \A i \in 11 .. 14 : buffer[i] = 0
  <2> SUFFICES ASSUME ~flags.masked, NEW i \in 11 .. 14 PROVE buffer[i] = 0
    OBVIOUS
  <2>1. m = 0
    BY <1>2
  <2>2. i \in (n + 1) .. 14
    BY <1>3, <2>1
  <2> QED  BY <1>5, <2>2
<1>11. MaskOf(buffer) = IF flags.masked THEN key ELSE Zeros(4)
  <2>1. /\ flags \in AnyFlags /\ length \in AnyLength /\ key \in AnyKey
        /\ buffer \in [1 .. 14 -> Nat]
    BY <1>1
  <2>2. buffer[2] = TheHeader[2]
    BY <1>6 DEF H
  <2>3. e \in 0 .. 8 /\ e = Len(Extended(length))
    BY ONLY <1>2, Zenon DEF E
  <2> QED  BY ONLY <1>9, <1>10, <2>1, <2>2, <2>3, MaskReadsBack
<1> QED  BY <1>1, <1>2, <1>6, <1>8, <1>11

\* What makeHeader writes the two reads of Websocket::Header take back whole: for the
\* opcodes there are, every 64-bit length and every mask (websocket.cpp:29-101,
\* ws_header.cpp:70-125).
THEOREM HeaderSurvives == FramingSafety => []HeaderReadsBack
BY FramingInvariant, ReadBack, PTL
-----------------------------------------------------------------------------
\* The powers of two there are.
LEMMA TwoTos ==
  /\ TwoTo(0) = 1 /\ TwoTo(1) = 2 /\ TwoTo(2) = 4 /\ TwoTo(3) = 8 /\ TwoTo(4) = 16
  /\ TwoTo(5) = 32 /\ TwoTo(6) = 64 /\ TwoTo(7) = 128 /\ TwoTo(8) = 256
BY DEF TwoTo

\* The bits that go out of the accumulator are none of the twelve in use.
LEMMA LowBitsStay ==
  ASSUME NEW y \in Nat
  PROVE  /\ y % Accumulators \in Nat
         /\ (y % Accumulators) % 4096 = y % 4096
<1> DEFINE A == Accumulators
           d == y \div A
           m == y % A
           k == A \div 4096
<1>1. A \in Nat /\ A > 0 /\ A = 4096 * k /\ k \in Nat
  BY Base64Assumption
<1>2. d \in Nat /\ m \in Nat /\ y = A * d + m
  BY <1>1
<1> HIDE DEF d, m, k, A
<1> DEFINE e == k * d
<1>3. e \in Nat
  BY <1>1, <1>2
<1>4. A * d = 4096 * e
  BY <1>1, <1>2
<1> HIDE DEF e
<1>5. y = 4096 * e + m
  BY <1>2, <1>4
<1>6. y % 4096 = m % 4096
  BY <1>2, <1>3, <1>5
<1> QED  BY <1>2, <1>6 DEF m, A

\* The bits of a byte, put together in sixes.
LEMMA ByteBits ==
  ASSUME NEW x \in 0 .. 255
  PROVE  /\ 32 * ((x \div 128) % 2) + 16 * ((x \div 64) % 2) + 8 * ((x \div 32) % 2)
              + 4 * ((x \div 16) % 2) + 2 * ((x \div 8) % 2) + ((x \div 4) % 2) = x \div 4
         /\ 32 * ((x \div 2) % 2) + 16 * (x % 2) = 16 * (x % 4)
         /\ 8 * ((x \div 128) % 2) + 4 * ((x \div 64) % 2) + 2 * ((x \div 32) % 2)
              + ((x \div 16) % 2) = x \div 16
         /\ 32 * ((x \div 8) % 2) + 16 * ((x \div 4) % 2) + 8 * ((x \div 2) % 2) + 4 * (x % 2)
              = 4 * (x % 16)
         /\ 2 * ((x \div 128) % 2) + ((x \div 64) % 2) = x \div 64
         /\ 32 * ((x \div 32) % 2) + 16 * ((x \div 16) % 2) + 8 * ((x \div 8) % 2)
              + 4 * ((x \div 4) % 2) + 2 * ((x \div 2) % 2) + (x % 2) = x % 64
OBVIOUS

\* Bit t of byte p, the most significant first, and zeros after the last byte.
LEMMA BitIs ==
  ASSUME NEW x, NEW p \in Nat, NEW t \in 0 .. 7
  PROVE  Bit(x, 8 * p + t) = IF p < Len(x) THEN (x[p + 1] \div TwoTo(7 - t)) % 2 ELSE 0
<1>1. (8 * p + t) \div 8 = p /\ (8 * p + t) % 8 = t
  OBVIOUS
<1> QED  BY <1>1 DEF Bit

\* All bits of a byte that is there.
LEMMA BitsOfByte ==
  ASSUME NEW x \in Seq(0 .. 255), NEW p \in Nat, p < Len(x)
  PROVE  /\ x[p + 1] \in 0 .. 255
         /\ Bit(x, 8 * p) = (x[p + 1] \div 128) % 2
         /\ Bit(x, 8 * p + 1) = (x[p + 1] \div 64) % 2
         /\ Bit(x, 8 * p + 2) = (x[p + 1] \div 32) % 2
         /\ Bit(x, 8 * p + 3) = (x[p + 1] \div 16) % 2
         /\ Bit(x, 8 * p + 4) = (x[p + 1] \div 8) % 2
         /\ Bit(x, 8 * p + 5) = (x[p + 1] \div 4) % 2
         /\ Bit(x, 8 * p + 6) = (x[p + 1] \div 2) % 2
         /\ Bit(x, 8 * p + 7) = x[p + 1] % 2
<1>1. p + 1 \in 1 .. Len(x)
  OBVIOUS
<1>2. x[p + 1] \in 0 .. 255
  BY <1>1, ElementOfSeq
<1>3. \A t \in 0 .. 7 : Bit(x, 8 * p + t) = (x[p + 1] \div TwoTo(7 - t)) % 2
  BY BitIs
<1>4. /\ 7 - 0 = 7 /\ 7 - 1 = 6 /\ 7 - 2 = 5 /\ 7 - 3 = 4 /\ 7 - 4 = 3 /\ 7 - 5 = 2
      /\ 7 - 6 = 1 /\ 7 - 7 = 0 /\ 8 * p + 0 = 8 * p
  OBVIOUS
<1>5. x[p + 1] \div 1 = x[p + 1]
  <2> DEFINE b == x[p + 1]
  <2>1. b \in 0 .. 255
    BY <1>2
  <2> HIDE DEF b
  <2>2. b \div 1 = b
    BY ONLY <2>1
  <2> QED  BY ONLY <2>2 DEF b
<1>6. Bit(x, 8 * p) = (x[p + 1] \div 128) % 2 /\ Bit(x, 8 * p + 1) = (x[p + 1] \div 64) % 2
  BY <1>3, <1>4, TwoTos
<1>7. Bit(x, 8 * p + 2) = (x[p + 1] \div 32) % 2 /\ Bit(x, 8 * p + 3) = (x[p + 1] \div 16) % 2
  BY <1>3, <1>4, TwoTos
<1>8. Bit(x, 8 * p + 4) = (x[p + 1] \div 8) % 2 /\ Bit(x, 8 * p + 5) = (x[p + 1] \div 4) % 2
  BY <1>3, <1>4, TwoTos
<1>9. Bit(x, 8 * p + 6) = (x[p + 1] \div 2) % 2 /\ Bit(x, 8 * p + 7) = x[p + 1] % 2
  BY <1>3, <1>4, <1>5, TwoTos
<1> QED  BY <1>2, <1>6, <1>7, <1>8, <1>9

\* After the last byte there are only zeros.
LEMMA BitsPastEnd ==
  ASSUME NEW x \in Seq(0 .. 255), NEW p \in Nat, ~(p < Len(x)), NEW t \in 0 .. 7
  PROVE  Bit(x, 8 * p + t) = 0
BY BitIs

\* Where the bits of each of the four groups of three bytes are.
LEMMA GroupBits ==
  ASSUME NEW x, NEW q \in Nat, NEW p \in Nat, p = 3 * q
  PROVE  /\ Group(x, 4 * q) = 32 * Bit(x, 8 * p) + 16 * Bit(x, 8 * p + 1)
              + 8 * Bit(x, 8 * p + 2) + 4 * Bit(x, 8 * p + 3)
              + 2 * Bit(x, 8 * p + 4) + Bit(x, 8 * p + 5)
         /\ Group(x, 4 * q + 1) = 32 * Bit(x, 8 * p + 6) + 16 * Bit(x, 8 * p + 7)
              + 8 * Bit(x, 8 * (p + 1)) + 4 * Bit(x, 8 * (p + 1) + 1)
              + 2 * Bit(x, 8 * (p + 1) + 2) + Bit(x, 8 * (p + 1) + 3)
         /\ Group(x, 4 * q + 2) = 32 * Bit(x, 8 * (p + 1) + 4) + 16 * Bit(x, 8 * (p + 1) + 5)
              + 8 * Bit(x, 8 * (p + 1) + 6) + 4 * Bit(x, 8 * (p + 1) + 7)
              + 2 * Bit(x, 8 * (p + 2)) + Bit(x, 8 * (p + 2) + 1)
         /\ Group(x, 4 * q + 3) = 32 * Bit(x, 8 * (p + 2) + 2) + 16 * Bit(x, 8 * (p + 2) + 3)
              + 8 * Bit(x, 8 * (p + 2) + 4) + 4 * Bit(x, 8 * (p + 2) + 5)
              + 2 * Bit(x, 8 * (p + 2) + 6) + Bit(x, 8 * (p + 2) + 7)
<1>1. /\ 6 * (4 * q) = 8 * p /\ 6 * (4 * q) + 1 = 8 * p + 1 /\ 6 * (4 * q) + 2 = 8 * p + 2
      /\ 6 * (4 * q) + 3 = 8 * p + 3 /\ 6 * (4 * q) + 4 = 8 * p + 4
      /\ 6 * (4 * q) + 5 = 8 * p + 5
  OBVIOUS
<1>2. /\ 6 * (4 * q + 1) = 8 * p + 6 /\ 6 * (4 * q + 1) + 1 = 8 * p + 7
      /\ 6 * (4 * q + 1) + 2 = 8 * (p + 1) /\ 6 * (4 * q + 1) + 3 = 8 * (p + 1) + 1
      /\ 6 * (4 * q + 1) + 4 = 8 * (p + 1) + 2 /\ 6 * (4 * q + 1) + 5 = 8 * (p + 1) + 3
  OBVIOUS
<1>3. /\ 6 * (4 * q + 2) = 8 * (p + 1) + 4 /\ 6 * (4 * q + 2) + 1 = 8 * (p + 1) + 5
      /\ 6 * (4 * q + 2) + 2 = 8 * (p + 1) + 6 /\ 6 * (4 * q + 2) + 3 = 8 * (p + 1) + 7
      /\ 6 * (4 * q + 2) + 4 = 8 * (p + 2) /\ 6 * (4 * q + 2) + 5 = 8 * (p + 2) + 1
  OBVIOUS
<1>4. /\ 6 * (4 * q + 3) = 8 * (p + 2) + 2 /\ 6 * (4 * q + 3) + 1 = 8 * (p + 2) + 3
      /\ 6 * (4 * q + 3) + 2 = 8 * (p + 2) + 4 /\ 6 * (4 * q + 3) + 3 = 8 * (p + 2) + 5
      /\ 6 * (4 * q + 3) + 4 = 8 * (p + 2) + 6 /\ 6 * (4 * q + 3) + 5 = 8 * (p + 2) + 7
  OBVIOUS
<1>5. Group(x, 4 * q) = 32 * Bit(x, 8 * p) + 16 * Bit(x, 8 * p + 1)
              + 8 * Bit(x, 8 * p + 2) + 4 * Bit(x, 8 * p + 3)
              + 2 * Bit(x, 8 * p + 4) + Bit(x, 8 * p + 5)
  BY ONLY <1>1, Zenon DEF Group
<1>6. Group(x, 4 * q + 1) = 32 * Bit(x, 8 * p + 6) + 16 * Bit(x, 8 * p + 7)
              + 8 * Bit(x, 8 * (p + 1)) + 4 * Bit(x, 8 * (p + 1) + 1)
              + 2 * Bit(x, 8 * (p + 1) + 2) + Bit(x, 8 * (p + 1) + 3)
  BY ONLY <1>2, Zenon DEF Group
<1>7. Group(x, 4 * q + 2) = 32 * Bit(x, 8 * (p + 1) + 4) + 16 * Bit(x, 8 * (p + 1) + 5)
              + 8 * Bit(x, 8 * (p + 1) + 6) + 4 * Bit(x, 8 * (p + 1) + 7)
              + 2 * Bit(x, 8 * (p + 2)) + Bit(x, 8 * (p + 2) + 1)
  BY ONLY <1>3, Zenon DEF Group
<1>8. Group(x, 4 * q + 3) = 32 * Bit(x, 8 * (p + 2) + 2) + 16 * Bit(x, 8 * (p + 2) + 3)
              + 8 * Bit(x, 8 * (p + 2) + 4) + 4 * Bit(x, 8 * (p + 2) + 5)
              + 2 * Bit(x, 8 * (p + 2) + 6) + Bit(x, 8 * (p + 2) + 7)
  BY ONLY <1>4, Zenon DEF Group
<1> QED  BY <1>5, <1>6, <1>7, <1>8

\* The four characters three bytes make: each group, in terms of its bytes.
LEMMA GroupIs ==
  ASSUME NEW x \in Seq(0 .. 255), NEW q \in Nat, NEW p \in Nat, p = 3 * q
  PROVE  /\ p < Len(x) => Group(x, 4 * q) = x[p + 1] \div 4
         /\ p < Len(x) => Group(x, 4 * q + 1) =
              16 * (x[p + 1] % 4) + (IF p + 1 < Len(x) THEN x[p + 2] \div 16 ELSE 0)
         /\ p + 1 < Len(x) => Group(x, 4 * q + 2) =
              4 * (x[p + 2] % 16) + (IF p + 2 < Len(x) THEN x[p + 3] \div 64 ELSE 0)
         /\ p + 2 < Len(x) => Group(x, 4 * q + 3) = x[p + 3] % 64
<1> DEFINE a == x[p + 1]
           b == x[p + 2]
           c == x[p + 3]
<1>1. /\ p + 1 \in Nat /\ p + 2 \in Nat /\ (p + 1) + 1 = p + 2 /\ (p + 2) + 1 = p + 3
      /\ Len(x) \in Nat
  OBVIOUS
<1>2. ASSUME p < Len(x) PROVE Group(x, 4 * q) = a \div 4
  <2>1. a \in 0 .. 255
    BY <1>2, BitsOfByte
  <2>2. Group(x, 4 * q) = 32 * ((a \div 128) % 2) + 16 * ((a \div 64) % 2)
          + 8 * ((a \div 32) % 2) + 4 * ((a \div 16) % 2) + 2 * ((a \div 8) % 2)
          + ((a \div 4) % 2)
    <3>1. /\ Bit(x, 8 * p) = (a \div 128) % 2 /\ Bit(x, 8 * p + 1) = (a \div 64) % 2
          /\ Bit(x, 8 * p + 2) = (a \div 32) % 2 /\ Bit(x, 8 * p + 3) = (a \div 16) % 2
          /\ Bit(x, 8 * p + 4) = (a \div 8) % 2 /\ Bit(x, 8 * p + 5) = (a \div 4) % 2
      BY <1>2, BitsOfByte
    <3>2. Group(x, 4 * q) = 32 * Bit(x, 8 * p) + 16 * Bit(x, 8 * p + 1)
              + 8 * Bit(x, 8 * p + 2) + 4 * Bit(x, 8 * p + 3)
              + 2 * Bit(x, 8 * p + 4) + Bit(x, 8 * p + 5)
      BY GroupBits
    <3> HIDE DEF a
    <3> QED  BY ONLY <3>1, <3>2, Zenon
  <2> HIDE DEF a
  <2> QED  BY ONLY <2>1, <2>2, ByteBits
<1>3. ASSUME p < Len(x)
      PROVE  Group(x, 4 * q + 1) = 16 * (a % 4) + (IF p + 1 < Len(x) THEN b \div 16 ELSE 0)
  <2> DEFINE d == Bit(x, 8 * (p + 1))
             e == Bit(x, 8 * (p + 1) + 1)
             f == Bit(x, 8 * (p + 1) + 2)
             g == Bit(x, 8 * (p + 1) + 3)
  <2>1. /\ a \in 0 .. 255 /\ Bit(x, 8 * p + 6) = (a \div 2) % 2 /\ Bit(x, 8 * p + 7) = a % 2
    BY <1>3, BitsOfByte
  <2>2. Group(x, 4 * q + 1) = 32 * Bit(x, 8 * p + 6) + 16 * Bit(x, 8 * p + 7)
          + 8 * d + 4 * e + 2 * f + g
    BY GroupBits
  <2>3. CASE p + 1 < Len(x)
    <3>1. /\ x[(p + 1) + 1] \in 0 .. 255
          /\ d = (x[(p + 1) + 1] \div 128) % 2 /\ e = (x[(p + 1) + 1] \div 64) % 2
          /\ f = (x[(p + 1) + 1] \div 32) % 2 /\ g = (x[(p + 1) + 1] \div 16) % 2
      BY <1>1, <2>3, BitsOfByte
    <3>2. x[(p + 1) + 1] = b
      BY <1>1
    <3> HIDE DEF a, b, d, e, f, g
    <3>3. /\ b \in 0 .. 255 /\ d = (b \div 128) % 2 /\ e = (b \div 64) % 2
          /\ f = (b \div 32) % 2 /\ g = (b \div 16) % 2
      BY ONLY <3>1, <3>2, Zenon
    <3>4. 8 * d + 4 * e + 2 * f + g = b \div 16 /\ d \in Nat /\ e \in Nat /\ f \in Nat
      BY ONLY <3>3, ByteBits
    <3>5. 32 * ((a \div 2) % 2) + 16 * (a % 2) = 16 * (a % 4)
      BY ONLY <2>1, ByteBits
    <3> DEFINE s == 32 * Bit(x, 8 * p + 6) + 16 * Bit(x, 8 * p + 7)
    <3>6. s = 16 * (a % 4)
      BY ONLY <2>1, <3>5, Zenon
    <3>7. Group(x, 4 * q + 1) = s + 8 * d + 4 * e + 2 * f + g
      BY ONLY <2>2, Zenon
    <3> HIDE DEF s
    <3>8. s + 8 * d + 4 * e + 2 * f + g = 16 * (a % 4) + b \div 16
      BY ONLY <2>1, <3>3, <3>4, <3>6
    <3> QED  BY ONLY <2>3, <3>7, <3>8, Zenon
  <2>4. CASE ~(p + 1 < Len(x))
    <3>1. 0 \in 0 .. 7 /\ 1 \in 0 .. 7 /\ 2 \in 0 .. 7 /\ 3 \in 0 .. 7
          /\ 8 * (p + 1) = 8 * (p + 1) + 0
      OBVIOUS
    <3>2. d = 0 /\ e = 0 /\ f = 0 /\ g = 0
      BY <1>1, <2>4, <3>1, BitsPastEnd
    <3> HIDE DEF a, b, d, e, f, g
    <3>3. 32 * ((a \div 2) % 2) + 16 * (a % 2) = 16 * (a % 4)
      BY ONLY <2>1, ByteBits
    <3> DEFINE s == 32 * Bit(x, 8 * p + 6) + 16 * Bit(x, 8 * p + 7)
    <3>4. s = 16 * (a % 4)
      BY ONLY <2>1, <3>3, Zenon
    <3>5. Group(x, 4 * q + 1) = s + 8 * d + 4 * e + 2 * f + g
      BY ONLY <2>2, Zenon
    <3> HIDE DEF s
    <3>6. s + 8 * d + 4 * e + 2 * f + g = 16 * (a % 4) + 0
      BY ONLY <2>1, <3>2, <3>4
    <3> QED  BY ONLY <2>4, <3>5, <3>6, Zenon
  <2> QED  BY <2>3, <2>4
<1>4. ASSUME p + 1 < Len(x)
      PROVE  Group(x, 4 * q + 2) = 4 * (b % 16) + (IF p + 2 < Len(x) THEN c \div 64 ELSE 0)
  <2> DEFINE d == Bit(x, 8 * (p + 2))
             e == Bit(x, 8 * (p + 2) + 1)
             s == 32 * Bit(x, 8 * (p + 1) + 4) + 16 * Bit(x, 8 * (p + 1) + 5)
                    + 8 * Bit(x, 8 * (p + 1) + 6) + 4 * Bit(x, 8 * (p + 1) + 7)
  <2>1. /\ x[(p + 1) + 1] \in 0 .. 255
        /\ Bit(x, 8 * (p + 1) + 4) = (x[(p + 1) + 1] \div 8) % 2
        /\ Bit(x, 8 * (p + 1) + 5) = (x[(p + 1) + 1] \div 4) % 2
        /\ Bit(x, 8 * (p + 1) + 6) = (x[(p + 1) + 1] \div 2) % 2
        /\ Bit(x, 8 * (p + 1) + 7) = x[(p + 1) + 1] % 2
    BY <1>1, <1>4, BitsOfByte
  <2>2. x[(p + 1) + 1] = b
    BY <1>1
  <2>3. Group(x, 4 * q + 2) = s + 2 * d + e
    BY GroupBits
  <2>4. b \in 0 .. 255 /\ s = 4 * (b % 16)
    <3> HIDE DEF b
    <3>1. /\ b \in 0 .. 255
          /\ s = 32 * ((b \div 8) % 2) + 16 * ((b \div 4) % 2) + 8 * ((b \div 2) % 2)
                   + 4 * (b % 2)
      BY ONLY <2>1, <2>2, Zenon
    <3> HIDE DEF s
    <3> QED  BY ONLY <3>1, ByteBits
  <2>5. CASE p + 2 < Len(x)
    <3>1. /\ x[(p + 2) + 1] \in 0 .. 255
          /\ d = (x[(p + 2) + 1] \div 128) % 2 /\ e = (x[(p + 2) + 1] \div 64) % 2
      BY <1>1, <2>5, BitsOfByte
    <3>2. x[(p + 2) + 1] = c
      BY <1>1
    <3> HIDE DEF b, c, d, e, s
    <3>3. c \in 0 .. 255 /\ d = (c \div 128) % 2 /\ e = (c \div 64) % 2
      BY ONLY <3>1, <3>2, Zenon
    <3>4. 2 * d + e = c \div 64 /\ d \in Nat
      BY ONLY <3>3, ByteBits
    <3>5. s + 2 * d + e = 4 * (b % 16) + c \div 64
      BY ONLY <2>4, <3>3, <3>4
    <3> QED  BY ONLY <2>3, <2>5, <3>5, Zenon
  <2>6. CASE ~(p + 2 < Len(x))
    <3>1. 0 \in 0 .. 7 /\ 1 \in 0 .. 7 /\ 8 * (p + 2) = 8 * (p + 2) + 0
      OBVIOUS
    <3>2. d = 0 /\ e = 0
      BY <1>1, <2>6, <3>1, BitsPastEnd
    <3> HIDE DEF b, c, d, e, s
    <3>3. s + 2 * d + e = 4 * (b % 16) + 0
      BY ONLY <2>4, <3>2
    <3> QED  BY ONLY <2>3, <2>6, <3>3, Zenon
  <2> QED  BY <2>5, <2>6
<1>5. ASSUME p + 2 < Len(x) PROVE Group(x, 4 * q + 3) = c % 64
  <2>1. /\ x[(p + 2) + 1] \in 0 .. 255
        /\ Bit(x, 8 * (p + 2) + 2) = (x[(p + 2) + 1] \div 32) % 2
        /\ Bit(x, 8 * (p + 2) + 3) = (x[(p + 2) + 1] \div 16) % 2
        /\ Bit(x, 8 * (p + 2) + 4) = (x[(p + 2) + 1] \div 8) % 2
        /\ Bit(x, 8 * (p + 2) + 5) = (x[(p + 2) + 1] \div 4) % 2
        /\ Bit(x, 8 * (p + 2) + 6) = (x[(p + 2) + 1] \div 2) % 2
        /\ Bit(x, 8 * (p + 2) + 7) = x[(p + 2) + 1] % 2
    BY <1>1, <1>5, BitsOfByte
  <2>2. x[(p + 2) + 1] = c
    BY <1>1
  <2>3. Group(x, 4 * q + 3) = 32 * Bit(x, 8 * (p + 2) + 2) + 16 * Bit(x, 8 * (p + 2) + 3)
          + 8 * Bit(x, 8 * (p + 2) + 4) + 4 * Bit(x, 8 * (p + 2) + 5)
          + 2 * Bit(x, 8 * (p + 2) + 6) + Bit(x, 8 * (p + 2) + 7)
    BY GroupBits
  <2> HIDE DEF c
  <2>4. /\ c \in 0 .. 255
        /\ Group(x, 4 * q + 3) = 32 * ((c \div 32) % 2) + 16 * ((c \div 16) % 2)
             + 8 * ((c \div 8) % 2) + 4 * ((c \div 4) % 2) + 2 * ((c \div 2) % 2) + (c % 2)
    BY ONLY <2>1, <2>2, <2>3, Zenon
  <2> QED  BY ONLY <2>4, ByteBits
<1> QED  BY <1>2, <1>3, <1>4, <1>5
-----------------------------------------------------------------------------
\* Every input there can be: those for which the size of the string, counted times three,
\* is a size_t.
Storable == {x \in Seq(0 .. 255) : (Len(x) + 1) * 4 < SizeT}
Base64Safety == Base64Init(Storable) /\ [][Base64Next]_base64Vars

\* What text is made of.
Chars == 0 .. 63 \cup {Pad}

\* Each character of t is its six bits of the input.
AllGroups(t) == \A i \in 1 .. Len(t) : t[i] = Group(input, i - 1)

\* Between two bytes none, two or four bits are left, the last of the byte before; all
\* the others are in characters.
Carried == /\ bits = 2 * (at % 3)
           /\ Len(text) = 4 * (at \div 3) + (at % 3)
           /\ bits = 2 => accumulator % 4 = input[at] % 4
           /\ bits = 4 => accumulator % 16 = input[at] % 16

\* How many characters the bits of n bytes fill.
Characters(n) == 4 * (n \div 3) + (IF n % 3 = 0 THEN 0 ELSE (n % 3) + 1)

\* A finished text is the characters of the input, and padding.
Finished == /\ Len(text) \in Nat /\ Characters(Len(input)) <= Len(text)
            /\ \A i \in 1 .. Len(text) :
                 \/ i <= Characters(Len(input)) /\ text[i] = Group(input, i - 1) /\ text[i] \in 0 .. 63
                 \/ i > Characters(Len(input)) /\ text[i] = Pad

\* Before the end all that is put out is characters, with Carried's bits left to put out.
EncodeInv == /\ input \in Seq(0 .. 255) /\ at \in Nat
             /\ accumulator \in Nat
             /\ at <= Len(input) => /\ text \in Seq(0 .. 63)
                                    /\ AllGroups(text)
                                    /\ Carried
             /\ at > Len(input) => Finished
             /\ CharactersAreGroups /\ AnswerIsPadded /\ AbortsOnlyForNothing

\* The twelve bits in use of an accumulator n are a byte y and four bits of a.
Moved(n, a, y) == n % 4096 = 256 * (a % 16) + y

\* A byte goes into the accumulator.
LEMMA ShiftIn ==
  ASSUME NEW a \in Nat, NEW y \in 0 .. 255
  PROVE  /\ (ShiftLeft(a, 8) + y) % Accumulators \in Nat
         /\ Moved((ShiftLeft(a, 8) + y) % Accumulators, a, y)
<1> DEFINE m == (a * 256) % Accumulators
           n == (ShiftLeft(a, 8) + y) % Accumulators
<1>1. m \in Nat /\ m % 4096 = (a * 256) % 4096
  BY LowBitsStay
<1>2. (a * 256) % 4096 = 256 * (a % 16)
  OBVIOUS
<1>3. n = (m + y) % Accumulators
  BY TwoTos DEF ShiftLeft
<1> HIDE DEF m, n
<1>4. m + y \in Nat
  BY <1>1
<1>5. n \in Nat /\ n % 4096 = (m + y) % 4096
  BY <1>3, <1>4, LowBitsStay
<1>6. (m + y) % 4096 = 256 * (a % 16) + y
  BY <1>1, <1>2
<1> QED  BY <1>5, <1>6 DEF n, Moved

\* One character that goes out of it is a sequence of one.
LEMMA SixIs == ASSUME NEW f \in [1 .. 1 -> 0 .. 63] PROVE f \in Seq(0 .. 63) /\ Len(f) = 1
BY TupleIs

\* And two are a sequence of two.
LEMMA SixesTwo == ASSUME NEW f \in [1 .. 2 -> 0 .. 63] PROVE f \in Seq(0 .. 63) /\ Len(f) = 2
BY TupleIs

\* The characters that go out of it.
LEMMA SixesAre ==
  ASSUME NEW a \in Nat
  PROVE  /\ /\ Sixes(8, a) \in Seq(0 .. 63) /\ Len(Sixes(8, a)) = 1
            /\ Sixes(8, a)[1] = (a \div 4) % 64
         /\ /\ Sixes(10, a) \in Seq(0 .. 63) /\ Len(Sixes(10, a)) = 1
            /\ Sixes(10, a)[1] = (a \div 16) % 64
         /\ /\ Sixes(12, a) \in Seq(0 .. 63) /\ Len(Sixes(12, a)) = 2
            /\ Sixes(12, a)[1] = (a \div 64) % 64 /\ Sixes(12, a)[2] = a % 64
<1>1. 8 \div 6 = 1 /\ 10 \div 6 = 1 /\ 12 \div 6 = 2
  OBVIOUS
<1>2. /\ 8 - 6 * 1 = 2 /\ 10 - 6 * 1 = 4 /\ 12 - 6 * 1 = 6 /\ 12 - 6 * 2 = 0
      /\ a \div 1 = a
  OBVIOUS
<1>3. /\ (a \div 4) % 64 \in 0 .. 63 /\ (a \div 16) % 64 \in 0 .. 63
      /\ (a \div 64) % 64 \in 0 .. 63 /\ a % 64 \in 0 .. 63
  OBVIOUS
<1>4. Sixes(8, a) = [i \in 1 .. 1 |-> (a \div TwoTo(8 - 6 * i)) % 64]
  BY <1>1 DEF Sixes, ShiftRight
<1>5. Sixes(10, a) = [i \in 1 .. 1 |-> (a \div TwoTo(10 - 6 * i)) % 64]
  BY <1>1 DEF Sixes, ShiftRight
<1>6. Sixes(12, a) = [i \in 1 .. 2 |-> (a \div TwoTo(12 - 6 * i)) % 64]
  BY <1>1 DEF Sixes, ShiftRight
<1>7. 1 \in 1 .. 1 /\ 1 \in 1 .. 2 /\ 2 \in 1 .. 2 /\ 1 \in Nat /\ 2 \in Nat
      /\ (\A i \in 1 .. 1 : i = 1) /\ (\A i \in 1 .. 2 : i = 1 \/ i = 2)
  OBVIOUS
<1>8. Sixes(8, a)[1] = (a \div 4) % 64
  <2>1. Sixes(8, a)[1] = (a \div TwoTo(8 - 6 * 1)) % 64
    BY <1>4, <1>7
  <2>2. TwoTo(8 - 6 * 1) = 4
    BY <1>2, TwoTos
  <2> QED  BY ONLY <2>1, <2>2
<1>9. Sixes(10, a)[1] = (a \div 16) % 64
  <2>1. Sixes(10, a)[1] = (a \div TwoTo(10 - 6 * 1)) % 64
    BY <1>5, <1>7
  <2>2. TwoTo(10 - 6 * 1) = 16
    BY <1>2, TwoTos
  <2> QED  BY ONLY <2>1, <2>2
<1>10. Sixes(12, a)[1] = (a \div 64) % 64 /\ Sixes(12, a)[2] = a % 64
  <2>1. Sixes(12, a)[1] = (a \div TwoTo(12 - 6 * 1)) % 64
    BY <1>6, <1>7
  <2>2. Sixes(12, a)[2] = (a \div TwoTo(12 - 6 * 2)) % 64
    BY <1>6, <1>7
  <2>3. TwoTo(12 - 6 * 1) = 64 /\ TwoTo(12 - 6 * 2) = 1
    BY <1>2, TwoTos
  <2>4. Sixes(12, a)[1] = (a \div 64) % 64 /\ Sixes(12, a)[2] = (a \div 1) % 64
    BY ONLY <2>1, <2>2, <2>3
  <2> QED  BY ONLY <1>2, <2>4
<1>11. Sixes(8, a) \in Seq(0 .. 63) /\ Len(Sixes(8, a)) = 1
  <2>1. \A i \in 1 .. 1 : Sixes(8, a)[i] \in 0 .. 63
    BY ONLY <1>3, <1>7, <1>8, Zenon
  <2>2. Sixes(8, a) = [i \in 1 .. 1 |-> Sixes(8, a)[i]]
    BY ONLY <1>4, Zenon
  <2>3. Sixes(8, a) \in [1 .. 1 -> 0 .. 63]
    BY ONLY <2>1, <2>2, Zenon
  <2> QED  BY ONLY <2>3, SixIs, Zenon
<1>12. Sixes(10, a) \in Seq(0 .. 63) /\ Len(Sixes(10, a)) = 1
  <2>1. \A i \in 1 .. 1 : Sixes(10, a)[i] \in 0 .. 63
    BY ONLY <1>3, <1>7, <1>9, Zenon
  <2>2. Sixes(10, a) = [i \in 1 .. 1 |-> Sixes(10, a)[i]]
    BY ONLY <1>5, Zenon
  <2>3. Sixes(10, a) \in [1 .. 1 -> 0 .. 63]
    BY ONLY <2>1, <2>2, Zenon
  <2> QED  BY ONLY <2>3, SixIs, Zenon
<1>13. Sixes(12, a) \in Seq(0 .. 63) /\ Len(Sixes(12, a)) = 2
  <2>1. \A i \in 1 .. 2 : Sixes(12, a)[i] \in 0 .. 63
    BY ONLY <1>3, <1>7, <1>10, Zenon
  <2>2. Sixes(12, a) = [i \in 1 .. 2 |-> Sixes(12, a)[i]]
    BY ONLY <1>6, Zenon
  <2>3. Sixes(12, a) \in [1 .. 2 -> 0 .. 63]
    BY ONLY <2>1, <2>2, Zenon
  <2> QED  BY ONLY <2>3, SixesTwo, Zenon
<1> QED  BY ONLY <1>8, <1>9, <1>10, <1>11, <1>12, <1>13, Zenon

\* Characters put out after others.
LEMMA PutOut ==
  ASSUME NEW t \in Seq(0 .. 63), AllGroups(t), NEW c \in Seq(0 .. 63),
         \A i \in 1 .. Len(c) : c[i] = Group(input, Len(t) + i - 1)
  PROVE  t \o c \in Seq(0 .. 63) /\ Len(t \o c) = Len(t) + Len(c) /\ AllGroups(t \o c)
<1> DEFINE u == t \o c
<1>1. u \in Seq(0 .. 63) /\ Len(u) = Len(t) + Len(c) /\ Len(t) \in Nat /\ Len(c) \in Nat
  OBVIOUS
<1>2. ASSUME NEW i \in 1 .. Len(u) PROVE u[i] = Group(input, i - 1)
  <2>1. CASE i <= Len(t)
    <3>1. i \in 1 .. Len(t) /\ u[i] = t[i]
      BY <1>1, <2>1
    <3> QED  BY <3>1 DEF AllGroups
  <2>2. CASE ~(i <= Len(t))
    <3>1. i - Len(t) \in 1 .. Len(c) /\ u[i] = c[i - Len(t)]
      BY <1>1, <2>2
    <3>2. Len(t) + (i - Len(t)) - 1 = i - 1
      BY <1>1
    <3> HIDE DEF u
    <3> QED  BY <3>1, <3>2, Zenon
  <2> QED  BY <2>1, <2>2
<1> HIDE DEF u
<1>3. AllGroups(u)
  BY <1>2 DEF AllGroups
<1> QED  BY <1>1, <1>3 DEF u

\* One byte of base64_encode's loop.
LEMMA EncodeByteStep == EncodeInv /\ EncodeByte => EncodeInv'
<1> SUFFICES ASSUME EncodeInv, EncodeByte PROVE EncodeInv'
  OBVIOUS
<1> DEFINE q == at \div 3
           r == at % 3
           p == 3 * q
           y == input[at + 1]
           n == accumulator'
<1>1. /\ input \in Seq(0 .. 255) /\ at \in Nat /\ accumulator \in Nat
      /\ Len(input) \in Nat /\ at < Len(input) /\ at' = at + 1 /\ input' = input
      /\ n = (ShiftLeft(accumulator, 8) + y) % Accumulators
      /\ text' = text \o Sixes(bits + 8, n) /\ bits' = (bits + 8) % 6
  BY DEF EncodeInv, EncodeByte
<1>2. text \in Seq(0 .. 63) /\ AllGroups(text) /\ Carried
  BY <1>1 DEF EncodeInv
<1>3. /\ q \in Nat /\ r \in {0, 1, 2} /\ p \in Nat /\ p = 3 * q /\ at = p + r
      /\ p < Len(input) /\ (r = 0 => at = p) /\ (r = 1 => at = p + 1) /\ (r = 2 => at = p + 2)
  BY <1>1
<1>4. y \in 0 .. 255
  <2>1. at + 1 \in 1 .. Len(input)
    BY <1>1
  <2> QED  BY <1>1, <2>1, ElementOfSeq
<1>5. n \in Nat /\ Moved(n, accumulator, y)
  BY ONLY <1>1, <1>4, ShiftIn, Zenon
<1>6. /\ bits = 2 * r /\ Len(text) = 4 * q + r
      /\ bits = 2 => accumulator % 4 = input[at] % 4
      /\ bits = 4 => accumulator % 16 = input[at] % 16
  BY <1>2 DEF Carried
<1> DEFINE c == Sixes(bits + 8, n)
<1> HIDE DEF q, r, p, y, n, c
<1>7. ASSUME c \in Seq(0 .. 63),
             \A i \in 1 .. Len(c) : c[i] = Group(input, Len(text) + i - 1),
             \/ Len(c) = 1 /\ r = 0 /\ bits' = 2 /\ n % 4 = y % 4
             \/ Len(c) = 1 /\ r = 1 /\ bits' = 4 /\ n % 16 = y % 16
             \/ Len(c) = 2 /\ r = 2 /\ bits' = 0
      PROVE  EncodeInv'
  <2> DEFINE u == text \o c
  <2>1. u \in Seq(0 .. 63) /\ Len(u) = Len(text) + Len(c) /\ AllGroups(u)
    BY <1>2, <1>7, PutOut
  <2>2. text' = u
    BY <1>1 DEF c, n
  <2> HIDE DEF u
  <2>3. text' \in Seq(0 .. 63) /\ (AllGroups(text))'
    <3>1. input' = input
      BY <1>1
    <3>2. \A i \in 1 .. Len(text') : text'[i] = Group(input, i - 1)
      BY <2>1, <2>2, Zenon DEF AllGroups
    <3>3. \A i \in 1 .. Len(text') : text'[i] = Group(input', i - 1)
      BY ONLY <3>1, <3>2, Zenon
    <3>5. (AllGroups(text))'
      BY ONLY <3>3, Zenon DEF AllGroups
    <3> QED  BY <2>1, <2>2, <3>5, Zenon
  <2>4. Carried'
    <3>1. CASE r = 0
      <4>1. at' % 3 = 1 /\ at' \div 3 = q
        BY <1>1, <1>3, <3>1
      <4>2. Len(c) = 1 /\ bits' = 2 /\ n % 4 = y % 4
        <5>1. ~(r = 1) /\ ~(r = 2)
          BY ONLY <3>1
        <5> QED  BY ONLY <1>7, <5>1, Zenon
      <4>4. Len(text') = 4 * q + 1
        <5>1. Len(text') = Len(text) + Len(c)
          BY <2>1, <2>2, Zenon
        <5> QED  BY ONLY <1>3, <1>6, <3>1, <4>2, <5>1
      <4>3. input'[at'] = y /\ n = accumulator'
        BY <1>1 DEF y, n
      <4>5. n % 4 = input'[at'] % 4
        BY ONLY <4>2, <4>3, Zenon
      <4>6. bits' = 2 * (at' % 3) /\ bits' # 4
        BY ONLY <4>1, <4>2
      <4>7. Len(text') = 4 * (at' \div 3) + (at' % 3)
        BY ONLY <4>1, <4>4
      <4>8. accumulator' % 4 = input'[at'] % 4
        BY ONLY <4>3, <4>5
      <4> QED  BY ONLY <4>6, <4>7, <4>8 DEF Carried
    <3>2. CASE r = 1
      <4>1. at' % 3 = 2 /\ at' \div 3 = q
        BY <1>1, <1>3, <3>2
      <4>2. Len(c) = 1 /\ bits' = 4 /\ n % 16 = y % 16
        <5>1. ~(r = 0) /\ ~(r = 2)
          BY ONLY <3>2
        <5> QED  BY ONLY <1>7, <5>1, Zenon
      <4>4. Len(text') = 4 * q + 2
        <5>1. Len(text') = Len(text) + Len(c)
          BY <2>1, <2>2, Zenon
        <5> QED  BY ONLY <1>3, <1>6, <3>2, <4>2, <5>1
      <4>3. input'[at'] = y /\ n = accumulator'
        BY <1>1 DEF y, n
      <4>5. n % 16 = input'[at'] % 16
        BY ONLY <4>2, <4>3, Zenon
      <4>6. bits' = 2 * (at' % 3) /\ bits' # 2
        BY ONLY <4>1, <4>2
      <4>7. Len(text') = 4 * (at' \div 3) + (at' % 3)
        BY ONLY <4>1, <4>4
      <4>8. accumulator' % 16 = input'[at'] % 16
        BY ONLY <4>3, <4>5
      <4> QED  BY ONLY <4>6, <4>7, <4>8 DEF Carried
    <3>3. CASE r = 2
      <4>1. at' % 3 = 0 /\ at' \div 3 = q + 1
        BY <1>1, <1>3, <3>3
      <4>2. Len(c) = 2 /\ bits' = 0
        <5>1. ~(r = 0) /\ ~(r = 1)
          BY ONLY <3>3
        <5> QED  BY ONLY <1>7, <5>1, Zenon
      <4>3. Len(text') = 4 * (q + 1) + 0
        <5>1. Len(text') = Len(text) + Len(c)
          BY <2>1, <2>2, Zenon
        <5> QED  BY ONLY <1>3, <1>6, <3>3, <4>2, <5>1
      <4>4. bits' = 2 * (at' % 3) /\ bits' # 2 /\ bits' # 4
        BY ONLY <4>1, <4>2
      <4>5. Len(text') = 4 * (at' \div 3) + (at' % 3)
        BY ONLY <4>1, <4>3
      <4> QED  BY ONLY <4>4, <4>5 DEF Carried
    <3> QED  BY <1>3, <3>1, <3>2, <3>3
  <2>5. CharactersAreGroups'
    <3>1. DOMAIN text' = 1 .. Len(text')
      BY <2>3
    <3> QED  BY <2>3, <3>1 DEF CharactersAreGroups, AllGroups
  <2>6. AnswerIsPadded' /\ AbortsOnlyForNothing' /\ ~(at' > Len(input'))
    <3>1. ~(at' > Len(input'))
      BY <1>1
    <3> QED  BY <3>1, Zenon DEF AnswerIsPadded, AbortsOnlyForNothing, Encoded
  <2>7. accumulator' \in Nat /\ input' \in Seq(0 .. 255) /\ at' \in Nat
    BY <1>1, <1>5 DEF n
  <2> QED  BY <2>3, <2>4, <2>5, <2>6, <2>7 DEF EncodeInv
<1>8. CASE r = 0
  <2>1. bits = 0 /\ bits + 8 = 8 /\ (bits + 8) % 6 = 2 /\ y = input[p + 1]
    BY <1>3, <1>6, <1>8 DEF y
  <2>2. c \in Seq(0 .. 63) /\ Len(c) = 1 /\ c[1] = (n \div 4) % 64
    <3>1. c = Sixes(8, n)
      BY <2>1, Zenon DEF c
    <3>2. n \in Nat
      BY <1>5
    <3>3. /\ Sixes(8, n) \in Seq(0 .. 63) /\ Len(Sixes(8, n)) = 1
          /\ Sixes(8, n)[1] = (n \div 4) % 64
      BY ONLY <3>2, SixesAre
    <3> QED  BY ONLY <3>1, <3>3, Zenon
  <2>3. (n \div 4) % 64 = y \div 4 /\ n % 4 = y % 4
    <3>1. accumulator % 16 \in 0 .. 15
      BY <1>1
    <3> DEFINE a == accumulator % 16
    <3> HIDE DEF a
    <3>2. a \in 0 .. 15 /\ n \in Nat /\ n % 4096 = 256 * a + y
      BY <1>5, <3>1 DEF a, Moved
    <3> QED  BY ONLY <1>4, <3>2
  <2>4. Group(input, 4 * q) = y \div 4
    BY <1>1, <1>3, <2>1, GroupIs
  <2>5. \A i \in 1 .. Len(c) : c[i] = Group(input, Len(text) + i - 1)
    <3>1. Len(text) + 1 - 1 = 4 * q /\ \A i \in 1 .. 1 : i = 1
      BY <1>3, <1>6, <1>8
    <3> QED  BY ONLY <2>2, <2>3, <2>4, <3>1
  <2>6. bits' = 2
    BY <1>1, <2>1
  <2> QED  BY <1>7, <1>8, <2>2, <2>3, <2>5, <2>6
<1>9. CASE r = 1
  <2>1. /\ bits = 2 /\ bits + 8 = 10 /\ (bits + 8) % 6 = 4
        /\ y = input[p + 2] /\ input[at] = input[p + 1]
    BY <1>3, <1>6, <1>9 DEF y
  <2>2. c \in Seq(0 .. 63) /\ Len(c) = 1 /\ c[1] = (n \div 16) % 64
    <3>1. c = Sixes(10, n)
      BY <2>1, Zenon DEF c
    <3>2. n \in Nat
      BY <1>5
    <3>3. /\ Sixes(10, n) \in Seq(0 .. 63) /\ Len(Sixes(10, n)) = 1
          /\ Sixes(10, n)[1] = (n \div 16) % 64
      BY ONLY <3>2, SixesAre
    <3> QED  BY ONLY <3>1, <3>3, Zenon
  <2> DEFINE z == input[p + 1]
  <2> HIDE DEF z
  <2>3. (n \div 16) % 64 = 16 * (z % 4) + y \div 16 /\ n % 16 = y % 16
    <3> DEFINE a == accumulator % 16
               b == z % 4
    <3>1. a \in 0 .. 15 /\ accumulator % 4 = a % 4
      <4>1. accumulator \in Nat
        BY <1>1
      <4> QED  BY ONLY <4>1
    <3>2. b = accumulator % 4
      BY <1>6, <2>1 DEF z
    <3>3. n \in Nat /\ n % 4096 = 256 * a + y
      BY <1>5 DEF Moved
    <3> HIDE DEF a, b
    <3>4. b = a % 4
      BY ONLY <3>1, <3>2
    <3>5. (n \div 16) % 64 = 16 * b + y \div 16 /\ n % 16 = y % 16
      BY ONLY <1>4, <3>1, <3>3, <3>4
    <3> QED  BY ONLY <3>5 DEF b
  <2>4. Group(input, 4 * q + 1) = 16 * (z % 4) + y \div 16
    <3>1. p + 1 < Len(input)
      BY <1>1, <1>3, <1>9
    <3>2. p < Len(input) => Group(input, 4 * q + 1) =
            16 * (input[p + 1] % 4)
              + (IF p + 1 < Len(input) THEN input[p + 2] \div 16 ELSE 0)
      BY <1>1, <1>3, GroupIs
    <3> QED  BY <1>3, <2>1, <3>1, <3>2 DEF z
  <2>5. \A i \in 1 .. Len(c) : c[i] = Group(input, Len(text) + i - 1)
    <3>1. Len(text) + 1 - 1 = 4 * q + 1 /\ \A i \in 1 .. 1 : i = 1
      BY <1>3, <1>6, <1>9
    <3> QED  BY ONLY <2>2, <2>3, <2>4, <3>1
  <2>6. bits' = 4
    BY <1>1, <2>1
  <2> QED  BY <1>7, <1>9, <2>2, <2>3, <2>5, <2>6
<1>10. CASE r = 2
  <2>1. /\ bits = 4 /\ bits + 8 = 12 /\ (bits + 8) % 6 = 0
        /\ y = input[p + 3] /\ input[at] = input[p + 2]
    BY <1>3, <1>6, <1>10 DEF y
  <2>2. /\ c \in Seq(0 .. 63) /\ Len(c) = 2
        /\ c[1] = (n \div 64) % 64 /\ c[2] = n % 64
    <3>1. c = Sixes(12, n)
      BY <2>1, Zenon DEF c
    <3>2. n \in Nat
      BY <1>5
    <3>3. /\ Sixes(12, n) \in Seq(0 .. 63) /\ Len(Sixes(12, n)) = 2
          /\ Sixes(12, n)[1] = (n \div 64) % 64 /\ Sixes(12, n)[2] = n % 64
      BY ONLY <3>2, SixesAre
    <3> QED  BY ONLY <3>1, <3>3, Zenon
  <2> DEFINE z == input[p + 2]
  <2> HIDE DEF z
  <2>3. (n \div 64) % 64 = 4 * (z % 16) + y \div 64 /\ n % 64 = y % 64
    <3> DEFINE a == accumulator % 16
    <3>1. a \in 0 .. 15
      BY <1>1
    <3>2. z % 16 = a
      BY <1>6, <2>1 DEF z
    <3>3. n \in Nat /\ n % 4096 = 256 * a + y
      BY <1>5 DEF Moved
    <3> HIDE DEF a
    <3>4. (n \div 64) % 64 = 4 * a + y \div 64 /\ n % 64 = y % 64
      BY ONLY <1>4, <3>1, <3>3
    <3> QED  BY ONLY <3>2, <3>4
  <2>4. /\ Group(input, 4 * q + 2) = 4 * (z % 16) + y \div 64
        /\ Group(input, 4 * q + 3) = y % 64
    <3>1. p + 1 < Len(input) /\ p + 2 < Len(input)
      BY <1>1, <1>3, <1>10
    <3>2. p + 1 < Len(input) => Group(input, 4 * q + 2) =
            4 * (input[p + 2] % 16)
              + (IF p + 2 < Len(input) THEN input[p + 3] \div 64 ELSE 0)
      BY <1>1, <1>3, GroupIs
    <3>3. p + 2 < Len(input) => Group(input, 4 * q + 3) = input[p + 3] % 64
      BY <1>1, <1>3, GroupIs
    <3> QED  BY <2>1, <3>1, <3>2, <3>3 DEF z
  <2>5. \A i \in 1 .. Len(c) : c[i] = Group(input, Len(text) + i - 1)
    <3>1. /\ Len(text) + 1 - 1 = 4 * q + 2 /\ Len(text) + 2 - 1 = 4 * q + 3
          /\ \A i \in 1 .. 2 : i = 1 \/ i = 2
      BY <1>3, <1>6, <1>10
    <3> QED  BY ONLY <2>2, <2>3, <2>4, <3>1
  <2>6. bits' = 0
    BY <1>1, <2>1
  <2> QED  BY <1>7, <1>10, <2>2, <2>5, <2>6
<1> QED  BY <1>3, <1>8, <1>9, <1>10

\* What is left of the accumulator, moved to where its six bits belong.
LEMMA ShiftLast ==
  ASSUME NEW a \in Nat
  PROVE  ShiftLeft(a, 4) % 64 = 16 * (a % 4) /\ ShiftLeft(a, 2) % 64 = 4 * (a % 16)
<1> DEFINE m == (a * 16) % Accumulators
           n == (a * 4) % Accumulators
<1>1. m \in Nat /\ m % 4096 = (a * 16) % 4096 /\ n \in Nat /\ n % 4096 = (a * 4) % 4096
  BY LowBitsStay
<1>2. ShiftLeft(a, 4) = m /\ ShiftLeft(a, 2) = n
  BY TwoTos, Zenon DEF ShiftLeft
<1> HIDE DEF m, n
<1>3. m % 64 = 16 * (a % 4)
  BY ONLY <1>1, a \in Nat
<1>4. n % 64 = 4 * (a % 16)
  BY ONLY <1>1, a \in Nat
<1> QED  BY ONLY <1>2, <1>3, <1>4, Zenon

\* At most one sign of padding after the characters.
LEMMA Padded ==
  ASSUME NEW u \in Seq(0 .. 63), NEW k \in 0 .. 1
  PROVE  LET t == u \o [i \in 1 .. k |-> Pad]
         IN /\ DOMAIN t = 1 .. Len(t) /\ Len(t) = Len(u) + k
            /\ \A i \in 1 .. Len(t) : \/ i <= Len(u) /\ t[i] = u[i]
                                      \/ i = Len(u) + 1 /\ t[i] = Pad
<1> DEFINE e == [i \in 1 .. k |-> Pad]
           t == u \o e
<1>1. k \in Nat /\ e \in [1 .. k -> Chars]
  BY DEF Chars
<1>2. e \in Seq(Chars) /\ Len(e) = k
  BY ONLY <1>1, TupleIs
<1>3. \A i \in 1 .. k : e[i] = Pad /\ i = 1
  OBVIOUS
<1>4. u \in Seq(Chars)
  BY DEF Chars
<1> HIDE DEF e
<1>5. t \in Seq(Chars) /\ Len(t) = Len(u) + k /\ DOMAIN t = 1 .. Len(t)
  BY <1>2, <1>4
<1>6. ASSUME NEW i \in 1 .. Len(t)
      PROVE  \/ i <= Len(u) /\ t[i] = u[i]
             \/ i = Len(u) + 1 /\ t[i] = Pad
  <2>1. CASE i <= Len(u)
    BY <1>2, <1>4, <1>5, <2>1
  <2>2. CASE ~(i <= Len(u))
    <3>1. i - Len(u) \in 1 .. k /\ t[i] = e[i - Len(u)]
      BY <1>2, <1>4, <1>5, <2>2
    <3>2. e[i - Len(u)] = Pad /\ i - Len(u) = 1
      BY <1>3, <3>1
    <3> QED  BY <3>1, <3>2
  <2> QED  BY <2>1, <2>2
<1> QED  BY <1>5, <1>6 DEF e

\* The end of base64_encode, after the last byte.
LEMMA EncodeEndStep == EncodeInv /\ EncodeEnd => EncodeInv'
<1> SUFFICES ASSUME EncodeInv, EncodeEnd PROVE EncodeInv'
  OBVIOUS
<1> DEFINE q == at \div 3
           r == at % 3
           p == 3 * q
           L == LastCharacter
           u == text \o L
           k == Size(Len(input)) - Len(u)
<1>1. /\ input \in Seq(0 .. 255) /\ at \in Nat /\ accumulator \in Nat
      /\ at = Len(input) /\ at' = at + 1 /\ input' = input /\ accumulator' = accumulator
      /\ text' = u \o [i \in 1 .. k |-> Pad]
  BY DEF EncodeInv, EncodeEnd
<1>2. text \in Seq(0 .. 63) /\ AllGroups(text) /\ Carried
  BY <1>1 DEF EncodeInv
<1>3. /\ q \in Nat /\ r \in {0, 1, 2} /\ p \in Nat /\ p = 3 * q /\ at = p + r
  BY <1>1
<1>4. /\ bits = 2 * r /\ Len(text) = 4 * q + r
      /\ bits = 2 => accumulator % 4 = input[at] % 4
      /\ bits = 4 => accumulator % 16 = input[at] % 16
  BY <1>2 DEF Carried
<1>5. Size(Len(input)) = 4 * q + (IF r = 0 THEN 1 ELSE IF r = 1 THEN 2 ELSE 4)
  <2> HIDE DEF q, r, p
  <2>1. Size(Len(input)) = ((3 * q + r + 1) * 4) \div 3
    BY <1>1, <1>3 DEF Size
  <2> QED  BY ONLY <1>3, <2>1
<1> HIDE DEF q, r, p, L
<1>6. /\ L \in Seq(0 .. 63) /\ Len(L) = (IF r = 0 THEN 0 ELSE 1)
      /\ \A i \in 1 .. Len(L) : L[i] = Group(input, Len(text) + i - 1)
  <2>1. CASE r = 0
    <3>1. bits = 0
      BY <1>4, <2>1
    <3>2. L = << >>
      BY <3>1, Zenon DEF L, LastCharacter
    <3> QED  BY <2>1, <3>2
  <2>2. CASE r = 1
    <3>1. bits = 2 /\ bits # 0 /\ 6 - bits = 4 /\ at = p + 1 /\ p < Len(input)
          /\ ~(p + 1 < Len(input))
      BY <1>1, <1>3, <1>4, <2>2
    <3>2. L = <<ShiftLeft(accumulator, 4) % 64>>
      BY <3>1, Zenon DEF L, LastCharacter
    <3>3. ShiftLeft(accumulator, 4) % 64 = 16 * (accumulator % 4)
      BY <1>1, ShiftLast
    <3>4. accumulator % 4 = input[p + 1] % 4 /\ accumulator % 4 \in 0 .. 3
      BY <1>1, <1>4, <3>1
    <3>5. Group(input, 4 * q + 1) = 16 * (input[p + 1] % 4) + 0
      <4>1. p < Len(input) => Group(input, 4 * q + 1) =
              16 * (input[p + 1] % 4)
                + (IF p + 1 < Len(input) THEN input[p + 2] \div 16 ELSE 0)
        BY <1>1, <1>3, GroupIs
      <4> QED  BY ONLY <3>1, <4>1, Zenon
    <3> DEFINE v == accumulator % 4
               g == Group(input, 4 * q + 1)
    <3>6. L = <<16 * v>> /\ v \in 0 .. 3 /\ g = 16 * v + 0
      BY ONLY <3>2, <3>3, <3>4, <3>5, Zenon
    <3> HIDE DEF v, g
    <3>7. 16 * v \in 0 .. 63 /\ g = 16 * v
      BY ONLY <3>6
    <3>8. L \in Seq(0 .. 63) /\ Len(L) = 1 /\ L[1] = g
      BY ONLY <3>6, <3>7
    <3>9. Len(text) + 1 - 1 = 4 * q + 1 /\ \A i \in 1 .. 1 : i = 1
      BY <1>3, <1>4, <2>2
    <3>10. \A i \in 1 .. Len(L) : L[i] = Group(input, Len(text) + i - 1)
      BY ONLY <3>8, <3>9 DEF g
    <3> QED  BY ONLY <2>2, <3>8, <3>10
  <2>3. CASE r = 2
    <3>1. bits = 4 /\ bits # 0 /\ 6 - bits = 2 /\ at = p + 2 /\ p + 1 < Len(input)
          /\ ~(p + 2 < Len(input))
      BY <1>1, <1>3, <1>4, <2>3
    <3>2. L = <<ShiftLeft(accumulator, 2) % 64>>
      BY <3>1, Zenon DEF L, LastCharacter
    <3>3. ShiftLeft(accumulator, 2) % 64 = 4 * (accumulator % 16)
      BY <1>1, ShiftLast
    <3>4. accumulator % 16 = input[p + 2] % 16 /\ accumulator % 16 \in 0 .. 15
      BY <1>1, <1>4, <3>1
    <3>5. Group(input, 4 * q + 2) = 4 * (input[p + 2] % 16) + 0
      <4>1. p + 1 < Len(input) => Group(input, 4 * q + 2) =
              4 * (input[p + 2] % 16)
                + (IF p + 2 < Len(input) THEN input[p + 3] \div 64 ELSE 0)
        BY <1>1, <1>3, GroupIs
      <4> QED  BY ONLY <3>1, <4>1, Zenon
    <3> DEFINE v == accumulator % 16
               g == Group(input, 4 * q + 2)
    <3>6. L = <<4 * v>> /\ v \in 0 .. 15 /\ g = 4 * v + 0
      BY ONLY <3>2, <3>3, <3>4, <3>5, Zenon
    <3> HIDE DEF v, g
    <3>7. 4 * v \in 0 .. 63 /\ g = 4 * v
      BY ONLY <3>6
    <3>8. L \in Seq(0 .. 63) /\ Len(L) = 1 /\ L[1] = g
      BY ONLY <3>6, <3>7
    <3>9. Len(text) + 1 - 1 = 4 * q + 2 /\ \A i \in 1 .. 1 : i = 1
      BY <1>3, <1>4, <2>3
    <3>10. \A i \in 1 .. Len(L) : L[i] = Group(input, Len(text) + i - 1)
      BY ONLY <3>8, <3>9 DEF g
    <3> QED  BY ONLY <2>3, <3>8, <3>10
  <2> QED  BY <1>3, <2>1, <2>2, <2>3
<1>7. u \in Seq(0 .. 63) /\ Len(u) = Len(text) + Len(L) /\ AllGroups(u)
  BY <1>2, <1>6, PutOut
<1> HIDE DEF u
<1>8. k \in 0 .. 1 /\ (r = 2 => k = 1 /\ Len(u) = 4 * q + 3)
  <2> DEFINE l == Len(u)
             s == Size(Len(input))
  <2>1. l = Len(text) + Len(L) /\ s = 4 * q + (IF r = 0 THEN 1 ELSE IF r = 1 THEN 2 ELSE 4)
    BY <1>5, <1>7
  <2> HIDE DEF l, s
  <2>2. s - l \in 0 .. 1 /\ (r = 2 => s - l = 1 /\ l = 4 * q + 3)
    BY ONLY <1>3, <1>4, <1>6, <2>1
  <2> QED  BY <2>2 DEF l, s
<1> HIDE DEF k
<1>9. /\ DOMAIN text' = 1 .. Len(text') /\ Len(text') = Len(u) + k
      /\ \A i \in 1 .. Len(text') : \/ i <= Len(u) /\ text'[i] = u[i]
                                    \/ i = Len(u) + 1 /\ text'[i] = Pad
  <2>1. text' = u \o [i \in 1 .. k |-> Pad]
    BY <1>1 DEF u, k
  <2> QED  BY ONLY <1>7, <1>8, <2>1, Padded
<1>10. CharactersAreGroups'
  <2>1. ASSUME NEW i \in DOMAIN text' PROVE text'[i] \in {Group(input, i - 1), Pad}
    <3>1. CASE i <= Len(u) /\ text'[i] = u[i]
      <4>1. i \in 1 .. Len(u)
        BY <1>7, <1>9, <2>1, <3>1
      <4> QED  BY <1>7, <3>1, <4>1, Zenon DEF AllGroups
    <3> QED  BY <1>9, <2>1, <3>1
  <2>2. input' = input
    BY <1>1
  <2>3. \A i \in DOMAIN text' : text'[i] \in {Group(input', i - 1), Pad}
    BY ONLY <2>1, <2>2, Zenon
  <2> QED  BY ONLY <2>3, Zenon DEF CharactersAreGroups
<1>11. AnswerIsPadded'
  <2> SUFFICES ASSUME Len(input') % 3 = 2
               PROVE  /\ Len(text') % 4 = 0
                      /\ \A i \in DOMAIN text' : text'[i] = Pad <=> i = Len(text')
    BY Zenon DEF AnswerIsPadded, Encoded
  <2>1. r = 2
    BY <1>1 DEF r
  <2>2. Len(text') = 4 * q + 4
    BY ONLY <1>3, <1>8, <1>9, <2>1
  <2>3. Len(text') % 4 = 0
    BY ONLY <1>3, <2>2
  <2>4. ASSUME NEW i \in DOMAIN text' PROVE text'[i] = Pad <=> i = Len(text')
    <3>1. i \in 1 .. Len(text') /\ Len(u) = 4 * q + 3
      BY <1>8, <1>9, <2>1, <2>4
    <3>2. CASE i <= Len(u) /\ text'[i] = u[i]
      <4>1. i \in 1 .. Len(u)
        BY ONLY <1>3, <2>2, <3>1, <3>2
      <4>2. u[i] \in 0 .. 63
        BY <1>7, <4>1, ElementOfSeq
      <4>3. text'[i] # Pad
        <5>1. Pad \notin 0 .. 63
          BY Base64Assumption
        <5> QED  BY <3>2, <4>2, <5>1
      <4>4. i # Len(text')
        BY ONLY <1>3, <2>2, <3>1, <3>2
      <4> QED  BY ONLY <4>3, <4>4, Zenon
    <3>3. CASE i = Len(u) + 1 /\ text'[i] = Pad
      BY ONLY <1>3, <2>2, <3>1, <3>3
    <3> QED  BY <1>9, <3>1, <3>2, <3>3
  <2> QED  BY ONLY <2>3, <2>4, Zenon
<1>12. accumulator' \in Nat /\ input' \in Seq(0 .. 255) /\ at' \in Nat /\ ~(at' <= Len(input'))
  BY <1>1
<1>13. Finished'
  <2> DEFINE N == Characters(Len(input))
             l == Len(u)
  <2>1. N = l
    <3>1. at \div 3 = q /\ at % 3 = r /\ at = Len(input)
      BY <1>1 DEF q, r
    <3>2. N = 4 * q + (IF r = 0 THEN 0 ELSE r + 1)
      BY ONLY <3>1 DEF Characters
    <3>3. l = 4 * q + r + (IF r = 0 THEN 0 ELSE 1)
      BY <1>3, <1>4, <1>6, <1>7
    <3> HIDE DEF N, l
    <3> QED  BY ONLY <1>3, <3>2, <3>3
  <2>2. l \in Nat /\ \A i \in 1 .. l : u[i] = Group(input, i - 1) /\ u[i] \in 0 .. 63
    <3>1. l \in Nat
      BY <1>7
    <3>2. ASSUME NEW i \in 1 .. l PROVE u[i] \in 0 .. 63
      <4>1. u \in Seq(0 .. 63) /\ i \in 1 .. Len(u)
        BY <1>7, Zenon
      <4> QED  BY ONLY <4>1, ElementOfSeq
    <3> QED  BY <1>7, <3>1, <3>2, Zenon DEF AllGroups
  <2>3. /\ Len(text') = l + k
        /\ \A i \in 1 .. Len(text') : \/ i <= l /\ text'[i] = u[i]
                                      \/ i = l + 1 /\ text'[i] = Pad
    BY <1>9
  <2> HIDE DEF l, N
  <2>4. Len(text') \in Nat /\ l <= Len(text')
    BY ONLY <1>8, <2>2, <2>3
  <2>5. ASSUME NEW i \in 1 .. Len(text')
        PROVE  \/ i <= l /\ text'[i] = Group(input, i - 1) /\ text'[i] \in 0 .. 63
               \/ i > l /\ text'[i] = Pad
    <3>1. CASE i <= l /\ text'[i] = u[i]
      <4>1. i \in 1 .. l
        BY ONLY <2>2, <2>4, <3>1, i \in 1 .. Len(text')
      <4> QED  BY ONLY <2>2, <3>1, <4>1, Zenon
    <3>2. CASE i = l + 1 /\ text'[i] = Pad
      BY ONLY <2>2, <3>2
    <3> QED  BY ONLY <2>3, <3>1, <3>2, i \in 1 .. Len(text'), Zenon
  <2>6. input' = input /\ l = Characters(Len(input))
    BY <1>1, <2>1 DEF N
  <2> QED  BY ONLY <2>4, <2>5, <2>6, Zenon DEF Finished
<1>14. AbortsOnlyForNothing'
  <2> DEFINE l == Len(u)
             s == Size(Len(input))
             n == Len(input)
  <2>1. s = 4 * q + (IF r = 0 THEN 1 ELSE IF r = 1 THEN 2 ELSE 4)
    BY <1>5
  <2>2. l = 4 * q + r + (IF r = 0 THEN 0 ELSE 1)
    BY <1>3, <1>4, <1>6, <1>7
  <2>3. n = 3 * q + r /\ (n = 0 <=> input = << >>)
    <3>1. n = 3 * q + r
      BY <1>1, <1>3
    <3>2. input = << >> => n = 0
      OBVIOUS
    <3>3. n = 0 => input = << >>
      BY <1>1, EmptySeq
    <3> QED  BY ONLY <3>1, <3>2, <3>3
  <2>4. aborted' = ~AssertsHold(l, s)
    BY Zenon DEF EncodeEnd, u, L
  <2>5. input' = input
    BY <1>1
  <2> HIDE DEF l, s, n
  <2>6. SizeT \in Nat /\ SizeT > 4
    BY Base64Assumption
  <2>7. AssertsHold(l, s) <=> n # 0
    BY ONLY <1>3, <2>1, <2>2, <2>3, <2>6 DEF AssertsHold, MinusTwo
  <2> QED  BY ONLY <2>3, <2>4, <2>5, <2>7, Zenon DEF AbortsOnlyForNothing
<1> QED  BY <1>10, <1>11, <1>12, <1>13, <1>14 DEF EncodeInv

-----------------------------------------------------------------------------
\* The bytes d are the first ones of x.
Begins(x, d) == /\ d \in Seq(0 .. 255)
                /\ \A i \in 1 .. Len(d) : i <= Len(x) /\ d[i] = x[i]

\* Of m characters of the input x the decoder has put out the bytes d that they fill,
\* and holds the b bits left over in its accumulator a.
DecodedIs(x, m, b, a, d) ==
  /\ Begins(x, d)
  /\ \/ m % 4 = 0 /\ b = 0 /\ Len(d) = 3 * (m \div 4)
     \/ m % 4 = 1 /\ b = 6 /\ Len(d) = 3 * (m \div 4) /\ a % 64 = Group(x, m - 1)
     \/ m % 4 = 2 /\ b = 4 /\ Len(d) = 3 * (m \div 4) + 1 /\ a % 16 = Group(x, m - 1) % 16
     \/ m % 4 = 3 /\ b = 2 /\ Len(d) = 3 * (m \div 4) + 2 /\ a % 4 = Group(x, m - 1) % 4

\* The characters taken, without the padding.
Characterwise == IF taken <= Characters(Len(input)) THEN taken ELSE Characters(Len(input))

DecodeInv == /\ taken \in Nat /\ accumulatorIn \in Nat
             /\ at <= Len(input) => taken = 0
             /\ at > Len(input) => taken <= Len(text)
             /\ DecodedIs(input, Characterwise, bitsIn, accumulatorIn, decoded)

\* The loop's invariant, for every input and every accumulator with twelve bits or more.
THEOREM EncoderInvariant == Base64Safety => []EncodeInv
<1>1. Base64Init(Storable) => EncodeInv
  <2> SUFFICES ASSUME Base64Init(Storable) PROVE EncodeInv
    OBVIOUS
  <2>1. /\ input \in Seq(0 .. 255) /\ at = 0 /\ bits = 0 /\ accumulator = 0 /\ text = << >>
        /\ Len(input) \in Nat
    BY DEF Base64Init, Storable
  <2>2. AllGroups(text)
    BY <2>1 DEF AllGroups
  <2>3. Carried
    BY <2>1 DEF Carried
  <2>4. CharactersAreGroups
    BY <2>1 DEF CharactersAreGroups
  <2>5. AnswerIsPadded /\ AbortsOnlyForNothing
    <3>1. ~(at > Len(input))
      BY <2>1
    <3> QED  BY <3>1, Zenon DEF AnswerIsPadded, AbortsOnlyForNothing, Encoded
  <2>6. text \in Seq(0 .. 63) /\ accumulator \in Nat /\ at \in Nat
    BY <2>1
  <2>7. ~(at > Len(input))
    BY <2>1
  <2> QED  BY <2>1, <2>2, <2>3, <2>4, <2>5, <2>6, <2>7, Zenon DEF EncodeInv
<1>2. EncodeInv /\ [Base64Next]_base64Vars => EncodeInv'
  <2>1. EncodeInv /\ UNCHANGED encoderVars => EncodeInv'
    BY DEF EncodeInv, encoderVars, AllGroups, Carried, CharactersAreGroups, AnswerIsPadded,
           AbortsOnlyForNothing, Encoded, Finished, Group, Bit
  <2>2. SkipPadding \/ DecodeCharacter \/ UNCHANGED base64Vars => UNCHANGED encoderVars
    BY DEF SkipPadding, DecodeCharacter, base64Vars
  <2> QED  BY <2>1, <2>2, EncodeByteStep, EncodeEndStep DEF Base64Next
<1> QED  BY <1>1, <1>2, PTL DEF Base64Safety

\* Each character base64_encode puts out is six bits of its input, the right ones, for
\* all inputs there can be.
THEOREM EncodesInSixes == Base64Safety => []CharactersAreGroups
<1>1. EncodeInv => CharactersAreGroups
  BY DEF EncodeInv
<1> QED  BY <1>1, EncoderInvariant, PTL

\* For the empty input, and no other, base64_encode aborts on its own assert.
THEOREM AbortsForNothingElse == Base64Safety => []AbortsOnlyForNothing
<1>1. EncodeInv => AbortsOnlyForNothing
  BY DEF EncodeInv
<1> QED  BY <1>1, EncoderInvariant, PTL

\* Where two bytes are left over, as of the 20 of a handshake's digest, the padding is
\* what the standard asks for, and there is none within.
THEOREM AnswerHasItsPadding == Base64Safety => []AnswerIsPadded
<1>1. EncodeInv => AnswerIsPadded
  BY DEF EncodeInv
<1> QED  BY <1>1, EncoderInvariant, PTL

\* As many bytes are there as the characters need that were made of them.
LEMMA CharactersCover ==
  ASSUME NEW l \in Nat, NEW q \in Nat, NEW r \in 0 .. 3, 4 * q + r + 1 <= Characters(l)
  PROVE  3 * q + r <= l /\ (r = 0 => 3 * q + 1 <= l)
<1> DEFINE k == l \div 3
           j == l % 3
<1>1. k \in Nat /\ j \in {0, 1, 2} /\ l = 3 * k + j
  OBVIOUS
<1>2. Characters(l) = 4 * k + (IF j = 0 THEN 0 ELSE j + 1)
  BY DEF Characters
<1> HIDE DEF k, j
<1>3. 4 * q + r + 1 <= 4 * k + (IF j = 0 THEN 0 ELSE j + 1)
  BY <1>2
<1>4. CASE q < k
  BY <1>1, <1>4
<1>5. CASE ~(q < k)
  BY <1>1, <1>3, <1>5
<1> QED  BY <1>4, <1>5

\* And all of them, when the last character is in.
LEMMA CharactersEnd ==
  ASSUME NEW l \in Nat
  PROVE  LET m == Characters(l)
         IN /\ m \in Nat
            /\ m % 4 = 0 => l = 3 * (m \div 4)
            /\ m % 4 # 1
            /\ m % 4 = 2 => l = 3 * (m \div 4) + 1
            /\ m % 4 = 3 => l = 3 * (m \div 4) + 2
<1> DEFINE k == l \div 3
           j == l % 3
           m == Characters(l)
<1>1. k \in Nat /\ j \in {0, 1, 2} /\ l = 3 * k + j
  OBVIOUS
<1>2. m = 4 * k + (IF j = 0 THEN 0 ELSE j + 1)
  BY DEF Characters
<1> HIDE DEF k, j, m
<1>3. m \in Nat
  BY <1>1, <1>2
<1>4. CASE j = 0
  <2>1. m = 4 * k
    BY ONLY <1>1, <1>2, <1>4
  <2>2. m % 4 = 0 /\ m \div 4 = k
    BY ONLY <1>1, <2>1
  <2> QED  BY <1>1, <1>3, <1>4, <2>2 DEF m
<1>5. CASE j = 1
  <2>1. m = 4 * k + 2
    BY <1>2, <1>5
  <2>2. m % 4 = 2 /\ m \div 4 = k
    BY ONLY <1>1, <2>1
  <2> QED  BY <1>1, <1>3, <1>5, <2>2 DEF m
<1>6. CASE j = 2
  <2>1. m = 4 * k + 3
    BY <1>2, <1>6
  <2>2. m % 4 = 3 /\ m \div 4 = k
    BY ONLY <1>1, <2>1
  <2> QED  BY <1>1, <1>3, <1>6, <2>2 DEF m
<1> QED  BY <1>1, <1>4, <1>5, <1>6

\* The twelve bits in use of an accumulator n are six bits of a and a character c.
MovedIn(n, a, c) == n % 4096 = 64 * (a % 64) + c

\* A character goes into the accumulator.
LEMMA ShiftCharacterIn ==
  ASSUME NEW a \in Nat, NEW c \in 0 .. 63
  PROVE  /\ (ShiftLeft(a, 6) + c) % Accumulators \in Nat
         /\ MovedIn((ShiftLeft(a, 6) + c) % Accumulators, a, c)
<1> DEFINE m == (a * 64) % Accumulators
           n == (ShiftLeft(a, 6) + c) % Accumulators
<1>1. m \in Nat /\ m % 4096 = (a * 64) % 4096
  BY LowBitsStay
<1>2. (a * 64) % 4096 = 64 * (a % 64)
  OBVIOUS
<1>3. n = (m + c) % Accumulators
  BY TwoTos DEF ShiftLeft
<1> HIDE DEF m, n
<1>4. m + c \in Nat
  BY <1>1
<1>5. n \in Nat /\ n % 4096 = (m + c) % 4096
  BY <1>3, <1>4, LowBitsStay
<1>6. (m + c) % 4096 = 64 * (a % 64) + c
  BY <1>1, <1>2
<1> QED  BY <1>5, <1>6 DEF n, MovedIn

\* What comes out of it with the second, third and fourth character of four: the six,
\* four or two bits that were left, and the first of c's; the others stay.
Out(n, a, c) == /\ n % 64 = c
                /\ (n \div 16) % 256 = 4 * (a % 64) + c \div 16 /\ n % 16 = c % 16
                /\ (n \div 4) % 256 = 16 * (a % 16) + c \div 4 /\ n % 4 = c % 4
                /\ n % 256 = 64 * (a % 4) + c

\* That is what shifting it does.
LEMMA BytesOut ==
  ASSUME NEW n \in Nat, NEW a \in Nat, NEW c \in 0 .. 63, MovedIn(n, a, c)
  PROVE  Out(n, a, c)
<1> DEFINE v == a % 64
<1>1. v \in 0 .. 63 /\ a % 16 = v % 16 /\ a % 4 = v % 4
  OBVIOUS
<1>2. n % 4096 = 64 * v + c
  BY DEF MovedIn
<1> HIDE DEF v
<1> DEFINE w == n % 4096
<1>3. w \in Nat /\ n % 64 = w % 64 /\ n % 16 = w % 16 /\ n % 4 = w % 4 /\ n % 256 = w % 256
  OBVIOUS
<1>4. (n \div 16) % 256 = w \div 16 /\ (n \div 4) % 256 = (w \div 4) % 256
  OBVIOUS
<1> HIDE DEF w
<1>5. w = 64 * v + c
  BY <1>2 DEF w
<1>6. w % 64 = c /\ w \div 16 = 4 * v + c \div 16 /\ w % 16 = c % 16
  BY ONLY <1>1, <1>5, c \in 0 .. 63
<1>7. (w \div 4) % 256 = 16 * (v % 16) + c \div 4 /\ w % 4 = c % 4
  BY ONLY <1>1, <1>5, c \in 0 .. 63
<1>8. w % 256 = 64 * (v % 4) + c
  BY ONLY <1>1, <1>5, c \in 0 .. 63
<1> QED  BY <1>1, <1>3, <1>4, <1>6, <1>7, <1>8 DEF v, Out

\* One byte more of the input.
LEMMA ByteMore ==
  ASSUME NEW x \in Seq(0 .. 255), NEW d, Begins(x, d), NEW k \in Nat, k = Len(d),
         k + 1 <= Len(x)
  PROVE  LET e == Append(d, x[k + 1]) IN Begins(x, e) /\ Len(e) = k + 1
<1> DEFINE v == x[k + 1]
           e == Append(d, v)
<1>1. v \in 0 .. 255
  <2>1. k + 1 \in 1 .. Len(x)
    OBVIOUS
  <2> QED  BY <2>1, ElementOfSeq
<1>2. d \in Seq(0 .. 255) /\ \A i \in 1 .. k : i <= Len(x) /\ d[i] = x[i]
  BY DEF Begins
<1>3. v = x[k + 1]
  OBVIOUS
<1> HIDE DEF v
<1>4. e \in Seq(0 .. 255) /\ Len(e) = k + 1 /\ e[k + 1] = v /\ \A i \in 1 .. k : e[i] = d[i]
  BY <1>1, <1>2
<1> HIDE DEF e
<1>5. \A i \in 1 .. (k + 1) : i \in 1 .. k \/ i = k + 1
  OBVIOUS
<1>6. Begins(x, e)
  BY ONLY <1>2, <1>3, <1>4, <1>5, k + 1 <= Len(x) DEF Begins
<1> QED  BY <1>4, <1>6 DEF e, v

\* The decoder's next state, of b bits held and the bytes d put out: six bits more in
\* its accumulator n, or a byte out of it.
MovedOn(x, m, b, n, d) ==
  \/ ~FullByte(b + 6) /\ DecodedIs(x, m + 1, b + 6, n, d)
  \/ /\ FullByte(b + 6)
     /\ DecodedIs(x, m + 1, b - 2, n, Append(d, ShiftRight(n, b - 2) % 256))

\* The decoder's loop, on the character c of the input that follows m others.
LEMMA DecodeMoves ==
  ASSUME NEW x \in Seq(0 .. 255), NEW m \in Nat, m + 1 <= Characters(Len(x)),
         NEW a \in Nat, NEW b, NEW d, DecodedIs(x, m, b, a, d),
         NEW c \in 0 .. 63, c = Group(x, m), NEW n \in Nat, MovedIn(n, a, c)
  PROVE  MovedOn(x, m, b, n, d)
<1> SUFFICES \/ ~FullByte(b + 6) /\ DecodedIs(x, m + 1, b + 6, n, d)
             \/ /\ FullByte(b + 6)
                /\ DecodedIs(x, m + 1, b - 2, n, Append(d, ShiftRight(n, b - 2) % 256))
  BY Zenon DEF MovedOn
<1> DEFINE q == m \div 4
           r == m % 4
           p == 3 * q
<1>1. q \in Nat /\ r \in 0 .. 3 /\ m = 4 * q + r /\ Len(x) \in Nat /\ p \in Nat /\ p = 3 * q
  OBVIOUS
<1>2. /\ Begins(x, d)
      /\ r = 0 => b = 0 /\ Len(d) = p
      /\ r = 1 => b = 6 /\ Len(d) = p /\ a % 64 = Group(x, m - 1)
      /\ r = 2 => b = 4 /\ Len(d) = p + 1 /\ a % 16 = Group(x, m - 1) % 16
      /\ r = 3 => b = 2 /\ Len(d) = p + 2 /\ a % 4 = Group(x, m - 1) % 4
  <2>1. /\ Begins(x, d)
        /\ \/ r = 0 /\ b = 0 /\ Len(d) = p
           \/ r = 1 /\ b = 6 /\ Len(d) = p /\ a % 64 = Group(x, m - 1)
           \/ r = 2 /\ b = 4 /\ Len(d) = p + 1 /\ a % 16 = Group(x, m - 1) % 16
           \/ r = 3 /\ b = 2 /\ Len(d) = p + 2 /\ a % 4 = Group(x, m - 1) % 4
    BY Zenon DEF DecodedIs
  <2> DEFINE A == a % 64 = Group(x, m - 1)
             B == a % 16 = Group(x, m - 1) % 16
             C == a % 4 = Group(x, m - 1) % 4
  <2> HIDE DEF r, A, B, C
  <2>2. \/ r = 0 /\ b = 0 /\ Len(d) = p
        \/ r = 1 /\ b = 6 /\ Len(d) = p /\ A
        \/ r = 2 /\ b = 4 /\ Len(d) = p + 1 /\ B
        \/ r = 3 /\ b = 2 /\ Len(d) = p + 2 /\ C
    BY ONLY <2>1, Zenon DEF A, B, C
  <2>3. /\ r = 0 => b = 0 /\ Len(d) = p
        /\ r = 1 => b = 6 /\ Len(d) = p /\ A
        /\ r = 2 => b = 4 /\ Len(d) = p + 1 /\ B
        /\ r = 3 => b = 2 /\ Len(d) = p + 2 /\ C
    BY ONLY <2>2
  <2> QED  BY ONLY <2>1, <2>3, Zenon DEF A, B, C
<1> HIDE DEF q, r, p
<1>3. p + r <= Len(x) /\ (r = 0 => p + 1 <= Len(x))
  <2>1. 4 * q + r + 1 <= Characters(Len(x))
    BY <1>1
  <2>2. 3 * q + r <= Len(x) /\ (r = 0 => 3 * q + 1 <= Len(x))
    BY ONLY <1>1, <2>1, CharactersCover
  <2> QED  BY <1>1, <2>2
<1>4. /\ n % 64 = c
      /\ (n \div 16) % 256 = 4 * (a % 64) + c \div 16 /\ n % 16 = c % 16
      /\ (n \div 4) % 256 = 16 * (a % 16) + c \div 4 /\ n % 4 = c % 4
      /\ n % 256 = 64 * (a % 4) + c
  <2>1. Out(n, a, c)
    BY ONLY BytesOut, n \in Nat, a \in Nat, c \in 0 .. 63, MovedIn(n, a, c), Zenon
  <2> QED  BY ONLY <2>1 DEF Out
<1>b. ASSUME NEW i \in 1 .. Len(x) PROVE x[i] \in 0 .. 255
  BY ONLY x \in Seq(0 .. 255), <1>b, ElementOfSeq
<1>5. c = Group(x, (m + 1) - 1)
  <2>1. (m + 1) - 1 = m
    OBVIOUS
  <2> QED  BY <2>1
<1>6. CASE r = 0
  <2>1. (m + 1) % 4 = 1 /\ (m + 1) \div 4 = q /\ b = 0 /\ b + 6 = 6 /\ Len(d) = 3 * q
    BY <1>1, <1>2, <1>6
  <2>2. DecodedIs(x, m + 1, 6, n, d)
    BY <1>2, <1>4, <1>5, <2>1 DEF DecodedIs
  <2>3. ~FullByte(6)
    BY DEF FullByte
  <2> QED  BY <2>1, <2>2, <2>3
<1>7. CASE r = 1
  <2>1. /\ (m + 1) % 4 = 2 /\ (m + 1) \div 4 = q /\ b = 6 /\ b + 6 = 12 /\ b - 2 = 4
        /\ Len(d) = p /\ m - 1 = 4 * q /\ m = 4 * q + 1 /\ p + 1 <= Len(x)
    <3>1. b = 6 /\ Len(d) = p
      BY ONLY <1>2, <1>7, Zenon
    <3> QED  BY ONLY <1>1, <1>3, <1>7, <3>1
  <2> DEFINE y == x[p + 1]
             v == ShiftRight(n, 4) % 256
             z == IF p + 1 < Len(x) THEN x[p + 2] \div 16 ELSE 0
  <2>2. p < Len(x) /\ y \in 0 .. 255 /\ z \in 0 .. 15
    <3>1. p < Len(x) /\ (p + 1 < Len(x) => p + 1 \in Nat /\ (p + 1) + 1 = p + 2)
      BY <1>1, <2>1
    <3>2. y \in 0 .. 255
      <4>1. p + 1 \in 1 .. Len(x)
        BY <1>1, <3>1
      <4> QED  BY ONLY <1>b, <4>1, Zenon
    <3>3. CASE p + 1 < Len(x)
      <4> DEFINE w == x[p + 2]
      <4>1. w \in 0 .. 255
        <5>1. p + 2 \in 1 .. Len(x)
          BY <1>1, <3>3
        <5> QED  BY ONLY <1>b, <5>1, Zenon
      <4>2. z = w \div 16
        BY ONLY <3>3, Zenon
      <4> HIDE DEF w, z
      <4>3. z \in 0 .. 15
        BY ONLY <4>1, <4>2
      <4> QED  BY ONLY <3>1, <3>2, <4>3, Zenon
    <3>4. CASE ~(p + 1 < Len(x))
      <4>1. z = 0
        BY ONLY <3>4, Zenon
      <4> HIDE DEF z
      <4> QED  BY ONLY <3>1, <3>2, <4>1
    <3> QED  BY <3>3, <3>4
  <2>3. a % 64 = y \div 4 /\ c = 16 * (y % 4) + z
    <3>1. a % 64 = Group(x, 4 * q) /\ c = Group(x, 4 * q + 1)
      BY <1>2, <1>7, <2>1
    <3>2. Group(x, 4 * q) = y \div 4 /\ Group(x, 4 * q + 1) = 16 * (y % 4) + z
      BY <1>1, <2>2, GroupIs
    <3> QED  BY ONLY <3>1, <3>2
  <2>4. v = (n \div 16) % 256
    BY TwoTos DEF ShiftRight
  <2> HIDE DEF y, v, z
  <2>5. c \div 16 = y % 4
    BY ONLY <2>2, <2>3
  <2>6. v = y
    BY ONLY <1>4, <2>2, <2>3, <2>4, <2>5
  <2> DEFINE e == Append(d, v)
  <2>7. Begins(x, e) /\ Len(e) = p + 1
    <3>1. p = Len(d) /\ v = x[p + 1]
      BY ONLY <2>1, <2>6, Zenon DEF y
    <3> QED  BY ONLY <1>1, <1>2, <2>1, <3>1, ByteMore, x \in Seq(0 .. 255), Zenon
  <2> HIDE DEF e
  <2>8. n % 16 = Group(x, (m + 1) - 1) % 16
    BY <1>4, <1>5
  <2>9. DecodedIs(x, m + 1, 4, n, e)
    BY ONLY <1>1, <2>1, <2>7, <2>8 DEF DecodedIs
  <2>10. FullByte(12)
    BY DEF FullByte
  <2> QED  BY ONLY <2>1, <2>9, <2>10 DEF e, v
<1>8. CASE r = 2
  <2>1. /\ (m + 1) % 4 = 3 /\ (m + 1) \div 4 = q /\ b = 4 /\ b + 6 = 10 /\ b - 2 = 2
        /\ Len(d) = p + 1 /\ m - 1 = 4 * q + 1 /\ m = 4 * q + 2 /\ p + 2 <= Len(x)
    <3>1. b = 4 /\ Len(d) = p + 1
      BY ONLY <1>2, <1>8, Zenon
    <3> QED  BY ONLY <1>1, <1>3, <1>8, <3>1
  <2> DEFINE y == x[p + 2]
             v == ShiftRight(n, 2) % 256
             z == IF p + 2 < Len(x) THEN x[p + 3] \div 64 ELSE 0
  <2>2. p + 1 < Len(x) /\ p < Len(x) /\ y \in 0 .. 255 /\ z \in 0 .. 3
    <3>1. /\ p + 1 < Len(x) /\ p < Len(x) /\ p + 1 \in Nat /\ (p + 1) + 1 = p + 2
          /\ p + 2 \in Nat /\ (p + 2) + 1 = p + 3
      BY <1>1, <2>1
    <3>2. y \in 0 .. 255
      <4>1. p + 2 \in 1 .. Len(x)
        BY <1>1, <3>1
      <4> QED  BY ONLY <1>b, <4>1, Zenon
    <3>3. CASE p + 2 < Len(x)
      <4> DEFINE w == x[p + 3]
      <4>1. w \in 0 .. 255
        <5>1. p + 3 \in 1 .. Len(x)
          BY <1>1, <3>3
        <5> QED  BY ONLY <1>b, <5>1, Zenon
      <4>2. z = w \div 64
        BY ONLY <3>3, Zenon
      <4> HIDE DEF w, z
      <4>3. z \in 0 .. 3
        BY ONLY <4>1, <4>2
      <4> QED  BY ONLY <3>1, <3>2, <4>3, Zenon
    <3>4. CASE ~(p + 2 < Len(x))
      <4>1. z = 0
        BY ONLY <3>4, Zenon
      <4> HIDE DEF z
      <4> QED  BY ONLY <3>1, <3>2, <4>1
    <3> QED  BY <3>3, <3>4
  <2> DEFINE t == x[p + 1] % 4
  <2>3. a % 16 = (16 * t + y \div 16) % 16 /\ c = 4 * (y % 16) + z /\ t \in 0 .. 3
    <3>1. a % 16 = Group(x, 4 * q + 1) % 16 /\ c = Group(x, 4 * q + 2)
      BY <1>2, <1>8, <2>1
    <3>2. Group(x, 4 * q + 1) = 16 * t + y \div 16 /\ Group(x, 4 * q + 2) = 4 * (y % 16) + z
      BY <1>1, <2>2, GroupIs
    <3>3. x[p + 1] \in 0 .. 255
      <4>1. p + 1 \in 1 .. Len(x)
        BY <1>1, <2>2
      <4> QED  BY ONLY <1>b, <4>1, Zenon
    <3>4. t \in 0 .. 3
      <4> DEFINE w == x[p + 1]
      <4>1. w \in 0 .. 255
        BY <3>3
      <4> HIDE DEF w
      <4>2. w % 4 \in 0 .. 3
        BY ONLY <4>1
      <4> QED  BY ONLY <4>2 DEF w
    <3> QED  BY ONLY <3>1, <3>2, <3>4, Zenon
  <2>4. v = (n \div 4) % 256
    BY TwoTos DEF ShiftRight
  <2> HIDE DEF y, v, z, t
  <2>5. c \div 4 = y % 16 /\ a % 16 = y \div 16
    BY ONLY <2>2, <2>3
  <2>6. v = y
    BY ONLY <1>4, <2>2, <2>4, <2>5
  <2> DEFINE e == Append(d, v)
  <2>7. Begins(x, e) /\ Len(e) = p + 2
    <3> DEFINE k == p + 1
    <3>1. k \in Nat /\ k = Len(d) /\ k + 1 = p + 2 /\ k + 1 <= Len(x)
      BY ONLY <1>1, <2>1
    <3>2. e = Append(d, x[k + 1])
      BY ONLY <2>6, <3>1, Zenon DEF y, e
    <3> HIDE DEF k, e
    <3>3. Begins(x, Append(d, x[k + 1])) /\ Len(Append(d, x[k + 1])) = k + 1
      BY ONLY <1>2, <3>1, ByteMore, x \in Seq(0 .. 255), Zenon
    <3> QED  BY ONLY <3>1, <3>2, <3>3, Zenon
  <2> HIDE DEF e
  <2>8. n % 4 = Group(x, (m + 1) - 1) % 4
    BY <1>4, <1>5
  <2>9. DecodedIs(x, m + 1, 2, n, e)
    BY ONLY <1>1, <2>1, <2>7, <2>8 DEF DecodedIs
  <2>10. FullByte(10)
    BY DEF FullByte
  <2> QED  BY ONLY <2>1, <2>9, <2>10 DEF e, v
<1>9. CASE r = 3
  <2>1. /\ (m + 1) % 4 = 0 /\ (m + 1) \div 4 = q + 1 /\ b = 2 /\ b + 6 = 8 /\ b - 2 = 0
        /\ Len(d) = p + 2 /\ m - 1 = 4 * q + 2 /\ m = 4 * q + 3 /\ p + 3 <= Len(x)
    <3>1. b = 2 /\ Len(d) = p + 2
      BY ONLY <1>2, <1>9, Zenon
    <3> QED  BY ONLY <1>1, <1>3, <1>9, <3>1
  <2> DEFINE y == x[p + 3]
             v == ShiftRight(n, 0) % 256
  <2>2. /\ p + 2 < Len(x) /\ p + 1 < Len(x) /\ p + 1 \in Nat /\ (p + 1) + 1 = p + 2
        /\ p + 2 \in Nat /\ (p + 2) + 1 = p + 3
    BY <1>1, <2>1
  <2>3. y \in 0 .. 255
    <3>1. p + 3 \in 1 .. Len(x)
      BY <1>1, <2>2
    <3> QED  BY ONLY <1>b, <3>1, Zenon
  <2> DEFINE t == x[p + 2] % 16
  <2>4. a % 4 = (4 * t + y \div 64) % 4 /\ c = y % 64 /\ t \in 0 .. 15
    <3>1. a % 4 = Group(x, 4 * q + 2) % 4 /\ c = Group(x, 4 * q + 3)
      BY <1>2, <1>9, <2>1
    <3>2. Group(x, 4 * q + 2) = 4 * t + y \div 64 /\ Group(x, 4 * q + 3) = y % 64
      BY <1>1, <2>2, GroupIs
    <3>3. x[p + 2] \in 0 .. 255
      <4>1. p + 2 \in 1 .. Len(x)
        BY <1>1, <2>2
      <4> QED  BY ONLY <1>b, <4>1, Zenon
    <3>4. t \in 0 .. 15
      <4> DEFINE w == x[p + 2]
      <4>1. w \in 0 .. 255
        BY <3>3
      <4> HIDE DEF w
      <4>2. w % 16 \in 0 .. 15
        BY ONLY <4>1
      <4> QED  BY ONLY <4>2 DEF w
    <3> QED  BY ONLY <3>1, <3>2, <3>4, Zenon
  <2>5. v = n % 256
    <3>1. n \div 1 = n
      OBVIOUS
    <3> QED  BY <3>1, TwoTos DEF ShiftRight
  <2> HIDE DEF y, v, t
  <2>6. a % 4 = y \div 64
    BY ONLY <2>3, <2>4
  <2>7. v = y
    BY ONLY <1>4, <2>3, <2>4, <2>5, <2>6
  <2> DEFINE e == Append(d, v)
  <2>8. Begins(x, e) /\ Len(e) = p + 3
    <3> DEFINE k == p + 2
    <3>1. k \in Nat /\ k = Len(d) /\ k + 1 = p + 3 /\ k + 1 <= Len(x)
      BY ONLY <1>1, <2>1
    <3>2. e = Append(d, x[k + 1])
      BY ONLY <2>7, <3>1, Zenon DEF y, e
    <3> HIDE DEF k, e
    <3>3. Begins(x, Append(d, x[k + 1])) /\ Len(Append(d, x[k + 1])) = k + 1
      BY ONLY <1>2, <3>1, ByteMore, x \in Seq(0 .. 255), Zenon
    <3> QED  BY ONLY <3>1, <3>2, <3>3, Zenon
  <2> HIDE DEF e
  <2>9. Len(e) = 3 * (q + 1)
    BY <1>1, <2>8
  <2>10. DecodedIs(x, m + 1, 0, n, e)
    BY ONLY <1>1, <2>1, <2>8, <2>9 DEF DecodedIs
  <2>11. FullByte(8)
    BY DEF FullByte
  <2> QED  BY ONLY <2>1, <2>10, <2>11 DEF e, v
<1> QED  BY <1>1, <1>6, <1>7, <1>8, <1>9

\* A character of the finished text that is not padding is one of the input's, and the
\* others are all behind those.
LEMMA NextCharacter ==
  ASSUME EncodeInv, at > Len(input), NEW k \in Nat, k < Len(text)
  PROVE  /\ Characters(Len(input)) \in Nat /\ Characters(Len(input)) <= Len(text)
         /\ text[k + 1] # Pad => /\ k + 1 <= Characters(Len(input))
                                 /\ text[k + 1] = Group(input, k) /\ text[k + 1] \in 0 .. 63
         /\ text[k + 1] = Pad => k + 1 > Characters(Len(input))
<1> DEFINE N == Characters(Len(input))
           G(i) == Group(input, i)
<1>1. /\ input \in Seq(0 .. 255)
      /\ Len(text) \in Nat /\ N <= Len(text)
      /\ \A i \in 1 .. Len(text) : \/ i <= N /\ text[i] = G(i - 1) /\ text[i] \in 0 .. 63
                                   \/ i > N /\ text[i] = Pad
  <2>1. Finished /\ input \in Seq(0 .. 255)
    BY Zenon DEF EncodeInv
  <2> QED  BY ONLY <2>1, Zenon DEF Finished
<1>2. N \in Nat
  <2>1. Len(input) \in Nat
    BY <1>1
  <2> QED  BY ONLY <2>1, CharactersEnd, Zenon
<1> HIDE DEF N, G
<1>3. k + 1 \in 1 .. Len(text) /\ (k + 1) - 1 = k
  BY <1>1
<1>4. \/ k + 1 <= N /\ text[k + 1] = G(k) /\ text[k + 1] \in 0 .. 63
      \/ k + 1 > N /\ text[k + 1] = Pad
  BY ONLY <1>1, <1>3
<1>5. \A i \in 0 .. 63 : i # Pad
  <2>1. Pad \notin 0 .. 63
    BY ONLY Base64Assumption, PTL
  <2> DEFINE S == 0 .. 63
  <2>2. Pad \notin S
    BY <2>1
  <2> HIDE DEF S
  <2>3. \A i \in S : i # Pad
    BY ONLY <2>2, Zenon
  <2> QED  BY <2>3 DEF S
<1>6. ~(k + 1 <= N /\ k + 1 > N)
  BY <1>2
<1> QED  BY ONLY <1>1, <1>2, <1>4, <1>5, <1>6, Zenon DEF N, G

\* A character taken of the text moves the decoder on as DecodeMoves has it.
LEMMA DecodeCharacterStep == EncodeInv /\ DecodeInv /\ DecodeCharacter => DecodeInv'
<1> SUFFICES ASSUME EncodeInv, DecodeInv, DecodeCharacter PROVE DecodeInv'
  OBVIOUS
<1> DEFINE N == Characters(Len(input))
           c == text[taken + 1]
           n == accumulatorIn'
<1>1. /\ at > Len(input) /\ taken < Len(text) /\ c # Pad
      /\ taken' = taken + 1 /\ input' = input /\ at' = at /\ text' = text
      /\ n = (ShiftLeft(accumulatorIn, 6) + c) % Accumulators
  BY DEF DecodeCharacter, encoderVars, Encoded
<1>2. /\ taken \in Nat /\ accumulatorIn \in Nat
      /\ DecodedIs(input, Characterwise, bitsIn, accumulatorIn, decoded)
      /\ input \in Seq(0 .. 255) /\ at \in Nat
  BY Zenon DEF DecodeInv, EncodeInv
<1>3. /\ N \in Nat /\ N <= Len(text) /\ taken + 1 <= N
      /\ c = Group(input, taken) /\ c \in 0 .. 63
  BY ONLY <1>1, <1>2, EncodeInv, NextCharacter, Zenon
<1>4. Characterwise = taken /\ Characterwise' = taken + 1
  <2>1. N' = N
    BY <1>1, Zenon
  <2> HIDE DEF N
  <2>2. taken <= N /\ taken' <= N
    BY <1>1, <1>2, <1>3
  <2> QED  BY ONLY <1>1, <2>1, <2>2, Zenon DEF Characterwise, N
<1>5. n \in Nat /\ MovedIn(n, accumulatorIn, c)
  BY ONLY <1>1, <1>2, <1>3, ShiftCharacterIn, Zenon
<1>6. MovedOn(input, taken, bitsIn, n, decoded)
  <2> HIDE DEF n, c
  <2>1. DecodedIs(input, taken, bitsIn, accumulatorIn, decoded)
    BY ONLY <1>2, <1>4, Zenon
  <2>2. input \in Seq(0 .. 255) /\ taken \in Nat /\ accumulatorIn \in Nat
    BY ONLY <1>2, Zenon
  <2>3. taken + 1 <= Characters(Len(input)) /\ c \in 0 .. 63 /\ c = Group(input, taken)
    BY ONLY <1>3, Zenon
  <2> QED  BY ONLY <1>5, <2>1, <2>2, <2>3, DecodeMoves, Zenon
<1>7. DecodedIs(input, taken + 1, bitsIn', n, decoded')
  <2>1. \/ ~FullByte(bitsIn + 6) /\ bitsIn' = bitsIn + 6 /\ decoded' = decoded
        \/ /\ FullByte(bitsIn + 6) /\ bitsIn' = bitsIn - 2
           /\ decoded' = Append(decoded, ShiftRight(n, bitsIn') % 256)
    BY Zenon DEF DecodeCharacter
  <2> HIDE DEF n
  <2>2. \/ ~FullByte(bitsIn + 6) /\ DecodedIs(input, taken + 1, bitsIn + 6, n, decoded)
        \/ /\ FullByte(bitsIn + 6)
           /\ DecodedIs(input, taken + 1, bitsIn - 2, n,
                        Append(decoded, ShiftRight(n, bitsIn - 2) % 256))
    BY ONLY <1>6, Zenon DEF MovedOn
  <2> QED  BY ONLY <2>1, <2>2, Zenon
<1>8. DecodedIs(input', Characterwise', bitsIn', n, decoded')
  BY ONLY <1>1, <1>4, <1>7, Zenon
<1>9. taken' \in Nat /\ taken' <= Len(text') /\ ~(at' <= Len(input'))
  <2>1. Len(input) \in Nat /\ Len(text') = Len(text) /\ Len(input') = Len(input)
    BY <1>1, <1>2
  <2>2. Len(text) \in Nat
    BY <1>1, Zenon DEF EncodeInv, Finished
  <2> QED  BY ONLY <1>1, <1>2, <2>1, <2>2
<1> QED  BY ONLY <1>5, <1>8, <1>9, Zenon DEF DecodeInv

\* Padding skipped is behind all the characters, and leaves the decoder as it is.
LEMMA SkipPaddingStep == EncodeInv /\ DecodeInv /\ SkipPadding => DecodeInv'
<1> SUFFICES ASSUME EncodeInv, DecodeInv, SkipPadding PROVE DecodeInv'
  OBVIOUS
<1> DEFINE N == Characters(Len(input))
<1>1. /\ at > Len(input) /\ taken < Len(text) /\ text[taken + 1] = Pad
      /\ taken' = taken + 1 /\ input' = input /\ at' = at /\ text' = text
      /\ bitsIn' = bitsIn /\ accumulatorIn' = accumulatorIn /\ decoded' = decoded
  BY DEF SkipPadding, encoderVars, Encoded
<1>2. /\ taken \in Nat /\ accumulatorIn \in Nat
      /\ DecodedIs(input, Characterwise, bitsIn, accumulatorIn, decoded)
      /\ input \in Seq(0 .. 255) /\ at \in Nat
  BY Zenon DEF DecodeInv, EncodeInv
<1>3. N \in Nat /\ taken + 1 > N
  BY ONLY <1>1, <1>2, EncodeInv, NextCharacter, Zenon
<1>4. Characterwise = N /\ Characterwise' = N
  <2>1. N' = N
    BY <1>1, Zenon
  <2> HIDE DEF N
  <2>2. ~(taken' <= N) /\ (taken <= N => taken = N)
    BY <1>1, <1>2, <1>3
  <2> QED  BY ONLY <1>1, <2>1, <2>2, Zenon DEF Characterwise, N
<1>5. DecodedIs(input', Characterwise', bitsIn', accumulatorIn', decoded')
  BY ONLY <1>1, <1>2, <1>4, Zenon
<1>6. taken' \in Nat /\ taken' <= Len(text') /\ ~(at' <= Len(input'))
  <2>1. Len(input) \in Nat /\ Len(text') = Len(text) /\ Len(input') = Len(input)
    BY <1>1, <1>2
  <2>2. Len(text) \in Nat
    BY <1>1, Zenon DEF EncodeInv, Finished
  <2> QED  BY ONLY <1>1, <1>2, <2>1, <2>2
<1>7. accumulatorIn' \in Nat
  BY <1>1, <1>2
<1> QED  BY ONLY <1>5, <1>6, <1>7, Zenon DEF DecodeInv

\* The encoder leaves the decoder where it starts.
LEMMA EncodeLeavesDecoder ==
  EncodeInv /\ EncodeInv' /\ DecodeInv /\ (EncodeByte \/ EncodeEnd) => DecodeInv'
<1> SUFFICES ASSUME EncodeInv, EncodeInv', DecodeInv, EncodeByte \/ EncodeEnd
             PROVE  DecodeInv'
  OBVIOUS
<1>1. /\ at <= Len(input) /\ at \in Nat /\ Len(input) \in Nat
      /\ taken' = taken /\ input' = input
      /\ bitsIn' = bitsIn /\ accumulatorIn' = accumulatorIn /\ decoded' = decoded
  <2>1. input \in Seq(0 .. 255) /\ at \in Nat
    BY Zenon DEF EncodeInv
  <2>2. Len(input) \in Nat
    BY <2>1
  <2>3. (at < Len(input) \/ at = Len(input)) /\ input' = input /\ decoderVars' = decoderVars
    BY DEF EncodeByte, EncodeEnd, decoderVars
  <2>4. at <= Len(input)
    BY ONLY <2>1, <2>2, <2>3
  <2> QED  BY <2>1, <2>2, <2>3, <2>4 DEF decoderVars
<1>2. taken = 0 /\ accumulatorIn \in Nat
      /\ DecodedIs(input, Characterwise, bitsIn, accumulatorIn, decoded)
  BY ONLY <1>1, DecodeInv, Zenon DEF DecodeInv
<1>3. Characterwise' = Characterwise
  BY <1>1, Zenon DEF Characterwise
<1>4. DecodedIs(input', Characterwise', bitsIn', accumulatorIn', decoded')
  BY ONLY <1>1, <1>2, <1>3, Zenon
<1>5. at' > Len(input') => taken' <= Len(text')
  <2>1. ASSUME at' > Len(input') PROVE Len(text') \in Nat
    BY <2>1, Zenon DEF EncodeInv, Finished
  <2>2. taken' = 0
    BY <1>1, <1>2
  <2> QED  BY ONLY <2>1, <2>2
<1>6. taken' = 0 /\ taken' \in Nat /\ accumulatorIn' \in Nat
  BY <1>1, <1>2
<1> QED  BY ONLY <1>4, <1>5, <1>6, Zenon DEF DecodeInv

\* The decoder's invariant: however far it is, it has put out the first bytes of what
\* was encoded, and holds the bits of the next.
THEOREM DecoderInvariant == Base64Safety => []DecodeInv
<1>1. Base64Init(Storable) => DecodeInv
  <2> SUFFICES ASSUME Base64Init(Storable) PROVE DecodeInv
    OBVIOUS
  <2>1. /\ input \in Seq(0 .. 255) /\ at = 0 /\ taken = 0 /\ bitsIn = 0
        /\ accumulatorIn = 0 /\ decoded = << >> /\ Len(input) \in Nat /\ ~(at > Len(input))
    BY DEF Base64Init, Storable
  <2>2. Characterwise = 0
    <3> DEFINE N == Characters(Len(input))
    <3>1. N \in Nat
      BY ONLY <2>1, CharactersEnd, Zenon
    <3> HIDE DEF N
    <3>2. taken <= N
      BY ONLY <2>1, <3>1
    <3> QED  BY ONLY <2>1, <3>2, Zenon DEF Characterwise, N
  <2>3. Begins(input, << >>)
    BY DEF Begins
  <2>4. DecodedIs(input, 0, 0, 0, << >>)
    <3>1. 0 % 4 = 0 /\ 3 * (0 \div 4) = 0 /\ Len(<< >>) = 0
      OBVIOUS
    <3> QED  BY ONLY <2>3, <3>1 DEF DecodedIs
  <2>5. taken \in Nat /\ accumulatorIn \in Nat
    BY <2>1
  <2> QED  BY ONLY <2>1, <2>2, <2>4, <2>5, Zenon DEF DecodeInv
<1>2. EncodeInv /\ EncodeInv' /\ DecodeInv /\ [Base64Next]_base64Vars => DecodeInv'
  <2>1. UNCHANGED base64Vars /\ DecodeInv => DecodeInv'
    <3> SUFFICES ASSUME UNCHANGED base64Vars, DecodeInv PROVE DecodeInv'
      OBVIOUS
    <3>1. /\ input' = input /\ at' = at /\ text' = text /\ taken' = taken
          /\ bitsIn' = bitsIn /\ accumulatorIn' = accumulatorIn /\ decoded' = decoded
      BY DEF base64Vars, encoderVars, decoderVars
    <3>2. Characterwise' = Characterwise
      BY ONLY <3>1, Zenon DEF Characterwise
    <3> QED  BY ONLY <3>1, <3>2, DecodeInv, Zenon DEF DecodeInv
  <2> QED  BY ONLY <2>1, EncodeLeavesDecoder, SkipPaddingStep, DecodeCharacterStep, Zenon
           DEF Base64Next
<1> QED  BY <1>1, <1>2, EncoderInvariant, PTL DEF Base64Safety

\* When the decoder is at the end of the text it has put out all the input, and no more.
LEMMA AllIsDecoded == EncodeInv /\ DecodeInv => DecodesBack
<1> SUFFICES ASSUME EncodeInv, DecodeInv, at > Len(input), taken = Len(text)
             PROVE  decoded = input
  BY DEF DecodesBack, Encoded
<1> DEFINE N == Characters(Len(input))
<1>1. /\ input \in Seq(0 .. 255) /\ Len(input) \in Nat
      /\ N <= Len(text) /\ Len(text) \in Nat
      /\ DecodedIs(input, Characterwise, bitsIn, accumulatorIn, decoded)
  <2>1. input \in Seq(0 .. 255) /\ Finished
        /\ DecodedIs(input, Characterwise, bitsIn, accumulatorIn, decoded)
    BY Zenon DEF EncodeInv, DecodeInv
  <2>2. Len(input) \in Nat
    BY <2>1
  <2> QED  BY ONLY <2>1, <2>2, Zenon DEF Finished
<1>2. /\ N \in Nat
      /\ N % 4 = 0 => Len(input) = 3 * (N \div 4)
      /\ N % 4 # 1
      /\ N % 4 = 2 => Len(input) = 3 * (N \div 4) + 1
      /\ N % 4 = 3 => Len(input) = 3 * (N \div 4) + 2
  BY ONLY <1>1, CharactersEnd, Zenon
<1>3. Characterwise = N
  <2> HIDE DEF N
  <2>1. taken <= N => taken = N
    BY ONLY <1>1, <1>2, taken = Len(text)
  <2> QED  BY ONLY <2>1, Zenon DEF Characterwise, N
<1>4. DecodedIs(input, N, bitsIn, accumulatorIn, decoded)
  BY ONLY <1>1, <1>3, Zenon
<1> HIDE DEF N
<1>5. Begins(input, decoded) /\ Len(decoded) = Len(input)
  BY ONLY <1>2, <1>4, Zenon DEF DecodedIs
<1>6. decoded \in Seq(0 .. 255) /\ \A i \in 1 .. Len(decoded) : decoded[i] = input[i]
  BY ONLY <1>5, Zenon DEF Begins
<1> QED  BY ONLY <1>1, <1>5, <1>6

\* base64_decode gives back what base64_encode was given wherever that returns, which
\* it does for every input that has a byte (AbortsForNothingElse), although the text is
\* not always padded to four characters and the last bits of both accumulators are
\* thrown away.
THEOREM DecodesWhatItEncoded == Base64Safety => []DecodesBack
<1> QED  BY AllIsDecoded, EncoderInvariant, DecoderInvariant, PTL

=============================================================================
