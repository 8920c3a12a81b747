------------------------------- MODULE Base64 -------------------------------
(***************************************************************************)
(* base64_encode(unsigned char *, size_t), which makes the handshake's     *)
(* answer of a digest of 20 bytes, and base64_decode of what it has made.  *)
(* A character is the number it stands for in b64_table; the padding is    *)
(* Pad.                                                                    *)
(***************************************************************************)
EXTENDS Integers, Sequences

CONSTANTS Accumulators,     \* how many values the accumulator, an unsigned int, has
          SizeT,            \* and a size_t
          Pad               \* '='

\* The accumulator is a power of two, of which the twelve bits in use are a part.
ASSUME Base64Assumption == /\ Accumulators \in Nat \ {0} /\ Accumulators % 4096 = 0
                           /\ SizeT \in Nat /\ SizeT > 4
                           /\ Pad \notin 0 .. 63

VARIABLES input,        \* bytes to encode
          at,           \* how many of them the loop has taken
          bits,         \* bits_collected
          accumulator,
          text,         \* characters put out
          aborted,      \* an assert of base64_encode has failed
          taken,        \* how many of them base64_decode has taken
          bitsIn,       \* its bits_collected
          accumulatorIn,\* its accumulator
          decoded       \* bytes it has put out

encoderVars == <<input, at, bits, accumulator, text, aborted>>
decoderVars == <<taken, bitsIn, accumulatorIn, decoded>>
base64Vars  == <<encoderVars, decoderVars>>

\* (a << k) in the accumulator, and (a >> k).  The powers of two are a table, which the
\* provers can read.
TwoTo(k) == <<1, 2, 4, 8, 16, 32, 64, 128, 256>>[k + 1]
ShiftLeft(a, k)  == (a * TwoTo(k)) % Accumulators
ShiftRight(a, k) == a \div TwoTo(k)

\* The characters a loop puts out of b bits, and the bits left.
SixesKept(b, a) == [i \in 1 .. (b \div 6) |-> ShiftRight(a, b - 6) % 64]   \* mutant
Sixes(b, a) == [i \in 1 .. (b \div 6) |-> ShiftRight(a, b - 6 * i) % 64]

\* One byte.
EncodeByte == /\ at < Len(input)
              /\ at' = at + 1
              /\ accumulator' = (ShiftLeft(accumulator, 8) + input[at']) % Accumulators
              /\ text' = text \o Sixes(bits + 8, accumulator')
              /\ bits' = (bits + 8) % 6
              /\ UNCHANGED <<input, aborted, decoderVars>>

\* The bits left after the last byte, and the signs the string was filled with.
Size(n) == ((n + 1) * 4) \div 3
LastCharacterForgotten == << >>                                          \* mutant
LastCharacter == IF bits = 0 THEN << >> ELSE <<ShiftLeft(accumulator, 6 - bits) % 64>>

\* The two asserts behind the loop, of which the first subtracts in a size_t: below 0 it
\* goes on from the top.
MinusTwo(n) == IF n < 2 THEN SizeT + n - 2 ELSE n - 2
AssertsHoldBelow(outpos, size) == outpos >= MinusTwo(size) /\ outpos < size \* mutant
AssertsHold(outpos, size) == outpos >= MinusTwo(size) /\ outpos <= size

EncodeEnd == /\ at = Len(input)
             /\ at' = at + 1
             /\ text' = text \o LastCharacter
                          \o [i \in 1 .. (Size(Len(input)) - Len(text \o LastCharacter)) |-> Pad]
             /\ aborted' = ~AssertsHold(Len(text \o LastCharacter), Size(Len(input)))
             /\ UNCHANGED <<input, bits, accumulator, decoderVars>>

\* base64_encode has returned.
Encoded == at > Len(input) /\ ~aborted

\* base64_decode, a character of the finished text.
SkipPadding == /\ Encoded /\ taken < Len(text)
               /\ text[taken + 1] = Pad
               /\ taken' = taken + 1
               /\ UNCHANGED <<encoderVars, bitsIn, accumulatorIn, decoded>>

FullByteLate(b) == b > 8                                                 \* mutant
FullByte(b) == b >= 8

DecodeCharacter ==
  /\ Encoded /\ taken < Len(text)
  /\ text[taken + 1] # Pad
  /\ taken' = taken + 1
  /\ accumulatorIn' = (ShiftLeft(accumulatorIn, 6) + text[taken']) % Accumulators
  /\ \/ ~FullByte(bitsIn + 6) /\ bitsIn' = bitsIn + 6 /\ UNCHANGED decoded
     \/ /\ FullByte(bitsIn + 6)
        /\ bitsIn' = bitsIn - 2
        /\ decoded' = Append(decoded, ShiftRight(accumulatorIn', bitsIn') % 256)
  /\ UNCHANGED encoderVars

Base64Init(inputs) == /\ input \in inputs
                      /\ at = 0 /\ bits = 0 /\ accumulator = 0 /\ text = << >>
                      /\ aborted = FALSE
                      /\ taken = 0 /\ bitsIn = 0 /\ accumulatorIn = 0 /\ decoded = << >>

Base64Next == EncodeByte \/ EncodeEnd \/ SkipPadding \/ DecodeCharacter
-----------------------------------------------------------------------------
\* The definition of base64: the bytes' bits in groups of six, zeros after the last.
Bit(x, k) == IF k \div 8 < Len(x) THEN (x[(k \div 8) + 1] \div TwoTo(7 - (k % 8))) % 2 ELSE 0
Group(x, j) == 32 * Bit(x, 6 * j) + 16 * Bit(x, 6 * j + 1) + 8 * Bit(x, 6 * j + 2)
                 + 4 * Bit(x, 6 * j + 3) + 2 * Bit(x, 6 * j + 4) + Bit(x, 6 * j + 5)

\* Every character put out is its group of six bits, whatever bits the accumulator
\* carries over from byte to byte (base64.hpp:42-54).
CharactersAreGroups == \A i \in DOMAIN text : text[i] \in {Group(input, i - 1), Pad}

\* The asserts hold for every input but the empty one, for which size() - 2 is no small
\* number: the string has one sign for it, where it has two or more for all the others,
\* of which one is left at most (base64.hpp:36, 55-56).
AbortsOnlyForNothing == at > Len(input) => (aborted <=> input = << >>)

\* What is encoded is decoded to what it was, when all of it is taken; padding and the
\* bits that are left in either accumulator notwithstanding (base64.hpp:26-58, 95-120).
DecodesBack == Encoded /\ taken = Len(text) => decoded = input

\* The answer to a handshake is padded as the standard has it: the size of the string is
\* right for 20 bytes, as for all lengths of which 2 is left modulo 3 (base64.hpp:36,
\* ws_session.cpp:113).
AnswerIsPadded ==
  Encoded /\ Len(input) % 3 = 2 =>
    Len(text) % 4 = 0 /\ \A i \in DOMAIN text : text[i] = Pad <=> i = Len(text)
=============================================================================
