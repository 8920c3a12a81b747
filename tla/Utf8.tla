-------------------------------- MODULE Utf8 --------------------------------
(***************************************************************************)
(* Utilities::Utf8::Byte, the validator that text is run through one byte  *)
(* at a time, beside a reference that keeps what the bytes have encoded    *)
(* and knows only the table of UTF-8: how many bytes a first byte          *)
(* announces, and the code points each length may stand for.               *)
(***************************************************************************)
EXTENDS Integers

CONSTANT Bytes      \* the bytes a text is made of

ASSUME BytesAssumption == Bytes \subseteq 0 .. 255

VARIABLES length,   \* length_
          it,       \* it_: bytes still due; 0 between characters, -1 once invalid
          previous, \* previous_byte_; not set by the constructor
          n,        \* reference: bytes of the character under way, 0 when it is none
          due,      \* reference: bytes of it that have not come
          value     \* reference: the bits of its bytes so far

code == <<length, it, previous>>
ref  == <<n, due, value>>
utf8Vars == <<length, it, previous, n, due, value>>

Continuation == 128 .. 191      \* 10xxxxxx
-----------------------------------------------------------------------------
Invalid == it' = -1 /\ UNCHANGED <<length, previous>>

\* A character's first byte.
SetLengthLax(b) ==                                                     \* mutant
  \/ b \in 0 .. 127   /\ length' = 1 /\ it' = 0 /\ UNCHANGED previous
  \/ b \in 192 .. 223 /\ length' = 2 /\ it' = 1 /\ UNCHANGED previous
  \/ b \in 224 .. 239 /\ length' = 3 /\ it' = 2 /\ previous' = b
  \/ b \in 240 .. 244 /\ length' = 4 /\ it' = 3 /\ previous' = b
  \/ b \in Continuation \cup 245 .. 255 /\ Invalid

SetLengthLong(b) ==                                                    \* mutant
  \/ b \in 0 .. 127   /\ length' = 1 /\ it' = 0 /\ UNCHANGED previous
  \/ b \in 194 .. 223 /\ length' = 2 /\ it' = 1 /\ UNCHANGED previous
  \/ b \in 224 .. 239 /\ length' = 3 /\ it' = 2 /\ previous' = b
  \/ b \in 240 .. 244 /\ length' = 4 /\ it' = 3 /\ previous' = b
  \/ b \in 245 .. 251 /\ length' = 5 /\ it' = 4 /\ previous' = b
  \/ b \in Continuation \cup {192, 193} \cup 252 .. 255 /\ Invalid

SetLength(b) ==
  \/ b \in 0 .. 127   /\ length' = 1 /\ it' = 0 /\ UNCHANGED previous
  \/ b \in 194 .. 223 /\ length' = 2 /\ it' = 1 /\ UNCHANGED previous
  \/ b \in 224 .. 239 /\ length' = 3 /\ it' = 2 /\ previous' = b
  \/ b \in 240 .. 244 /\ length' = 4 /\ it' = 3 /\ previous' = b
  \/ b \in Continuation \cup {192, 193} \cup 245 .. 255 /\ Invalid

\* The errors a later byte can make: I it is no continuation, II the character has a
\* shorter encoding, III it is over 10FFFF, IV it is a surrogate.
OutOfRangeStale(b) ==                                                  \* mutant
  \/ it = length - 1 /\ previous = 240 /\ b <= 143
  \/ it = length - 1 /\ previous = 224 /\ b <= 159
  \/ it = length - 1 /\ previous = 244 /\ b >= 144
  \/ it = length - 1 /\ previous = 237 /\ b >= 160

OutOfRange(b) ==
  \/ length = 4 /\ it = 3 /\ previous = 240 /\ b <= 143
  \/ length = 3 /\ it = 2 /\ previous = 224 /\ b <= 159
  \/ length = 4 /\ it = 3 /\ previous = 244 /\ b >= 144
  \/ length = 3 /\ it = 2 /\ previous = 237 /\ b >= 160

Validate(b) ==
  \/ it = 0 /\ SetLength(b)
  \/ it # 0 /\ (b \notin Continuation \/ OutOfRange(b)) /\ Invalid
  \/ /\ it # 0 /\ b \in Continuation /\ ~OutOfRange(b)
     /\ it' = it - 1
     /\ UNCHANGED <<length, previous>>
-----------------------------------------------------------------------------
\* The reference: bytes and payload bits by the leading bits of the first byte.
Character(bytes, bits) == n' = bytes /\ due' = bytes - 1 /\ value' = bits
NoCharacter == n' = 0 /\ due' = 0 /\ value' = 0

Reference(b) ==
  \/ due = 0 /\ b \in 0 .. 127   /\ Character(1, b)
  \/ due = 0 /\ b \in 192 .. 223 /\ Character(2, b - 192)
  \/ due = 0 /\ b \in 224 .. 239 /\ Character(3, b - 224)
  \/ due = 0 /\ b \in 240 .. 247 /\ Character(4, b - 240)
  \/ due = 0 /\ b \in Continuation \cup 248 .. 255 /\ NoCharacter
  \/ due > 0 /\ b \in Continuation
     /\ n' = n /\ due' = due - 1 /\ value' = value * 64 + (b - 128)
  \/ due > 0 /\ b \notin Continuation /\ NoCharacter

\* The surrogates are two units of code points, and the last one ends the 1088th.
Unit == 1024

\* The code points whose shortest encoding has k bytes, surrogates excluded.
Encoded(k) == CASE k = 1 -> 0 .. 127
                [] k = 2 -> 128 .. 2047
                [] k = 3 -> (2048 .. 54 * Unit - 1) \cup (56 * Unit .. 64 * Unit - 1)
                [] k = 4 -> 64 * Unit .. 1088 * Unit - 1
                [] OTHER -> {}

\* The code points that k more bytes of six bits can turn the bits v into.
Span(k) == CASE k = 0 -> 1 [] k = 1 -> 64 [] k = 2 -> 4096 [] OTHER -> 256 * Unit
Completions(k, v) == v * Span(k) .. (v * Span(k) + Span(k) - 1)

\* What has come of the character can still be, or is, a legal one.
Extendable == \E c \in Completions(due, value) : c \in Encoded(n)
-----------------------------------------------------------------------------
\* Callers stop at the first byte that validate() refuses (websocket.cpp:103-138).
Feed(b) == it >= 0 /\ Validate(b) /\ Reference(b)

Utf8Init == /\ length = 0 /\ it = 0 /\ previous \in Bytes
            /\ n = 1 /\ due = 0 /\ value = 0

Utf8Next == \E b \in Bytes : Feed(b)

Utf8Spec == Utf8Init /\ [][Utf8Next]_utf8Vars
-----------------------------------------------------------------------------
\* Every variable has its type.
Utf8TypeOK == /\ length \in 0 .. 4 /\ it \in -1 .. 3 /\ previous \in 0 .. 255
              /\ n \in 0 .. 4 /\ due \in 0 .. 3 /\ value \in Nat

\* The validator refuses a text at the very byte after which no legal text is left,
\* neither earlier nor later: valid() is that question (utilities_utf8.cpp:63-65).
ValidWhileExtendable == it >= 0 <=> Extendable

\* complete() is true exactly where a text may end: after a whole character, which
\* is legal and in its shortest encoding (utilities_utf8.cpp:67-69).
CompleteAtCharacters == it = 0 <=> due = 0 /\ value \in Encoded(n)

\* Comment IV (utilities_utf8.cpp:44): of the bytes after 0xED it is those > 0xA0 and
\* < 0xB0 that are invalid.  The code (line 109) refuses 0xA0 and 0xB0 .. 0xBF as well.
SurrogatesAsCommented ==
  [][\A b \in Bytes \cap Continuation :
       Feed(b) /\ length = 3 /\ it = 2 /\ previous = 237
         => (it' = -1 <=> 160 < b /\ b < 176)]_utf8Vars
=============================================================================
