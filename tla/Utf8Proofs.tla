----------------------------- MODULE Utf8Proofs -----------------------------
(***************************************************************************)
(* The validator is exact for every sequence of bytes.  The inductive      *)
(* invariant lists what length_, it_ and previous_byte_ say of the bits    *)
(* that have come, one case per number of bytes announced and due.         *)
(***************************************************************************)
EXTENDS Utf8, TLAPS

\* length_ and it_ agree with the reference that k bytes make the character and d of
\* them are due.
At(k, d) == length = k /\ it = d /\ n = k /\ due = d

Utf8Inv == /\ Utf8TypeOK
           /\ \/ it = -1 /\ ~Extendable
              \/ it = 0 /\ due = 0 /\ value \in Encoded(n)
              \/ At(2, 1) /\ value \in 2 .. 31
              \/ At(3, 2) /\ value \in 0 .. 15 /\ previous = 224 + value
              \/ At(3, 1) /\ value \in (32 .. 863) \cup (896 .. 1023)
              \/ At(4, 3) /\ value \in 0 .. 4 /\ previous = 240 + value
              \/ At(4, 2) /\ value \in 16 .. 271
              \/ At(4, 1) /\ value \in Unit .. 17 * Unit - 1

\* Cited instead of Unit's definition, so that the bounds stay products: the SMT
\* backend cannot write out literals as large as theirs.
LEMMA UnitIs == Unit \in Int /\ 1023 < Unit /\ Unit < 1025
BY DEF Unit

\* In every case but the first the bits can be completed to a legal character.
LEMMA InvExact == Utf8Inv => ValidWhileExtendable /\ CompleteAtCharacters
<1> SUFFICES ASSUME Utf8Inv
             PROVE  (it >= 0 <=> Extendable) /\ (it = 0 <=> due = 0 /\ value \in Encoded(n))
  BY DEF ValidWhileExtendable, CompleteAtCharacters
<1>1. it \in Int /\ value \in Int
  BY DEF Utf8Inv, Utf8TypeOK
<1>2. CASE it = -1 /\ ~Extendable
  <2>1. ~(due = 0 /\ value \in Encoded(n))
    <3> SUFFICES ASSUME due = 0, value \in Encoded(n) PROVE Extendable
      BY <1>2
    <3>1. value \in Completions(due, value)
      BY <1>1, UnitIs DEF Completions, Span
    <3> QED  BY <3>1 DEF Extendable
  <2> QED  BY <1>2, <2>1
<1>3. CASE it = 0 /\ due = 0 /\ value \in Encoded(n)
  <2>1. value \in Completions(due, value)
    BY <1>1, <1>3, UnitIs DEF Completions, Span
  <2> QED  BY <1>3, <2>1 DEF Extendable
<1>4. CASE At(2, 1) /\ value \in 2 .. 31
  <2>1. value * 64 \in Completions(due, value) /\ value * 64 \in Encoded(n)
    BY <1>4, UnitIs DEF At, Completions, Span, Encoded
  <2> QED  BY <1>4, <2>1 DEF Extendable, At
<1>5. CASE At(3, 2) /\ value \in 0 .. 15
  <2>1. CASE value = 0
    <3>1. 2048 \in Completions(due, value) /\ 2048 \in Encoded(n)
      BY <1>5, <2>1, UnitIs DEF At, Completions, Span, Encoded
    <3> QED  BY <1>5, <3>1 DEF Extendable, At
  <2>2. CASE value # 0
    <3>1. value * 4096 \in Completions(due, value) /\ value * 4096 \in Encoded(n)
      BY <1>5, <2>2, UnitIs DEF At, Completions, Span, Encoded
    <3> QED  BY <1>5, <3>1 DEF Extendable, At
  <2> QED  BY <2>1, <2>2
<1>6. CASE At(3, 1) /\ value \in (32 .. 863) \cup (896 .. 1023)
  <2>1. value * 64 \in Completions(due, value) /\ value * 64 \in Encoded(n)
    BY <1>6, UnitIs, SMTT(60) DEF At, Completions, Span, Encoded
  <2> QED  BY <1>6, <2>1 DEF Extendable, At
<1>7. CASE At(4, 3) /\ value \in 0 .. 4
  <2>1. CASE value = 0
    <3>1. 64 * Unit \in Completions(due, value) /\ 64 * Unit \in Encoded(n)
      BY <1>7, <2>1, UnitIs DEF At, Completions, Span, Encoded
    <3> QED  BY <1>7, <3>1 DEF Extendable, At
  <2>2. CASE value # 0
    <3>1. /\ value * (256 * Unit) \in Completions(due, value)
          /\ value * (256 * Unit) \in Encoded(n)
      BY <1>7, <2>2, UnitIs DEF At, Completions, Span, Encoded
    <3> QED  BY <1>7, <3>1 DEF Extendable, At
  <2> QED  BY <2>1, <2>2
<1>8. CASE At(4, 2) /\ value \in 16 .. 271
  <2>1. value * 4096 \in Completions(due, value) /\ value * 4096 \in Encoded(n)
    BY <1>8, UnitIs DEF At, Completions, Span, Encoded
  <2> QED  BY <1>8, <2>1 DEF Extendable, At
<1>9. CASE At(4, 1) /\ value \in Unit .. 17 * Unit - 1
  <2>1. value * 64 \in Completions(due, value) /\ value * 64 \in Encoded(n)
    BY <1>9, UnitIs DEF At, Completions, Span, Encoded
  <2> QED  BY <1>9, <2>1 DEF Extendable, At
<1> QED  BY <1>2, <1>3, <1>4, <1>5, <1>6, <1>7, <1>8, <1>9 DEF Utf8Inv

\* The first byte of a character.
LEMMA FirstByte ==
  ASSUME Utf8Inv, it = 0, NEW b \in 0 .. 255, SetLength(b), Reference(b)
  PROVE  Utf8Inv'
<1>1. due = 0 /\ length \in 0 .. 4 /\ previous \in 0 .. 255
  BY DEF Utf8Inv, Utf8TypeOK, At
<1>2. CASE b \in 0 .. 127
  <2>1. length' = 1 /\ it' = 0 /\ previous' = previous /\ n' = 1 /\ due' = 0 /\ value' = b
    BY <1>1, <1>2 DEF SetLength, Reference, Character, NoCharacter, Continuation
  <2> QED  BY <1>1, <1>2, <2>1, UnitIs DEF Utf8Inv, Utf8TypeOK, Encoded
<1>3. CASE b \in 194 .. 223
  <2>1. /\ length' = 2 /\ it' = 1 /\ previous' = previous
        /\ n' = 2 /\ due' = 1 /\ value' = b - 192
    BY <1>1, <1>3 DEF SetLength, Reference, Character, NoCharacter, Continuation
  <2> QED  BY <1>1, <1>3, <2>1 DEF Utf8Inv, Utf8TypeOK, At
<1>4. CASE b \in 224 .. 239
  <2>1. length' = 3 /\ it' = 2 /\ previous' = b /\ n' = 3 /\ due' = 2 /\ value' = b - 224
    BY <1>1, <1>4 DEF SetLength, Reference, Character, NoCharacter, Continuation
  <2> QED  BY <1>4, <2>1 DEF Utf8Inv, Utf8TypeOK, At
<1>5. CASE b \in 240 .. 244
  <2>1. length' = 4 /\ it' = 3 /\ previous' = b /\ n' = 4 /\ due' = 3 /\ value' = b - 240
    BY <1>1, <1>5 DEF SetLength, Reference, Character, NoCharacter, Continuation
  <2> QED  BY <1>5, <2>1 DEF Utf8Inv, Utf8TypeOK, At
<1>6. CASE b \in Continuation \cup {192, 193} \cup 245 .. 255
  <2>1. it' = -1 /\ length' = length /\ previous' = previous
    BY <1>6 DEF SetLength, Invalid, Continuation
  <2>2. \/ n' = 0 /\ due' = 0 /\ value' = 0
        \/ n' = 2 /\ due' = 1 /\ value' \in {0, 1}
        \/ n' = 4 /\ due' = 3 /\ value' \in {5, 6, 7}
    BY <1>1, <1>6 DEF Reference, Character, NoCharacter, Continuation
  <2>3. ~Extendable'
    BY <2>2, UnitIs, SMTT(60) DEF Extendable, Completions, Span, Encoded
  <2> QED  BY <1>1, <2>1, <2>2, <2>3 DEF Utf8Inv, Utf8TypeOK
<1> QED  BY <1>2, <1>3, <1>4, <1>5, <1>6 DEF Continuation

\* A byte inside a character that is no continuation byte: both stop (error I).
LEMMA NotContinuation ==
  ASSUME Utf8Inv, it > 0, NEW b \in 0 .. 255, b \notin Continuation,
         Validate(b), Reference(b)
  PROVE  Utf8Inv'
<1>1. it' = -1 /\ length' = length /\ previous' = previous
  BY DEF Validate, Invalid
<1>2. due > 0
  BY DEF Utf8Inv, At
<1>3. n' = 0 /\ due' = 0 /\ value' = 0
  BY <1>2 DEF Reference, NoCharacter
<1>4. ~Extendable'
  BY <1>3, UnitIs DEF Extendable, Encoded
<1> QED  BY <1>1, <1>3, <1>4 DEF Utf8Inv, Utf8TypeOK

\* A continuation byte that no rule refuses: the character goes on.
LEMMA Accepted ==
  ASSUME Utf8Inv, it > 0, NEW b \in Continuation, ~OutOfRange(b),
         Validate(b), Reference(b)
  PROVE  Utf8Inv'
<1>1. b \in 128 .. 191
  BY DEF Continuation
<1>2. it' = it - 1 /\ length' = length /\ previous' = previous
  BY DEF Validate
<1>3. due > 0
  BY DEF Utf8Inv, At
<1>4. n' = n /\ due' = due - 1 /\ value' = value * 64 + (b - 128)
  BY <1>3 DEF Reference
<1>t. Utf8TypeOK'
  BY <1>1, <1>2, <1>3, <1>4 DEF Utf8Inv, Utf8TypeOK
<1>5. CASE At(2, 1) /\ value \in 2 .. 31
  <2>1. value' \in 128 .. 2047
    BY <1>1, <1>4, <1>5
  <2>2. it' = 0 /\ due' = 0 /\ n' = 2
    BY <1>2, <1>4, <1>5 DEF At
  <2>3. value' \in Encoded(n')
    BY ONLY <2>1, <2>2, UnitIs DEF Encoded
  <2> QED  BY <1>t, <2>2, <2>3 DEF Utf8Inv
<1>6. CASE At(3, 2) /\ value \in 0 .. 15 /\ previous = 224 + value
  <2>1. value' \in (32 .. 863) \cup (896 .. 1023)
    BY <1>1, <1>4, <1>6 DEF OutOfRange, At
  <2>2. length' = 3 /\ it' = 1 /\ n' = 3 /\ due' = 1
    BY <1>2, <1>4, <1>6 DEF At
  <2> QED  BY <1>t, <2>1, <2>2 DEF Utf8Inv, At
<1>7. CASE At(3, 1) /\ value \in (32 .. 863) \cup (896 .. 1023)
  <2>1. value' \in (2048 .. 54 * Unit - 1) \cup (56 * Unit .. 64 * Unit - 1)
    BY <1>1, <1>4, <1>7, UnitIs
  <2>2. it' = 0 /\ due' = 0 /\ n' = 3
    BY <1>2, <1>4, <1>7 DEF At
  <2>3. value' \in Encoded(n')
    BY ONLY <2>1, <2>2, UnitIs DEF Encoded
  <2> QED  BY <1>t, <2>2, <2>3 DEF Utf8Inv
<1>8. CASE At(4, 3) /\ value \in 0 .. 4 /\ previous = 240 + value
  <2>1. value' \in 16 .. 271
    BY <1>1, <1>4, <1>8 DEF OutOfRange, At
  <2>2. length' = 4 /\ it' = 2 /\ n' = 4 /\ due' = 2
    BY <1>2, <1>4, <1>8 DEF At
  <2> QED  BY <1>t, <2>1, <2>2 DEF Utf8Inv, At
<1>9. CASE At(4, 2) /\ value \in 16 .. 271
  <2>1. value' \in Unit .. 17 * Unit - 1
    BY <1>1, <1>4, <1>9, UnitIs
  <2>2. length' = 4 /\ it' = 1 /\ n' = 4 /\ due' = 1
    BY <1>2, <1>4, <1>9 DEF At
  <2> QED  BY <1>t, <2>1, <2>2 DEF Utf8Inv, At
<1>10. CASE At(4, 1) /\ value \in Unit .. 17 * Unit - 1
  <2>1. value' \in 64 * Unit .. 1088 * Unit - 1
    BY <1>1, <1>4, <1>10, UnitIs
  <2>2. it' = 0 /\ due' = 0 /\ n' = 4
    BY <1>2, <1>4, <1>10 DEF At
  <2>3. value' \in Encoded(n')
    BY ONLY <2>1, <2>2, UnitIs DEF Encoded
  <2> QED  BY <1>t, <2>2, <2>3 DEF Utf8Inv
<1>11. \/ At(2, 1) /\ value \in 2 .. 31
       \/ At(3, 2) /\ value \in 0 .. 15 /\ previous = 224 + value
       \/ At(3, 1) /\ value \in (32 .. 863) \cup (896 .. 1023)
       \/ At(4, 3) /\ value \in 0 .. 4 /\ previous = 240 + value
       \/ At(4, 2) /\ value \in 16 .. 271
       \/ At(4, 1) /\ value \in Unit .. 17 * Unit - 1
  <2>1. ~(it = -1 /\ ~Extendable) /\ ~(it = 0 /\ due = 0 /\ value \in Encoded(n))
    OBVIOUS
  <2> QED  BY <2>1 DEF Utf8Inv
<1> QED  BY <1>5, <1>6, <1>7, <1>8, <1>9, <1>10, <1>11

\* A continuation byte that errors II, III or IV refuse: the bits lead to no legal
\* character, in any of the four cases.
LEMMA Refused ==
  ASSUME Utf8Inv, it > 0, NEW b \in Continuation, OutOfRange(b),
         Validate(b), Reference(b)
  PROVE  Utf8Inv'
<1>1. b \in 128 .. 191
  BY DEF Continuation
<1>2. it' = -1 /\ length' = length /\ previous' = previous
  BY DEF Validate, Invalid
<1>3. due > 0 /\ value \in Nat
  BY DEF Utf8Inv, Utf8TypeOK, At
<1>4. n' = n /\ due' = due - 1 /\ value' = value * 64 + (b - 128)
  BY <1>3 DEF Reference
<1>5. \/ n' = 3 /\ due' = 1 /\ value' \in (0 .. 31) \cup (864 .. 895)
      \/ n' = 4 /\ due' = 2 /\ value' \in (0 .. 15) \cup (272 .. 319)
  <2>1. \/ length = 4 /\ it = 3 /\ previous = 240 /\ b <= 143
        \/ length = 3 /\ it = 2 /\ previous = 224 /\ b <= 159
        \/ length = 4 /\ it = 3 /\ previous = 244 /\ b >= 144
        \/ length = 3 /\ it = 2 /\ previous = 237 /\ b >= 160
    BY DEF OutOfRange
  <2>2. \/ length = 3 /\ it = 2 /\ n = 3 /\ due = 2 /\ previous = 224 + value
        \/ length = 4 /\ it = 3 /\ n = 4 /\ due = 3 /\ previous = 240 + value
    BY <2>1 DEF Utf8Inv, At
  <2> QED  BY <1>1, <1>3, <1>4, <2>1, <2>2
<1>6. ~Extendable'
  BY <1>5, UnitIs DEF Extendable, Completions, Span, Encoded
<1> QED  BY <1>2, <1>5, <1>6 DEF Utf8Inv, Utf8TypeOK

\* Every byte keeps the invariant.
LEMMA Utf8Step == Utf8Inv /\ [Utf8Next]_utf8Vars => Utf8Inv'
<1> SUFFICES ASSUME Utf8Inv, [Utf8Next]_utf8Vars PROVE Utf8Inv'
  OBVIOUS
<1>1. ASSUME NEW b \in Bytes, Feed(b) PROVE Utf8Inv'
  <2>1. b \in 0 .. 255 /\ it >= 0 /\ it \in Int
    BY <1>1, BytesAssumption DEF Feed, Utf8Inv, Utf8TypeOK
  <2>2. CASE it = 0
    BY <1>1, <2>1, <2>2, FirstByte DEF Feed, Validate
  <2>3. CASE it > 0
    BY <1>1, <2>1, <2>3, NotContinuation, Accepted, Refused DEF Feed
  <2> QED  BY <2>1, <2>2, <2>3
<1>2. CASE UNCHANGED utf8Vars
  BY <1>2 DEF utf8Vars, Utf8Inv, Utf8TypeOK, At, Extendable
<1> QED  BY <1>1, <1>2 DEF Utf8Next

\* The inductive invariant holds in every reachable state.
THEOREM Utf8Invariant == Utf8Spec => []Utf8Inv
<1>1. Utf8Init => Utf8Inv
  BY BytesAssumption, UnitIs DEF Utf8Init, Utf8Inv, Utf8TypeOK, Encoded
<1> QED  BY <1>1, Utf8Step, PTL DEF Utf8Spec

\* Every variable keeps its type; it_ in particular stays far inside its int8_t.
THEOREM Utf8Types == Utf8Spec => []Utf8TypeOK
<1>1. Utf8Inv => Utf8TypeOK
  BY DEF Utf8Inv
<1> QED  BY <1>1, Utf8Invariant, PTL

\* For every sequence of bytes, valid() is false exactly from the first byte on after
\* which no legal text is possible.
THEOREM ValidIsExact == Utf8Spec => []ValidWhileExtendable
<1> QED  BY InvExact, Utf8Invariant, PTL

\* For every sequence of bytes, complete() holds exactly after whole legal characters.
THEOREM CompleteIsExact == Utf8Spec => []CompleteAtCharacters
<1> QED  BY InvExact, Utf8Invariant, PTL
=============================================================================
