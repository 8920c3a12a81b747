--------------------------- MODULE OutgoingProofs ---------------------------
(***************************************************************************)
(* What the peer receives of one session, for any number of writes and any *)
(* way the socket cuts them up: the frames of the read loop in their turn, *)
(* and control frames from memory that nothing writes to meanwhile.        *)
(***************************************************************************)
EXTENDS Outgoing, SequenceLemmas, FiniteSetTheorems

\* The part of the type invariant that the socket's steps are about.
SocketTypes == /\ started \in Seq([kind : Kinds, buffer : 0 .. (MaxWrites + 2)])
               /\ left \in Seq(0 .. Parts) /\ Len(left) = Len(started)
               /\ sending \in Seq(Frames) /\ resuming \subseteq Frames
               /\ ended \subseteq Frames \X BOOLEAN
               /\ wire \in Seq(Frames)
               /\ broken \in BOOLEAN

\* A frame is in one place of the queue or waits to be put there again, having been cut
\* short; either way some of it is left to send.
InOnePlace ==
  /\ \A a, b \in DOMAIN sending : sending[a] = sending[b] => a = b
  /\ \A a \in DOMAIN sending : sending[a] \notin resuming /\ left[sending[a]] > 0
  /\ \A i \in resuming : 0 < left[i] /\ left[i] < Parts
  /\ \A i \in Frames : <<i, TRUE>> \in ended => left[i] = 0

\* A frame of which nothing is sent yet comes after all that were started before it: in
\* the queue they are ahead of it, and what has begun to be sent was started before.
InTurn ==
  /\ \A a, b \in DOMAIN sending :
       a < b /\ left[sending[b]] = Parts => sending[a] < sending[b]
  /\ \A a \in DOMAIN sending, j \in Frames :
       left[sending[a]] = Parts /\ left[j] < Parts => j < sending[a]

\* So frames begin on the wire in the order they were started.
BeginInTurn ==
  /\ \A i \in Frames : left[i] < Parts <=> \E p \in DOMAIN wire : wire[p] = i
  /\ \A p, q \in DOMAIN wire :
       p < q /\ wire[q] < wire[p] => \E r \in 1 .. (p - 1) : wire[r] = wire[q]

SocketInv == SocketTypes /\ InOnePlace /\ InTurn /\ BeginInTurn

KindOf(i) == started[i].kind

\* One answer and one close, and which of the read loop's frames there can be at each
\* stage; the answer is whole before any of the others starts.
LoopFrames ==
  /\ \A i, j \in Frames : KindOf(i) = KindOf(j) /\ KindOf(i) \in {"reply", "close"} => i = j
  /\ stage = "handshake" => \A i \in Frames : KindOf(i) # "reply"
  /\ stage \in {"handshake", "reply"} => \A i \in Frames : KindOf(i) # "pong"
  /\ stage \in {"handshake", "reply", "open"} => \A i \in Frames : KindOf(i) # "close"
  /\ \A i, j \in Frames : KindOf(i) = "pong" /\ KindOf(j) = "close" => i < j
  /\ \A i \in Frames : KindOf(i) = "reply" =>
       /\ stage = "open" => left[i] = 0
       /\ (\E j \in Frames : KindOf(j) \in {"pong", "close"}) => left[i] = 0

ReplyFirst ==
  \A p, q \in DOMAIN wire :
    KindOf(wire[p]) = "reply" /\ KindOf(wire[q]) \in {"pong", "close"} => p < q

\* Control frames have buffers of their own; what is read goes into one that no frame in
\* flight has.
Buffers ==
  /\ \A i \in Frames : KindOf(i) \in {"reply", "data"} => started[i].buffer = 0
  /\ filling => /\ stage = "open" /\ control # 0
                /\ \A a \in DOMAIN sending : started[sending[a]].buffer # control
                /\ \A i \in resuming : started[i].buffer # control
  /\ control \in 0 .. (MaxWrites + 2) /\ filling \in BOOLEAN

\* The frames that count as writes, of which there are not too many.
Counted == {i \in Frames : started[i].kind \in {"pong", "data"}}
Bounded == broadcasts \in Nat /\ Writes <= MaxWrites

OutgoingInv == /\ SocketInv /\ LoopFrames /\ ReplyFirst /\ Buffers /\ Bounded
               /\ stage \in Stages /\ registered \in BOOLEAN
-----------------------------------------------------------------------------
\* What is left of a queue without its head.
LEMMA TailIs ==
  ASSUME NEW S, NEW s \in Seq(S), s # << >>
  PROVE  /\ Head(s) = s[1] /\ 1 \in DOMAIN s /\ s[1] \in S
         /\ Tail(s) \in Seq(S) /\ DOMAIN Tail(s) = 1 .. (Len(s) - 1)
         /\ \A a \in DOMAIN Tail(s) : a + 1 \in DOMAIN s /\ Tail(s)[a] = s[a + 1]
OBVIOUS

\* Frame n, of kind k from buffer b, begun and last in the socket's queue.
Begun(n, k, b) ==
  /\ n \notin Frames /\ Frames' = Frames \cup {n} /\ \A i \in Frames : i \in Nat /\ i < n
  /\ \A i \in Frames : started'[i] = started[i] /\ left'[i] = left[i]
  /\ started'[n] = [kind |-> k, buffer |-> b] /\ left'[n] = Parts
  /\ DOMAIN sending' = 1 .. (Len(sending) + 1) /\ DOMAIN sending = 1 .. Len(sending)
  /\ \A a \in DOMAIN sending : sending'[a] = sending[a] /\ sending[a] \in Frames
  /\ sending'[Len(sending) + 1] = n /\ Len(sending) \in Nat
  /\ started' \in Seq([kind : Kinds, buffer : 0 .. (MaxWrites + 2)])
  /\ left' \in Seq(0 .. Parts) /\ Len(left') = Len(started')
  /\ sending' \in Seq(Frames')

\* The frame that is started, by its number n, is the last and whole.
LEMMA StartIs ==
  ASSUME SocketTypes, NEW k \in Kinds, NEW b \in 0 .. (MaxWrites + 2), Start(k, b)
  PROVE  \E n \in Nat : Begun(n, k, b)
<1> DEFINE n == Len(started) + 1
<1>0. Parts \in Nat \ {0} /\ MaxWrites \in Nat
  BY OutgoingAssumption
<1>1. /\ started \in Seq([kind : Kinds, buffer : 0 .. (MaxWrites + 2)])
      /\ left \in Seq(0 .. Parts) /\ Len(left) = Len(started) /\ sending \in Seq(Frames)
  BY DEF SocketTypes
<1>2. /\ started' = Append(started, [kind |-> k, buffer |-> b]) /\ left' = Append(left, Parts)
      /\ sending' = Append(sending, Len(started'))
  BY DEF Start
<1>3. [kind |-> k, buffer |-> b] \in [kind : Kinds, buffer : 0 .. (MaxWrites + 2)]
  OBVIOUS
<1>4. /\ started' \in Seq([kind : Kinds, buffer : 0 .. (MaxWrites + 2)])
      /\ Len(started') = n /\ started'[n] = [kind |-> k, buffer |-> b]
      /\ \A i \in DOMAIN started : started'[i] = started[i]
      /\ DOMAIN started = 1 .. Len(started) /\ DOMAIN started' = 1 .. n /\ n \in Nat
  <2> DEFINE e == [kind |-> k, buffer |-> b]
             E == [kind : Kinds, buffer : 0 .. (MaxWrites + 2)]
  <2> HIDE DEF e, E
  <2> QED  BY <1>1, <1>2, <1>3 DEF e, E
<1>5. /\ left' \in Seq(0 .. Parts) /\ Len(left') = n /\ left'[n] = Parts
      /\ \A i \in DOMAIN started : left'[i] = left[i]
  BY <1>0, <1>1, <1>2
<1>6. /\ Frames' = Frames \cup {n} /\ n \notin Frames /\ n \in Nat
      /\ \A i \in Frames : i \in Nat /\ i < n
  BY <1>4 DEF Frames
<1>7. sending \in Seq(Frames') /\ sending' = Append(sending, n)
  BY <1>1, <1>2, <1>4, <1>6
<1> HIDE DEF n
<1>8. /\ DOMAIN sending' = 1 .. (Len(sending) + 1) /\ DOMAIN sending = 1 .. Len(sending)
      /\ \A a \in DOMAIN sending : sending'[a] = sending[a] /\ sending[a] \in Frames
      /\ sending'[Len(sending) + 1] = n /\ Len(sending) \in Nat /\ sending' \in Seq(Frames')
  BY <1>1, <1>6, <1>7
<1>9. Begun(n, k, b)
  BY <1>4, <1>5, <1>6, <1>8 DEF Begun, Frames
<1> QED  BY ONLY <1>6, <1>9, Zenon

\* Frame i, at the head of the queue, and n parts of it that go out.
Sent(i, n) ==
  /\ sending # << >> /\ 1 \in DOMAIN sending /\ i = sending[1]
  /\ left[i] \in 1 .. Parts /\ n <= left[i]
  /\ left' \in Seq(0 .. Parts) /\ Len(left') = Len(left)
  /\ left'[i] = left[i] - n /\ \A j \in Frames : j # i => left'[j] = left[j]
  /\ wire' \in Seq(Frames) /\ Len(wire) \in Nat /\ Len(wire') = Len(wire) + n
  /\ \A p \in 1 .. Len(wire) : wire'[p] = wire[p] /\ wire[p] \in Frames
  /\ \A p \in (Len(wire) + 1) .. (Len(wire) + n) : wire'[p] = i
  /\ sending' \in Seq(Frames) /\ DOMAIN sending' = 1 .. (Len(sending) - 1)
  /\ \A a \in DOMAIN sending' : a + 1 \in DOMAIN sending /\ sending'[a] = sending[a + 1]
  /\ \/ /\ n < left[i] /\ resuming' = resuming \cup {i} /\ ended' = ended
     \/ /\ n = left[i] /\ resuming' = resuming /\ ended' = ended \cup {<<i, TRUE>>}

\* What is left of a frame, a number of parts.
LEMMA LeftIs ==
  ASSUME SocketTypes
  PROVE  \A i \in Frames : left[i] \in Nat /\ left[i] <= Parts
<1> SUFFICES ASSUME NEW i \in Frames PROVE left[i] \in Nat /\ left[i] <= Parts
  OBVIOUS
<1>1. left \in Seq(0 .. Parts) /\ i \in 1 .. Len(left)
  <2>1. left \in Seq(0 .. Parts) /\ Len(left) = Len(started)
    BY DEF SocketTypes
  <2>2. i \in 1 .. Len(started)
    BY DEF Frames, SocketTypes
  <2> QED  BY ONLY <2>1, <2>2, Zenon
<1>2. left[i] \in 0 .. Parts
  <2> DEFINE S == 0 .. Parts
  <2>1. left \in Seq(S) /\ i \in 1 .. Len(left)
    BY ONLY <1>1, Zenon
  <2> HIDE DEF S
  <2>2. left[i] \in S
    BY ONLY <2>1
  <2> QED  BY <2>2 DEF S
<1>3. Parts \in Nat
  BY OutgoingAssumption
<1> DEFINE l == left[i]
<1> HIDE DEF l
<1>4. l \in 0 .. Parts
  BY <1>2 DEF l
<1>5. l \in Nat /\ l <= Parts
  BY ONLY <1>3, <1>4
<1> QED  BY ONLY <1>5 DEF l

\* An async_write that begins puts its frame at the end of the socket's queue.
LEMMA StartStep ==
  ASSUME SocketInv, NEW k \in Kinds, NEW b \in 0 .. (MaxWrites + 2), Start(k, b), ended' = ended
  PROVE  SocketInv'
<1>s. SocketTypes
  BY DEF SocketInv
<1>p. PICK n \in Nat : Begun(n, k, b)
  BY ONLY <1>s, StartIs, k \in Kinds, b \in 0 .. (MaxWrites + 2), Start(k, b), Zenon
<1>0. /\ n \in Nat
      /\ n \notin Frames /\ Frames' = Frames \cup {n} /\ \A i \in Frames : i \in Nat /\ i < n
      /\ \A i \in Frames : started'[i] = started[i] /\ left'[i] = left[i]
      /\ started'[n] = [kind |-> k, buffer |-> b] /\ left'[n] = Parts
      /\ DOMAIN sending' = 1 .. (Len(sending) + 1) /\ DOMAIN sending = 1 .. Len(sending)
      /\ \A a \in DOMAIN sending : sending'[a] = sending[a] /\ sending[a] \in Frames
      /\ sending'[Len(sending) + 1] = n /\ Len(sending) \in Nat
      /\ started' \in Seq([kind : Kinds, buffer : 0 .. (MaxWrites + 2)])
      /\ left' \in Seq(0 .. Parts) /\ Len(left') = Len(started')
      /\ sending' \in Seq(Frames')
  BY <1>p DEF Begun
<1>1. /\ SocketTypes /\ InOnePlace /\ InTurn /\ BeginInTurn
      /\ resuming \subseteq Frames /\ ended \subseteq Frames \X BOOLEAN /\ wire \in Seq(Frames)
      /\ Parts \in Nat /\ Parts > 0
  BY OutgoingAssumption DEF SocketInv, SocketTypes
<1>2. UNCHANGED <<resuming, wire, broken, ended>>
  BY DEF Start
<1>3. wire \in Seq(Frames') /\ \A p \in DOMAIN wire : wire[p] \in Frames
  <2>1. Frames \subseteq Frames' /\ wire \in Seq(Frames)
    BY ONLY <1>0, <1>1, Zenon
  <2>2. DOMAIN wire = 1 .. Len(wire) /\ \A p \in 1 .. Len(wire) : wire[p] \in Frames
    BY ONLY <2>1
  <2> QED  BY ONLY <2>1, <2>2
<1>4. SocketTypes'
  <2>1. broken' \in BOOLEAN
    BY <1>1, <1>2 DEF SocketTypes
  <2>3. resuming' \subseteq Frames' /\ ended' \subseteq Frames' \X BOOLEAN /\ wire' \in Seq(Frames')
    BY <1>0, <1>1, <1>2, <1>3
  <2> QED  BY <1>0, <2>1, <2>3 DEF SocketTypes
<1>5. \A a \in DOMAIN sending' :
        \/ a \in DOMAIN sending /\ sending'[a] = sending[a] /\ sending[a] \in Frames
        \/ a = Len(sending) + 1 /\ sending'[a] = n
  BY <1>0
<1>6. \A i \in Frames' :
        \/ i \in Frames /\ left'[i] = left[i] /\ left[i] \in Nat /\ i \in Nat /\ i < n
        \/ i = n /\ i \notin Frames /\ left'[i] = Parts
  <2>1. \A i \in Frames : left[i] \in Nat
    BY ONLY <1>s, LeftIs, Zenon
  <2>2. Frames' = Frames \cup {n} /\ n \notin Frames /\ left'[n] = Parts
    BY ONLY <1>0, Zenon
  <2>3. \A i \in Frames : i \in Nat /\ i < n /\ left'[i] = left[i]
    BY ONLY <1>0, Zenon
  <2> QED  BY ONLY <2>1, <2>2, <2>3
<1>13. \A a \in DOMAIN sending : sending'[a] = sending[a] /\ sending[a] \in Frames
  BY <1>0
<1>14. \A i \in Frames : left'[i] = left[i]
  BY <1>0
<1>11. \A a \in DOMAIN sending : a \in Nat /\ a < Len(sending) + 1 /\ Len(sending) + 1 \in Nat
  BY <1>0
<1>12. Frames \subseteq Frames' /\ n \in Frames' /\ n \in Nat
  BY <1>0
<1>7. InOnePlace'
  <2>1. \A a, c \in DOMAIN sending' : sending'[a] = sending'[c] => a = c
    <3>1. \A a, c \in DOMAIN sending : sending[a] = sending[c] => a = c
      BY <1>1 DEF InOnePlace
    <3>2. n \notin Frames
      BY <1>0
    <3> QED  BY ONLY <1>5, <3>1, <3>2
  <2>2. \A a \in DOMAIN sending' : sending'[a] \notin resuming' /\ left'[sending'[a]] > 0
    BY <1>0, <1>1, <1>2, <1>5 DEF InOnePlace
  <2>3. \A i \in resuming' : 0 < left'[i] /\ left'[i] < Parts
    BY <1>0, <1>1, <1>2 DEF InOnePlace
  <2>4. \A i \in Frames' : <<i, TRUE>> \in ended' => left'[i] = 0
    BY <1>0, <1>1, <1>2 DEF InOnePlace
  <2> QED  BY <2>1, <2>2, <2>3, <2>4 DEF InOnePlace
<1>8. InTurn'
  <2>1. \A a, c \in DOMAIN sending' :
          a < c /\ left'[sending'[c]] = Parts => sending'[a] < sending'[c]
    <3>1. \A a, c \in DOMAIN sending : a < c /\ left[sending[c]] = Parts => sending[a] < sending[c]
      BY <1>1 DEF InTurn
    <3> SUFFICES ASSUME NEW a \in DOMAIN sending', NEW c \in DOMAIN sending', a < c,
                        left'[sending'[c]] = Parts
                 PROVE  sending'[a] < sending'[c]
      OBVIOUS
    <3>2. a \in DOMAIN sending /\ sending'[a] = sending[a] /\ sending[a] \in Frames
      BY ONLY <1>5, <1>11, a \in DOMAIN sending', c \in DOMAIN sending', a < c
    <3>3. CASE c \in DOMAIN sending
      <4>1. sending'[c] = sending[c] /\ left'[sending[c]] = left[sending[c]]
        BY ONLY <1>13, <1>14, <3>3
      <4> QED  BY <3>1, <3>2, <3>3, <4>1
    <3>4. CASE c \notin DOMAIN sending
      BY <1>5, <1>6, <1>12, <3>2, <3>4
    <3> QED  BY <3>3, <3>4
  <2>2. \A a \in DOMAIN sending', j \in Frames' :
          left'[sending'[a]] = Parts /\ left'[j] < Parts => j < sending'[a]
    <3>1. \A a \in DOMAIN sending, j \in Frames :
            left[sending[a]] = Parts /\ left[j] < Parts => j < sending[a]
      BY <1>1 DEF InTurn
    <3>2. ~(Parts < Parts)
      BY <1>1
    <3> QED  BY ONLY <1>5, <1>6, <1>12, <3>1, <3>2
  <2> QED  BY <2>1, <2>2 DEF InTurn
<1>9. BeginInTurn'
  <2>1. \A i \in Frames' : left'[i] < Parts <=> \E p \in DOMAIN wire : wire[p] = i
    <3>1. \A i \in Frames : left[i] < Parts <=> \E p \in DOMAIN wire : wire[p] = i
      BY <1>1 DEF BeginInTurn
    <3>2. ~(Parts < Parts)
      BY <1>1
    <3> QED  BY ONLY <1>3, <1>6, <3>1, <3>2
  <2> QED  BY <1>1, <1>2, <2>1 DEF BeginInTurn
<1> QED  BY <1>4, <1>7, <1>8, <1>9 DEF SocketInv
-----------------------------------------------------------------------------
\* n parts of frame i, the head of the queue, are on the wire.
LEMMA TransferIs ==
  ASSUME SocketInv, NEW n \in 1 .. Parts, Transfer(n)
  PROVE  \E i \in Frames : Sent(i, n)
<1> DEFINE i == Head(sending)
<1>1. /\ sending \in Seq(Frames) /\ left \in Seq(0 .. Parts) /\ wire \in Seq(Frames)
      /\ DOMAIN left = Frames /\ Parts \in Nat /\ sending # << >>
  <2>1. DOMAIN left = 1 .. Len(left) /\ DOMAIN started = 1 .. Len(started)
    BY DEF SocketInv, SocketTypes
  <2> QED  BY <2>1, OutgoingAssumption DEF SocketInv, SocketTypes, Transfer, Frames
<1>2. /\ i = sending[1] /\ 1 \in DOMAIN sending /\ i \in Frames
      /\ Tail(sending) \in Seq(Frames) /\ DOMAIN Tail(sending) = 1 .. (Len(sending) - 1)
      /\ \A a \in DOMAIN Tail(sending) :
           a + 1 \in DOMAIN sending /\ Tail(sending)[a] = sending[a + 1]
  BY <1>1, TailIs
<1>3. /\ n <= left[i] /\ left' = [left EXCEPT ![i] = @ - n]
      /\ wire' = wire \o [p \in 1 .. n |-> i] /\ sending' = Tail(sending)
      /\ \/ /\ n < left[i] /\ resuming' = resuming \cup {i} /\ ended' = ended
         \/ /\ n = left[i] /\ resuming' = resuming /\ ended' = ended \cup {<<i, TRUE>>}
  BY DEF Transfer
<1> HIDE DEF i
<1>4. left[i] \in 1 .. Parts
  BY <1>1, <1>2, <1>3
<1>5. /\ left' \in Seq(0 .. Parts) /\ Len(left') = Len(left)
      /\ left'[i] = left[i] - n /\ \A j \in Frames : j # i => left'[j] = left[j]
  <2>1. left[i] - n \in 0 .. Parts
    <3> DEFINE l == left[i]
    <3>1. l \in 1 .. Parts /\ n <= l /\ n \in 1 .. Parts /\ Parts \in Nat
      BY <1>1, <1>3, <1>4
    <3> HIDE DEF l
    <3>2. l - n \in 0 .. Parts
      BY ONLY <3>1
    <3> QED  BY ONLY <3>2 DEF l
  <2>2. left' = [left EXCEPT ![i] = left[i] - n]
    BY <1>3
  <2> QED  BY <1>1, <1>2, <2>1, <2>2
<1>6. /\ wire' \in Seq(Frames) /\ Len(wire) \in Nat /\ Len(wire') = Len(wire) + n
      /\ \A p \in 1 .. Len(wire) : wire'[p] = wire[p] /\ wire[p] \in Frames
      /\ \A p \in (Len(wire) + 1) .. (Len(wire) + n) : wire'[p] = i
  <2> DEFINE c == [p \in 1 .. n |-> i]
  <2>1. n \in Nat /\ c \in Seq(Frames) /\ Len(c) = n /\ \A p \in 1 .. n : c[p] = i
    BY <1>1, <1>2
  <2>2. wire' = wire \o c
    BY <1>3
  <2> HIDE DEF c
  <2>3. /\ wire' \in Seq(Frames) /\ Len(wire) \in Nat /\ Len(wire') = Len(wire) + n
        /\ \A p \in 1 .. Len(wire) : wire'[p] = wire[p] /\ wire[p] \in Frames
    <3> HIDE DEF Frames
    <3>1. wire \in Seq(Frames) /\ \A p \in 1 .. Len(wire) : wire[p] \in Frames
      BY <1>1
    <3>2. /\ wire \o c \in Seq(Frames) /\ Len(wire) \in Nat /\ Len(wire \o c) = Len(wire) + n
      BY <2>1, <3>1
    <3>3. \A p \in 1 .. Len(wire) : (wire \o c)[p] = wire[p]
      BY <2>1, <3>1
    <3> QED  BY <2>2, <3>1, <3>2, <3>3
  <2>4. ASSUME NEW p \in (Len(wire) + 1) .. (Len(wire) + n) PROVE wire'[p] = i
    <3>1. p - Len(wire) \in 1 .. n /\ p \in 1 .. (Len(wire) + Len(c)) /\ p > Len(wire)
      BY <2>1, <2>3
    <3>2. wire'[p] = c[p - Len(wire)]
      BY <1>1, <2>1, <2>2, <3>1
    <3> QED  BY <2>1, <3>1, <3>2
  <2> QED  BY <2>3, <2>4
<1>7. Sent(i, n)
  BY <1>1, <1>2, <1>3, <1>4, <1>5, <1>6 DEF Sent
<1> QED  BY ONLY <1>2, <1>7, Zenon

\* The socket takes parts of the frame whose turn it is.
LEMMA TransferStep ==
  ASSUME SocketInv, NEW n \in 1 .. Parts, Transfer(n)
  PROVE  SocketInv'
<1>p. PICK i \in Frames : Sent(i, n)
  BY ONLY SocketInv, n \in 1 .. Parts, Transfer(n), TransferIs, Zenon
<1>0. /\ i \in Frames
      /\ sending # << >> /\ 1 \in DOMAIN sending /\ i = sending[1]
      /\ left[i] \in 1 .. Parts /\ n <= left[i]
      /\ left' \in Seq(0 .. Parts) /\ Len(left') = Len(left)
      /\ left'[i] = left[i] - n /\ \A j \in Frames : j # i => left'[j] = left[j]
      /\ wire' \in Seq(Frames) /\ Len(wire) \in Nat /\ Len(wire') = Len(wire) + n
      /\ \A p \in 1 .. Len(wire) : wire'[p] = wire[p] /\ wire[p] \in Frames
      /\ \A p \in (Len(wire) + 1) .. (Len(wire) + n) : wire'[p] = i
      /\ sending' \in Seq(Frames) /\ DOMAIN sending' = 1 .. (Len(sending) - 1)
      /\ \A a \in DOMAIN sending' : a + 1 \in DOMAIN sending /\ sending'[a] = sending[a + 1]
      /\ \/ /\ n < left[i] /\ resuming' = resuming \cup {i} /\ ended' = ended
         \/ /\ n = left[i] /\ resuming' = resuming /\ ended' = ended \cup {<<i, TRUE>>}
  BY <1>p DEF Sent
<1>a. i = sending[1] /\ 1 \in DOMAIN sending /\ n <= left[i]
  BY <1>0
<1>b. /\ DOMAIN sending' = 1 .. (Len(sending) - 1)
      /\ \A a \in DOMAIN sending' : a + 1 \in DOMAIN sending /\ sending'[a] = sending[a + 1]
  BY <1>0
<1>c. /\ wire' \in Seq(Frames) /\ Len(wire) \in Nat /\ Len(wire') = Len(wire) + n
      /\ \A p \in 1 .. Len(wire) : wire'[p] = wire[p] /\ wire[p] \in Frames
      /\ \A p \in (Len(wire) + 1) .. (Len(wire) + n) : wire'[p] = i
  BY <1>0
<1>d. \/ n < left[i] /\ resuming' = resuming \cup {i} /\ ended' = ended
      \/ n = left[i] /\ resuming' = resuming /\ ended' = ended \cup {<<i, TRUE>>}
  BY <1>0
<1>1. /\ SocketTypes /\ InOnePlace /\ InTurn /\ BeginInTurn
      /\ resuming \subseteq Frames /\ ended \subseteq Frames \X BOOLEAN
      /\ Parts \in Nat /\ Parts > 0
  BY OutgoingAssumption DEF SocketInv, SocketTypes
<1>2. /\ started' = started /\ Frames' = Frames /\ broken' = broken
  BY DEF Transfer, Frames
<1>3. /\ sending \in Seq(Frames) /\ DOMAIN sending = 1 .. Len(sending) /\ Len(sending) \in Nat
      /\ wire \in Seq(Frames) /\ DOMAIN wire = 1 .. Len(wire)
      /\ \A j \in Frames : j \in Nat /\ left[j] \in Nat /\ left[j] <= Parts
      /\ \A a \in DOMAIN sending : sending[a] \in Frames
  <2>1. \A j \in Frames : j \in Nat /\ left[j] \in Nat /\ left[j] <= Parts
    BY <1>1 DEF SocketTypes, Frames
  <2> QED  BY <1>1, <2>1 DEF SocketTypes
<1>4. n \in Nat /\ n > 0 /\ left[i] - n < Parts /\ left[i] - n < left[i] /\ left[i] <= Parts
  BY <1>0, <1>1
<1>5. \A a \in DOMAIN sending' :
        /\ a \in Nat /\ a + 1 \in DOMAIN sending /\ a + 1 # 1
        /\ sending'[a] = sending[a + 1] /\ sending[a + 1] \in Frames
  BY ONLY <1>b, <1>3
<1>6. \A a, c \in DOMAIN sending : sending[a] = sending[c] => a = c
  BY <1>1 DEF InOnePlace
<1>7. \A a \in DOMAIN sending' : sending'[a] # i /\ sending'[a] \in Frames
  BY <1>0, <1>5, <1>6
<1>8. i \notin resuming /\ \A a \in DOMAIN sending : sending[a] \notin resuming /\ left[sending[a]] > 0
  BY <1>0, <1>1 DEF InOnePlace
<1>9. left'[i] = left[i] - n /\ \A j \in Frames : j # i => left'[j] = left[j]
  BY <1>0
<1>10. DOMAIN wire' = 1 .. (Len(wire) + n)
  BY <1>c
<1>11. \A p \in DOMAIN wire' :
         \/ p \in DOMAIN wire /\ wire'[p] = wire[p] /\ wire[p] \in Frames
         \/ p \notin DOMAIN wire /\ p > Len(wire) /\ wire'[p] = i
  <2> SUFFICES ASSUME NEW p \in DOMAIN wire'
               PROVE  \/ p \in DOMAIN wire /\ wire'[p] = wire[p] /\ wire[p] \in Frames
                      \/ p \notin DOMAIN wire /\ p > Len(wire) /\ wire'[p] = i
    OBVIOUS
  <2> DEFINE k == Len(wire)
  <2>1. k \in Nat /\ p \in 1 .. (k + n) /\ DOMAIN wire = 1 .. k
    BY <1>3, <1>10
  <2> HIDE DEF k
  <2>2. \/ p \in 1 .. k
        \/ p \notin 1 .. k /\ p > k /\ p \in (k + 1) .. (k + n)
    BY ONLY <1>4, <2>1
  <2>3. CASE p \in 1 .. k
    <3>1. wire'[p] = wire[p] /\ wire[p] \in Frames
      BY ONLY <1>c, <2>3 DEF k
    <3> QED  BY ONLY <2>1, <2>3, <3>1
  <2>4. CASE p \notin 1 .. k /\ p > k /\ p \in (k + 1) .. (k + n)
    <3>1. wire'[p] = i
      BY ONLY <1>c, <2>4 DEF k
    <3>2. p > Len(wire)
      BY ONLY <2>4 DEF k
    <3> QED  BY ONLY <2>1, <2>4, <3>1, <3>2
  <2> QED  BY ONLY <2>2, <2>3, <2>4
<1>12. Len(wire) + 1 \in DOMAIN wire' /\ wire'[Len(wire) + 1] = i
  BY ONLY <1>4, <1>10, <1>c
<1>13. \A p \in DOMAIN wire : p \in DOMAIN wire' /\ wire'[p] = wire[p]
  BY ONLY <1>3, <1>4, <1>10, <1>c
<1>20. SocketTypes'
  <2>1. resuming' \subseteq Frames
    BY <1>1, <1>d
  <2>5. ended' \subseteq Frames \X BOOLEAN
    <3>1. <<i, TRUE>> \in Frames \X BOOLEAN
      OBVIOUS
    <3> QED  BY ONLY <1>1, <1>d, <3>1
  <2>3. started' \in Seq([kind : Kinds, buffer : 0 .. (MaxWrites + 2)]) /\ broken' \in BOOLEAN
    BY <1>1, <1>2 DEF SocketTypes
  <2>4. Len(left') = Len(started')
    BY <1>0, <1>1, <1>2 DEF SocketTypes
  <2> QED  BY <1>0, <1>2, <2>1, <2>3, <2>4, <2>5 DEF SocketTypes
<1>21. InOnePlace'
  <2>1. \A a, c \in DOMAIN sending' : sending'[a] = sending'[c] => a = c
    BY <1>5, <1>6
  <2>2. \A a \in DOMAIN sending' : sending'[a] \notin resuming' /\ left'[sending'[a]] > 0
    <3>1. \A a \in DOMAIN sending' : sending'[a] \notin resuming /\ left[sending'[a]] > 0
      BY ONLY <1>5, <1>8
    <3> QED  BY ONLY <1>7, <1>9, <1>d, <3>1
  <2>3. \A j \in resuming' : 0 < left'[j] /\ left'[j] < Parts
    <3>1. \A j \in resuming : j \in Frames /\ j # i /\ 0 < left[j] /\ left[j] < Parts
      BY <1>1, <1>8 DEF InOnePlace
    <3>2. \A j \in resuming : 0 < left'[j] /\ left'[j] < Parts
      BY <1>9, <3>1
    <3>3. n < left[i] => 0 < left'[i] /\ left'[i] < Parts
      BY <1>0, <1>4
    <3> QED  BY <1>0, <3>2, <3>3
  <2>4. \A j \in Frames' : <<j, TRUE>> \in ended' => left'[j] = 0
    <3>1. \A j \in Frames : <<j, TRUE>> \in ended => left[j] = 0
      BY <1>1 DEF InOnePlace
    <3>2. <<i, TRUE>> \notin ended
      <4>1. left[i] # 0
        BY <1>3, <1>4, <1>a
      <4> QED  BY <3>1, <4>1
    <3>3. n = left[i] => left'[i] = 0
      BY <1>0
    <3>4. \A j \in Frames : <<j, TRUE>> \in ended' => <<j, TRUE>> \in ended \/ (j = i /\ n = left[i])
      <4>1. CASE ended' = ended
        BY <4>1
      <4>2. CASE n = left[i] /\ ended' = ended \cup {<<i, TRUE>>}
        BY <4>2
      <4> QED  BY ONLY <1>d, <4>1, <4>2
    <3> QED  BY <1>2, <1>9, <3>1, <3>2, <3>3, <3>4
  <2> QED  BY <2>1, <2>2, <2>3, <2>4 DEF InOnePlace
<1>22. InTurn'
  <2>1. \A a, c \in DOMAIN sending' :
          a < c /\ left'[sending'[c]] = Parts => sending'[a] < sending'[c]
    <3>1. \A a, c \in DOMAIN sending : a < c /\ left[sending[c]] = Parts => sending[a] < sending[c]
      BY <1>1 DEF InTurn
    <3>2. \A a, c \in DOMAIN sending' : a < c => a + 1 < c + 1
      BY <1>5
    <3>3. \A c \in DOMAIN sending' : left'[sending'[c]] = left[sending[c + 1]]
      BY <1>5, <1>7, <1>9
    <3> QED  BY <1>5, <3>1, <3>2, <3>3
  <2>2. \A a \in DOMAIN sending', j \in Frames' :
          left'[sending'[a]] = Parts /\ left'[j] < Parts => j < sending'[a]
    <3> SUFFICES ASSUME NEW a \in DOMAIN sending', NEW j \in Frames,
                        left'[sending'[a]] = Parts, left'[j] < Parts
                 PROVE  j < sending'[a]
      BY <1>2
    <3>1. left[sending[a + 1]] = Parts /\ a + 1 \in DOMAIN sending /\ sending'[a] = sending[a + 1]
      BY <1>5, <1>7, <1>9
    <3>2. CASE j = i
      <4>1. 1 < a + 1
        BY <1>5
      <4> QED  BY <1>0, <1>1, <3>1, <3>2, <4>1 DEF InTurn
    <3>3. CASE j # i
      <4>1. left[j] < Parts
        BY <1>9, <3>3
      <4> QED  BY <1>1, <3>1, <4>1 DEF InTurn
    <3> QED  BY <3>2, <3>3
  <2> QED  BY <2>1, <2>2 DEF InTurn
<1>23. BeginInTurn'
  <2>0. /\ \A j \in Frames : left[j] < Parts <=> \E p \in DOMAIN wire : wire[p] = j
        /\ \A p, q \in DOMAIN wire :
             p < q /\ wire[q] < wire[p] => \E r \in 1 .. (p - 1) : wire[r] = wire[q]
    BY <1>1 DEF BeginInTurn
  <2>1. \A j \in Frames' : left'[j] < Parts <=> \E p \in DOMAIN wire' : wire'[p] = j
    <3> SUFFICES ASSUME NEW j \in Frames
                 PROVE  left'[j] < Parts <=> \E p \in DOMAIN wire' : wire'[p] = j
      BY <1>2
    <3>1. CASE j = i
      BY <1>4, <1>9, <1>12, <3>1
    <3>2. CASE j # i
      <4>1. left'[j] = left[j]
        BY <1>9, <3>2
      <4>2. (\E p \in DOMAIN wire' : wire'[p] = j) <=> \E p \in DOMAIN wire : wire[p] = j
        BY <1>11, <1>12, <1>13, <3>2
      <4> QED  BY <2>0, <4>1, <4>2
    <3> QED  BY <3>1, <3>2
  <2>2. ASSUME NEW p \in DOMAIN wire', NEW q \in DOMAIN wire', p < q, wire'[q] < wire'[p]
        PROVE  \E r \in 1 .. (p - 1) : wire'[r] = wire'[q]
    <3>1. p \in DOMAIN wire /\ wire'[p] = wire[p] /\ wire[p] \in Frames
      <4>1. CASE p \in DOMAIN wire
        BY <1>11, <4>1
      <4>2. CASE p \notin DOMAIN wire
        <5>1. wire'[p] = i /\ q \notin DOMAIN wire
          BY <1>3, <1>10, <1>11, <2>2, <4>2
        <5>2. wire'[q] = i
          BY <1>11, <5>1
        <5> QED  BY <1>3, <2>2, <5>1, <5>2
      <4> QED  BY <4>1, <4>2
    <3>2. SUFFICES \E r \in 1 .. (p - 1) : wire[r] = wire'[q]
      <4>1. \A r \in 1 .. (p - 1) : r \in DOMAIN wire
        BY <1>3, <3>1
      <4> QED  BY <1>12, <1>13, <3>2, <4>1
    <3>3. CASE q \in DOMAIN wire
      BY <1>13, <2>0, <2>2, <3>1, <3>3
    <3>4. CASE q \notin DOMAIN wire
      <4>1. wire'[q] = i /\ i < wire[p]
        BY <1>11, <2>2, <3>1, <3>4
      <4>2. left[wire[p]] < Parts
        BY <2>0, <3>1
      <4>3. left[i] # Parts
        <5> SUFFICES ASSUME left[i] = Parts PROVE FALSE
          OBVIOUS
        <5>1. wire[p] < i
          BY <1>1, <1>a, <3>1, <4>2 DEF InTurn
        <5> QED  BY <1>3, <3>1, <4>1, <5>1
      <4>4. PICK r \in DOMAIN wire : wire[r] = i
        <5>1. left[i] < Parts
          BY <1>3, <1>1, <4>3
        <5> QED  BY <2>0, <5>1
      <4>5. CASE r < p
        BY <1>3, <3>1, <4>1, <4>4, <4>5
      <4>6. CASE p < r
        BY <2>0, <3>1, <4>1, <4>4, <4>6
      <4>7. r # p
        BY <1>3, <4>1, <4>4
      <4> QED  BY <1>3, <3>1, <4>5, <4>6, <4>7
    <3> QED  BY <3>3, <3>4
  <2> QED  BY <2>1, <2>2 DEF BeginInTurn
<1> QED  BY <1>20, <1>21, <1>22, <1>23 DEF SocketInv
-----------------------------------------------------------------------------
\* The queue loses its head, or all of it, or nothing, and no write becomes a whole one.
LEMMA QueueShrinks ==
  ASSUME SocketInv, NEW d \in Nat, UNCHANGED <<started, left, resuming, wire>>,
         broken' \in BOOLEAN, sending' \in Seq(Frames), ended' \subseteq Frames \X BOOLEAN,
         \A a \in DOMAIN sending' : a + d \in DOMAIN sending /\ sending'[a] = sending[a + d],
         \A j \in Frames : <<j, TRUE>> \in ended' => <<j, TRUE>> \in ended
  PROVE  SocketInv'
<1>1. Frames' = Frames
  BY DEF Frames
<1>2. SocketTypes /\ InOnePlace /\ InTurn /\ BeginInTurn
  BY DEF SocketInv
<1>3. SocketTypes'
  BY <1>1, <1>2 DEF SocketTypes
<1>4. \A a \in DOMAIN sending' : a \in Nat
  <2>1. DOMAIN sending' = 1 .. Len(sending') /\ Len(sending') \in Nat
    OBVIOUS
  <2> QED  BY <2>1
<1>5. \A a, c \in DOMAIN sending' : (a + d = c + d => a = c) /\ (a < c => a + d < c + d)
  BY <1>4
<1>6. InOnePlace'
  <2>1. \A a, c \in DOMAIN sending' : sending'[a] = sending'[c] => a = c
    BY <1>2, <1>5 DEF InOnePlace
  <2>2. \A a \in DOMAIN sending' : sending'[a] \notin resuming' /\ left'[sending'[a]] > 0
    BY <1>2 DEF InOnePlace
  <2>3. /\ \A i \in resuming' : 0 < left'[i] /\ left'[i] < Parts
        /\ \A i \in Frames' : <<i, TRUE>> \in ended' => left'[i] = 0
    BY <1>1, <1>2 DEF InOnePlace
  <2> QED  BY <2>1, <2>2, <2>3 DEF InOnePlace
<1>7. InTurn'
  <2>1. \A a, c \in DOMAIN sending' :
          a < c /\ left'[sending'[c]] = Parts => sending'[a] < sending'[c]
    BY <1>2, <1>5 DEF InTurn
  <2>2. \A a \in DOMAIN sending', j \in Frames' :
          left'[sending'[a]] = Parts /\ left'[j] < Parts => j < sending'[a]
    BY <1>1, <1>2 DEF InTurn
  <2> QED  BY <2>1, <2>2 DEF InTurn
<1>8. BeginInTurn'
  BY <1>1, <1>2 DEF BeginInTurn
<1> QED  BY <1>3, <1>6, <1>7, <1>8 DEF SocketInv

\* A frame cut short queues again, its rest to be written.
LEMMA ResumeStep ==
  ASSUME SocketInv, NEW i \in Frames, Resume(i)
  PROVE  SocketInv'
<1>1. /\ SocketTypes /\ InOnePlace /\ InTurn /\ BeginInTurn
      /\ sending \in Seq(Frames)
  BY DEF SocketInv, SocketTypes
<1>2. /\ i \in resuming /\ resuming' = resuming \ {i} /\ sending' = Append(sending, i)
      /\ UNCHANGED <<left, wire, broken, started, ended>>
  BY DEF Resume
<1>3. Frames' = Frames
  BY <1>2 DEF Frames
<1>4. /\ sending' \in Seq(Frames) /\ Len(sending) \in Nat
      /\ DOMAIN sending = 1 .. Len(sending) /\ DOMAIN sending' = 1 .. (Len(sending) + 1)
      /\ \A a \in DOMAIN sending : sending'[a] = sending[a]
      /\ sending'[Len(sending) + 1] = i
  BY <1>1, <1>2
<1>5. \A a \in DOMAIN sending' :
        \/ a \in DOMAIN sending /\ sending'[a] = sending[a]
        \/ a = Len(sending) + 1 /\ sending'[a] = i
  BY ONLY <1>4
<1>6. \A a \in DOMAIN sending : a \in Nat /\ a < Len(sending) + 1 /\ Len(sending) + 1 \in Nat
  BY ONLY <1>4
<1>7. 0 < left[i] /\ left[i] < Parts /\ left[i] # Parts
  <2>1. 0 < left[i] /\ left[i] < Parts /\ left[i] \in Nat /\ Parts \in Nat
    BY <1>1, <1>2, OutgoingAssumption DEF InOnePlace, SocketTypes, Frames
  <2> QED  BY <2>1
<1>8. \A a \in DOMAIN sending : sending[a] \notin resuming /\ sending[a] # i /\ left[sending[a]] > 0
  BY <1>1, <1>2 DEF InOnePlace
<1>9. SocketTypes'
  BY <1>1, <1>2, <1>3, <1>4 DEF SocketTypes
<1>10. InOnePlace'
  <2>1. \A a, c \in DOMAIN sending' : sending'[a] = sending'[c] => a = c
    <3>1. \A a, c \in DOMAIN sending : sending[a] = sending[c] => a = c
      BY <1>1 DEF InOnePlace
    <3> QED  BY ONLY <1>5, <1>8, <3>1
  <2>2. \A a \in DOMAIN sending' : sending'[a] \notin resuming' /\ left'[sending'[a]] > 0
    BY <1>2, <1>5, <1>7, <1>8
  <2>3. /\ \A j \in resuming' : 0 < left'[j] /\ left'[j] < Parts
        /\ \A j \in Frames' : <<j, TRUE>> \in ended' => left'[j] = 0
    BY <1>1, <1>2, <1>3 DEF InOnePlace
  <2> QED  BY <2>1, <2>2, <2>3 DEF InOnePlace
<1>11. InTurn'
  <2>1. ASSUME NEW a \in DOMAIN sending', NEW c \in DOMAIN sending', a < c,
               left[sending'[c]] = Parts
        PROVE  sending'[a] < sending'[c]
    <3>1. c \in DOMAIN sending /\ sending'[c] = sending[c]
      BY <1>5, <1>7, <2>1
    <3>2. a \in DOMAIN sending /\ sending'[a] = sending[a]
      BY <1>5, <1>6, <2>1, <3>1
    <3> QED  BY <1>1, <2>1, <3>1, <3>2 DEF InTurn
  <2>2. \A a \in DOMAIN sending', j \in Frames :
          left[sending'[a]] = Parts /\ left[j] < Parts => j < sending'[a]
    BY <1>1, <1>5, <1>7 DEF InTurn
  <2> QED  BY <1>2, <1>3, <2>1, <2>2 DEF InTurn
<1>12. BeginInTurn'
  BY <1>1, <1>2, <1>3 DEF BeginInTurn
<1> QED  BY <1>9, <1>10, <1>11, <1>12 DEF SocketInv

\* What the steps of the socket, and those of the session, do to the queue.
LEMMA SocketStep ==
  ASSUME SocketInv, control \in 0 .. (MaxWrites + 2), [OutgoingNext]_outgoingVars
  PROVE  SocketInv'
<1>1. /\ sending \in Seq(Frames) /\ ended \subseteq Frames \X BOOLEAN /\ broken \in BOOLEAN
      /\ MaxWrites \in Nat /\ 0 \in 0 .. (MaxWrites + 2)
  BY OutgoingAssumption DEF SocketInv, SocketTypes
<1>2. ASSUME UNCHANGED <<socketVars, started>>, ended' \subseteq ended PROVE SocketInv'
  <2>1. /\ UNCHANGED <<left, sending, resuming, wire, broken, started>>
        /\ 0 \in Nat
    BY <1>2 DEF socketVars
  <2>2. \A a \in DOMAIN sending : a + 0 = a
    <3>1. DOMAIN sending = 1 .. Len(sending) /\ Len(sending) \in Nat
      BY <1>1
    <3> QED  BY <3>1
  <2>3. /\ \A a \in DOMAIN sending' : a + 0 \in DOMAIN sending /\ sending'[a] = sending[a + 0]
        /\ \A j \in Frames : <<j, TRUE>> \in ended' => <<j, TRUE>> \in ended
        /\ ended' \subseteq Frames \X BOOLEAN /\ sending' \in Seq(Frames) /\ broken' \in BOOLEAN
    BY <1>1, <1>2, <2>1, <2>2
  <2> QED  BY <2>1, <2>3, QueueShrinks
<1>3. CASE HandleFirstRequest
  <2>1. ended' = ended /\ (Start("reply", 0) \/ StartsNothing)
    BY <1>3 DEF HandleFirstRequest
  <2>2. "reply" \in Kinds
    BY DEF Kinds
  <2> QED  BY <1>1, <1>2, <2>1, <2>2, StartStep DEF StartsNothing
<1>4. CASE HandleControl
  <2>1. ended' = ended /\ (Start("pong", control) \/ StartsNothing)
    BY <1>4 DEF HandleControl
  <2>2. "pong" \in Kinds
    BY DEF Kinds
  <2> QED  BY <1>1, <1>2, <2>1, <2>2, StartStep DEF StartsNothing
<1>5. CASE HandleKill \/ CancelSocket
  <2>1. ended' = ended /\ (Start("close", control) \/ Start("close", 0))
    BY <1>5 DEF HandleKill, CancelSocket
  <2>2. "close" \in Kinds
    BY DEF Kinds
  <2> QED  BY <1>1, <2>1, <2>2, StartStep
<1>6. CASE Write
  <2>1. ended' = ended /\ Start("data", 0)
    BY <1>6 DEF Write
  <2>2. "data" \in Kinds
    BY DEF Kinds
  <2> QED  BY <1>1, <2>1, <2>2, StartStep
<1>7. CASE ReadControl \/ ReadFails \/ ReadOverruns \/ Broadcast \/ UNCHANGED outgoingVars
  <2>1. UNCHANGED <<socketVars, started>> /\ ended' = ended
    BY <1>7 DEF ReadControl, ReadFails, ReadOverruns, Broadcast, outgoingVars, StartsNothing
  <2> QED  BY <1>2, <2>1
<1>8. CASE Fail
  <2>1. /\ sending # << >> /\ sending' = Tail(sending) /\ broken' = TRUE
        /\ ended' = ended \cup {<<Head(sending), FALSE>>}
        /\ UNCHANGED <<left, wire, resuming, started>>
    BY <1>8 DEF Fail
  <2>2. /\ Head(sending) \in Frames /\ sending' \in Seq(Frames)
        /\ \A a \in DOMAIN sending' : a + 1 \in DOMAIN sending /\ sending'[a] = sending[a + 1]
    BY <1>1, <2>1, TailIs
  <2>3. ended' \subseteq Frames \X BOOLEAN
    <3>1. <<Head(sending), FALSE>> \in Frames \X BOOLEAN
      BY <2>2
    <3> QED  BY ONLY <1>1, <2>1, <3>1
  <2>4. \A j \in Frames : <<j, TRUE>> \in ended' => <<j, TRUE>> \in ended
    BY <2>1
  <2>5. broken' \in BOOLEAN /\ 1 \in Nat
    BY <2>1
  <2> QED  BY <2>1, <2>2, <2>3, <2>4, <2>5, QueueShrinks
<1>9. ASSUME NEW i \in Frames, NEW ok \in BOOLEAN, Written(i, ok) PROVE SocketInv'
  <2>1. UNCHANGED <<left, wire, resuming, broken, started>>
    BY <1>9 DEF Written
  <2>2. CASE sending' = sending /\ ended' = ended \ {<<i, ok>>}
    BY <1>2, <2>1, <2>2 DEF socketVars
  <2>3. CASE /\ sending' = << >>
             /\ ended' = (ended \ {<<i, ok>>}) \cup {<<j, FALSE>> : j \in ToSet(sending)}
    <3>1. \A a \in DOMAIN sending' : a + 1 \in DOMAIN sending /\ sending'[a] = sending[a + 1]
      BY <2>3
    <3>2. ToSet(sending) \subseteq Frames
      BY <1>1 DEF ToSet
    <3>3. ended' \subseteq Frames \X BOOLEAN
      <4>1. \A j \in ToSet(sending) : <<j, FALSE>> \in Frames \X BOOLEAN
        BY <3>2
      <4> QED  BY ONLY <1>1, <2>3, <4>1
    <3>4. \A j \in Frames : <<j, TRUE>> \in ended' => <<j, TRUE>> \in ended
      BY <2>3
    <3>5. sending' \in Seq(Frames) /\ broken' \in BOOLEAN /\ 1 \in Nat
      BY <1>1, <2>1, <2>3
    <3> QED  BY <2>1, <3>1, <3>3, <3>4, <3>5, QueueShrinks
  <2> QED  BY <1>9, <2>2, <2>3 DEF Written, ReplyWritten, FrameWritten, CloseWritten
<1> QED  BY <1>3, <1>4, <1>5, <1>6, <1>7, <1>8, <1>9, TransferStep, ResumeStep DEF OutgoingNext
-----------------------------------------------------------------------------
\* A frame starts: of the kinds that the read loop writes, at the one stage where it does.
LEMMA LoopStart ==
  ASSUME SocketInv, LoopFrames, ReplyFirst,
         NEW k \in Kinds, NEW b \in 0 .. (MaxWrites + 2), Start(k, b),
         k = "reply" => stage = "handshake" /\ stage' = "reply",
         k = "pong" => stage = "open" /\ stage' = "open",
         k = "close" => stage = "open" /\ stage' = "closing",
         k = "data" => stage' = stage
  PROVE  LoopFrames' /\ ReplyFirst'
<1>s. SocketTypes
  BY DEF SocketInv
<1>p. PICK n \in Nat : Begun(n, k, b)
  BY ONLY <1>s, StartIs, k \in Kinds, b \in 0 .. (MaxWrites + 2), Start(k, b), Zenon
<1>0. /\ n \in Nat
      /\ n \notin Frames /\ Frames' = Frames \cup {n} /\ \A i \in Frames : i \in Nat /\ i < n
      /\ \A i \in Frames : started'[i] = started[i] /\ left'[i] = left[i]
      /\ started'[n] = [kind |-> k, buffer |-> b]
  BY <1>p DEF Begun
<1>1. \A i \in Frames' :
        \/ /\ i \in Frames /\ KindOf(i)' = KindOf(i) /\ left'[i] = left[i]
           /\ i \in Nat /\ i < n /\ i # n
        \/ i = n /\ KindOf(i)' = k
  BY <1>0 DEF KindOf
<1>2. k \in {"reply", "pong", "close", "data"}
  BY DEF Kinds
<1>3. /\ \A i, j \in Frames :
           KindOf(i) = KindOf(j) /\ KindOf(i) \in {"reply", "close"} => i = j
      /\ stage = "handshake" => \A i \in Frames : KindOf(i) # "reply"
      /\ stage \in {"handshake", "reply"} => \A i \in Frames : KindOf(i) # "pong"
      /\ stage \in {"handshake", "reply", "open"} => \A i \in Frames : KindOf(i) # "close"
      /\ \A i, j \in Frames : KindOf(i) = "pong" /\ KindOf(j) = "close" => i < j
      /\ \A i \in Frames : KindOf(i) = "reply" =>
           /\ stage = "open" => left[i] = 0
           /\ (\E j \in Frames : KindOf(j) \in {"pong", "close"}) => left[i] = 0
  BY DEF LoopFrames
<1>4. \A i, j \in Frames' :
        KindOf(i)' = KindOf(j)' /\ KindOf(i)' \in {"reply", "close"} => i = j
  BY <1>1, <1>3
<1>5. /\ stage' = "handshake" => \A i \in Frames' : KindOf(i)' # "reply"
      /\ stage' \in {"handshake", "reply"} => \A i \in Frames' : KindOf(i)' # "pong"
      /\ stage' \in {"handshake", "reply", "open"} => \A i \in Frames' : KindOf(i)' # "close"
  BY <1>1, <1>2, <1>3
<1>6. \A i, j \in Frames' : KindOf(i)' = "pong" /\ KindOf(j)' = "close" => i < j
  BY <1>1, <1>3
<1>7. ASSUME NEW i \in Frames', KindOf(i)' = "reply",
             stage' = "open" \/ \E j \in Frames' : KindOf(j)' \in {"pong", "close"}
      PROVE  left'[i] = 0
  <2>1. CASE i = n
    <3>1. k = "reply" /\ stage = "handshake" /\ stage' = "reply"
      BY <1>0, <1>1, <1>7, <2>1
    <3> QED  BY <1>1, <1>3, <1>7, <3>1
  <2>2. CASE i # n
    <3>1. i \in Frames /\ KindOf(i) = "reply" /\ left'[i] = left[i]
      BY <1>1, <1>7, <2>2
    <3>2. stage = "open" \/ \E j \in Frames : KindOf(j) \in {"pong", "close"}
      BY <1>1, <1>2, <1>7
    <3> QED  BY <1>3, <3>1, <3>2
  <2> QED  BY <2>1, <2>2
<1>8. LoopFrames'
  BY <1>4, <1>5, <1>6, <1>7 DEF LoopFrames
<1>9. wire' = wire /\ \A p \in DOMAIN wire : wire[p] \in Frames
  BY DEF Start, SocketInv, SocketTypes
<1>10. ReplyFirst'
  <2>1. \A p \in DOMAIN wire : KindOf(wire[p])' = KindOf(wire[p])
    BY <1>0, <1>9 DEF KindOf
  <2> QED  BY <1>9, <2>1 DEF ReplyFirst
<1> QED  BY <1>8, <1>10

\* No frame starts, and the session is open only once its answer is written.
LEMMA LoopQuiet ==
  ASSUME SocketInv, LoopFrames, started' = started,
         \A i \in Frames : left[i] = 0 => left'[i] = 0,
         \/ stage' = stage
         \/ stage' \in {"closing", "over", "crashed"}
         \/ /\ stage = "reply" /\ stage' = "open"
            /\ \E i \in Frames : KindOf(i) = "reply" /\ <<i, TRUE>> \in ended
  PROVE  LoopFrames'
<1>1. Frames' = Frames /\ \A i : KindOf(i)' = KindOf(i)
  BY DEF Frames, KindOf
<1>2. stage' = "open" => stage = "open" \/ \A i \in Frames : KindOf(i) = "reply" => left[i] = 0
  BY DEF SocketInv, InOnePlace, LoopFrames
<1>3. /\ stage' = "handshake" => stage = "handshake"
      /\ stage' \in {"handshake", "reply"} => stage \in {"handshake", "reply"}
      /\ stage' \in {"handshake", "reply", "open"} => stage \in {"handshake", "reply", "open"}
  OBVIOUS
<1>4. \A i \in Frames' : KindOf(i)' = "reply" =>
        /\ stage' = "open" => left'[i] = 0
        /\ (\E j \in Frames' : KindOf(j)' \in {"pong", "close"}) => left'[i] = 0
  BY <1>1, <1>2 DEF LoopFrames
<1>5. /\ \A i, j \in Frames' :
           KindOf(i)' = KindOf(j)' /\ KindOf(i)' \in {"reply", "close"} => i = j
      /\ stage' = "handshake" => \A i \in Frames' : KindOf(i)' # "reply"
      /\ stage' \in {"handshake", "reply"} => \A i \in Frames' : KindOf(i)' # "pong"
      /\ stage' \in {"handshake", "reply", "open"} => \A i \in Frames' : KindOf(i)' # "close"
      /\ \A i, j \in Frames' : KindOf(i)' = "pong" /\ KindOf(j)' = "close" => i < j
  BY <1>1, <1>3 DEF LoopFrames
<1> QED  BY <1>4, <1>5 DEF LoopFrames

\* A step that starts and sends nothing leaves the answer where it is.
LEMMA ReplyQuiet ==
  ASSUME ReplyFirst, started' = started, wire' = wire
  PROVE  ReplyFirst'
BY DEF ReplyFirst, KindOf

\* While a part of the answer is left, there is no other frame of the read loop.
LEMMA TransferLoop ==
  ASSUME SocketInv, LoopFrames, ReplyFirst, NEW n \in 1 .. Parts, Transfer(n)
  PROVE  LoopFrames' /\ ReplyFirst'
<1>p. PICK i \in Frames : Sent(i, n)
  BY ONLY SocketInv, n \in 1 .. Parts, Transfer(n), TransferIs, Zenon
<1>0. /\ i \in Frames
      /\ left[i] \in 1 .. Parts
      /\ \A j \in Frames : j # i => left'[j] = left[j]
      /\ wire' \in Seq(Frames) /\ Len(wire) \in Nat /\ Len(wire') = Len(wire) + n
      /\ \A p \in 1 .. Len(wire) : wire'[p] = wire[p] /\ wire[p] \in Frames
      /\ \A p \in (Len(wire) + 1) .. (Len(wire) + n) : wire'[p] = i
  BY <1>p DEF Sent
<1>1. started' = started /\ stage' = stage
  BY DEF Transfer, lifecycleVars
<1>2. \A j \in Frames : left[j] = 0 => left'[j] = 0
  <2>1. left[i] # 0
    BY <1>0
  <2> QED  BY <1>0, <2>1
<1>3. LoopFrames'
  BY <1>1, <1>2, LoopQuiet
<1>4. \A j : KindOf(j)' = KindOf(j)
  BY <1>1 DEF KindOf
<1>5. /\ \A p \in DOMAIN wire' : \/ p \in DOMAIN wire /\ wire'[p] = wire[p] /\ wire[p] \in Frames
                                 \/ p > Len(wire) /\ wire'[p] = i
      /\ \A p \in DOMAIN wire : p \in Nat /\ p <= Len(wire)
      /\ \A p \in DOMAIN wire' : p \in Nat
  <2>1. DOMAIN wire' = 1 .. (Len(wire) + n) /\ DOMAIN wire = 1 .. Len(wire) /\ n \in Nat
    BY <1>0, OutgoingAssumption DEF SocketInv, SocketTypes
  <2> QED  BY ONLY <1>0, <2>1
<1>6. ReplyFirst'
  <2> SUFFICES ASSUME NEW p \in DOMAIN wire', NEW q \in DOMAIN wire',
                      KindOf(wire'[p]) = "reply", KindOf(wire'[q]) \in {"pong", "close"}
               PROVE  p < q
    BY <1>4 DEF ReplyFirst, KindOf
  <2>1. wire'[p] \in Frames /\ wire'[q] \in Frames
    BY <1>5
  <2>2. left[wire'[p]] = 0
    BY <2>1 DEF LoopFrames
  <2>3. wire'[p] # i
    BY <1>0, <2>2
  <2>4. p \in DOMAIN wire /\ wire'[p] = wire[p]
    BY <1>5, <2>3
  <2>5. CASE q \in DOMAIN wire /\ wire'[q] = wire[q]
    BY <2>4, <2>5 DEF ReplyFirst
  <2>6. CASE q > Len(wire)
    BY <1>0, <1>5, <2>4, <2>6
  <2> QED  BY <1>5, <2>5, <2>6
<1> QED  BY <1>3, <1>6

\* The read loop's own frames keep their places whatever the step.
LEMMA LoopStep ==
  ASSUME SocketInv, LoopFrames, ReplyFirst, control \in 0 .. (MaxWrites + 2),
         [OutgoingNext]_outgoingVars
  PROVE  LoopFrames' /\ ReplyFirst'
<1>1. 0 \in 0 .. (MaxWrites + 2) /\ {"reply", "pong", "close", "data"} \subseteq Kinds
  BY OutgoingAssumption DEF Kinds
<1>2. ASSUME started' = started, wire' = wire, left' = left,
             stage' = stage \/ stage' \in {"closing", "over", "crashed"}
      PROVE  LoopFrames' /\ ReplyFirst'
  BY <1>2, LoopQuiet, ReplyQuiet
<1>3. CASE HandleFirstRequest
  <2>1. \/ stage = "handshake" /\ stage' = "reply" /\ Start("reply", 0)
        \/ /\ stage' \in {"over", "crashed"}
           /\ started' = started /\ wire' = wire /\ left' = left
    BY <1>3 DEF HandleFirstRequest, Answer, Finish, Crash, StartsNothing, socketVars
  <2> QED  BY <1>1, <1>2, <2>1, LoopStart
<1>4. CASE HandleControl
  <2>1. /\ stage = "open" /\ stage' = "open"
        /\ \/ Start("pong", control)
           \/ started' = started /\ wire' = wire /\ left' = left
    BY <1>4 DEF HandleControl, lifecycleVars, StartsNothing, socketVars
  <2> QED  BY <1>1, <1>2, <2>1, LoopStart
<1>5. CASE HandleKill \/ CancelSocket
  <2>1. /\ stage = "open" /\ stage' = "closing"
        /\ Start("close", control) \/ Start("close", 0)
    BY <1>5 DEF HandleKill, CancelSocket, Close
  <2> QED  BY <1>1, <2>1, LoopStart
<1>6. CASE Write
  <2>1. stage' = stage /\ Start("data", 0)
    BY <1>6 DEF Write, lifecycleVars
  <2> QED  BY <1>1, <2>1, LoopStart
<1>7. CASE \/ ReadControl \/ ReadFails \/ ReadOverruns \/ Broadcast \/ Fail
           \/ UNCHANGED outgoingVars
  <2>1. /\ started' = started /\ wire' = wire /\ left' = left
        /\ stage' = stage \/ stage' \in {"over", "crashed"}
    BY <1>7 DEF ReadControl, ReadFails, ReadOverruns, Broadcast, Fail, outgoingVars, socketVars,
                lifecycleVars, StartsNothing, Finish, Crash
  <2> QED  BY <1>2, <2>1
<1>8. ASSUME NEW i \in Frames, Resume(i) PROVE LoopFrames' /\ ReplyFirst'
  <2>1. started' = started /\ wire' = wire /\ left' = left /\ stage' = stage
    BY <1>8 DEF Resume, lifecycleVars
  <2> QED  BY <1>2, <2>1
<1>9. ASSUME NEW i \in Frames, NEW ok \in BOOLEAN, Written(i, ok)
      PROVE  LoopFrames' /\ ReplyFirst'
  <2>1. started' = started /\ wire' = wire /\ left' = left /\ <<i, ok>> \in ended
    BY <1>9 DEF Written
  <2>2. CASE FrameWritten(i, ok) \/ CloseWritten(i, ok)
    <3>1. stage' = stage \/ stage' = "over"
      BY <2>2 DEF FrameWritten, CloseWritten, Drop, Finish, lifecycleVars
    <3> QED  BY <1>2, <2>1, <3>1
  <2>3. CASE ReplyWritten(i, ok)
    <3>1. CASE ok = FALSE
      <4>1. stage' = "over"
        BY <2>3, <3>1 DEF ReplyWritten, Finish
      <4> QED  BY <1>2, <2>1, <4>1
    <3>2. CASE ok = TRUE
      <4>1. KindOf(i) = "reply" /\ stage = "reply" /\ stage' = "open"
        BY <2>3, <3>2 DEF ReplyWritten, Open, KindOf
      <4> QED  BY <2>1, <3>2, <4>1, LoopQuiet, ReplyQuiet
    <3> QED  BY <3>1, <3>2
  <2> QED  BY <1>9, <2>2, <2>3 DEF Written
<1> QED  BY <1>3, <1>4, <1>5, <1>6, <1>7, <1>8, <1>9, TransferLoop DEF OutgoingNext
-----------------------------------------------------------------------------
\* As many frames are counted as there are, and one more when one more starts.
LEMMA CountedIs ==
  ASSUME SocketTypes
  PROVE  /\ IsFiniteSet(Counted) /\ Cardinality(Counted) \in Nat
         /\ Writes = broadcasts + Cardinality(Counted)
<1>1. Frames = 1 .. Len(started) /\ Len(started) \in Nat
  BY DEF SocketTypes, Frames
<1>2. IsFiniteSet(Frames)
  BY <1>1, FS_Interval
<1>3. Counted \in SUBSET Frames
  BY DEF Counted
<1>4. IsFiniteSet(Counted)
  BY <1>2, <1>3, FS_Subset
<1> QED  BY <1>4, FS_CardinalityType DEF Writes, Quantify, Counted

\* A frame that begins stays within the bound.
LEMMA BoundedStart ==
  ASSUME SocketInv, Bounded, NEW k \in Kinds, NEW b \in 0 .. (MaxWrites + 2), Start(k, b),
         \/ k \in {"reply", "close"} /\ broadcasts' = broadcasts
         \/ k = "pong" /\ broadcasts' = broadcasts /\ Writes < MaxWrites
         \/ k = "data" /\ broadcasts > 0 /\ broadcasts' = broadcasts - 1
  PROVE  Bounded'
<1>s. SocketTypes
  BY DEF SocketInv
<1>p. PICK n \in Nat : Begun(n, k, b)
  BY ONLY <1>s, StartIs, k \in Kinds, b \in 0 .. (MaxWrites + 2), Start(k, b), Zenon
<1>0. /\ n \in Nat
      /\ n \notin Frames /\ Frames' = Frames \cup {n}
      /\ \A i \in Frames : started'[i] = started[i]
      /\ started'[n] = [kind |-> k, buffer |-> b]
  BY <1>p DEF Begun
<1>1. /\ IsFiniteSet(Counted) /\ Cardinality(Counted) \in Nat
      /\ Writes = broadcasts + Cardinality(Counted)
  BY CountedIs DEF SocketInv
<1>2. Writes' = broadcasts' + Cardinality(Counted')
  BY DEF Writes, Quantify, Counted
<1>3. n \notin Counted
  BY <1>0 DEF Counted
<1>4. Counted' = IF k \in {"pong", "data"} THEN Counted \cup {n} ELSE Counted
  <2>1. Counted' = {i \in Frames' : started'[i].kind \in {"pong", "data"}}
    BY DEF Counted
  <2>2. started'[n].kind = k
    BY <1>0
  <2>3. \A i \in Frames : started'[i].kind = started[i].kind
    BY <1>0
  <2> QED  BY ONLY <1>0, <2>1, <2>2, <2>3 DEF Counted
<1>5. Cardinality(Counted \cup {n}) = Cardinality(Counted) + 1
  BY <1>1, <1>3, FS_AddElement
<1>6. broadcasts \in Nat /\ broadcasts' \in Nat /\ MaxWrites \in Nat /\ Writes <= MaxWrites
  BY OutgoingAssumption DEF Bounded
<1>7. CASE k \in {"reply", "close"} /\ broadcasts' = broadcasts
  <2>1. Writes' = Writes
    BY <1>1, <1>2, <1>4, <1>7
  <2> QED  BY <1>6, <2>1 DEF Bounded
<1>8. CASE k = "pong" /\ broadcasts' = broadcasts /\ Writes < MaxWrites
  <2>1. Writes' = Writes + 1
    BY <1>1, <1>2, <1>4, <1>5, <1>6, <1>8
  <2> QED  BY <1>1, <1>6, <1>8, <2>1 DEF Bounded
<1>9. CASE k = "data" /\ broadcasts > 0 /\ broadcasts' = broadcasts - 1
  <2>1. Writes' = Writes
    BY <1>1, <1>2, <1>4, <1>5, <1>6, <1>9
  <2> QED  BY <1>6, <2>1 DEF Bounded
<1> QED  BY <1>7, <1>8, <1>9

\* No step makes more pongs and broadcasts than the bound allows.
LEMMA BoundedStep ==
  ASSUME SocketInv, Bounded, control \in 0 .. (MaxWrites + 2), [OutgoingNext]_outgoingVars
  PROVE  Bounded'
<1>1. 0 \in 0 .. (MaxWrites + 2) /\ {"reply", "pong", "close", "data"} \subseteq Kinds
  BY OutgoingAssumption DEF Kinds
<1>2. ASSUME started' = started, broadcasts' = broadcasts PROVE Bounded'
  BY <1>2 DEF Bounded, Writes, Quantify, Frames
<1>3. CASE HandleFirstRequest
  <2>1. broadcasts' = broadcasts /\ (Start("reply", 0) \/ started' = started)
    BY <1>3 DEF HandleFirstRequest, StartsNothing
  <2> QED  BY <1>1, <1>2, <2>1, BoundedStart
<1>4. CASE HandleControl
  <2>1. /\ broadcasts' = broadcasts
        /\ (Start("pong", control) /\ Writes < MaxWrites) \/ started' = started
    BY <1>4 DEF HandleControl, StartsNothing
  <2> QED  BY <1>1, <1>2, <2>1, BoundedStart
<1>5. CASE HandleKill \/ CancelSocket
  <2>1. broadcasts' = broadcasts /\ (Start("close", control) \/ Start("close", 0))
    BY <1>5 DEF HandleKill, CancelSocket
  <2> QED  BY <1>1, <2>1, BoundedStart
<1>6. CASE Write
  <2>1. broadcasts > 0 /\ broadcasts' = broadcasts - 1 /\ Start("data", 0)
    BY <1>6 DEF Write
  <2> QED  BY <1>1, <2>1, BoundedStart
<1>7. CASE Broadcast
  <2>1. /\ started' = started /\ broadcasts' = broadcasts + 1 /\ Writes < MaxWrites
    BY <1>7 DEF Broadcast, StartsNothing
  <2>2. Writes' = broadcasts' + Cardinality(Counted) /\ broadcasts \in Nat /\ MaxWrites \in Nat
    BY <2>1, OutgoingAssumption DEF Writes, Quantify, Counted, Frames, Bounded
  <2>3. Cardinality(Counted) \in Nat /\ Writes = broadcasts + Cardinality(Counted)
    BY CountedIs DEF SocketInv
  <2>4. broadcasts' \in Nat /\ Writes' <= MaxWrites
    BY <2>1, <2>2, <2>3
  <2> QED  BY <2>4 DEF Bounded
<1>8. CASE ReadControl \/ ReadFails \/ ReadOverruns \/ Fail \/ UNCHANGED outgoingVars
  <2>1. started' = started /\ broadcasts' = broadcasts
    BY <1>8 DEF ReadControl, ReadFails, ReadOverruns, Fail, outgoingVars, StartsNothing
  <2> QED  BY <1>2, <2>1
<1>9. CASE \/ \E n \in 1 .. Parts : Transfer(n)
           \/ \E i \in Frames : Resume(i)
           \/ \E i \in Frames, ok \in BOOLEAN : Written(i, ok)
  <2>1. started' = started /\ broadcasts' = broadcasts
    BY <1>9 DEF Transfer, Resume, Written
  <2> QED  BY <1>2, <2>1
<1> QED  BY <1>3, <1>4, <1>5, <1>6, <1>7, <1>8, <1>9 DEF OutgoingNext
-----------------------------------------------------------------------------
\* While the session reads there is always memory for a control frame that nothing holds:
\* pongs and broadcasts hold no more than there are writes.
LEMMA NewBufferIs ==
  ASSUME SocketInv, LoopFrames, Buffers, Bounded, stage = "open"
  PROVE  NewBuffer \in 1 .. (MaxWrites + 2) /\ NewBuffer \notin Held
<1> DEFINE image == {started[i].buffer : i \in Counted}
           some == image \cup {control}
           all == 1 .. (MaxWrites + 2)
<1>1. /\ IsFiniteSet(Counted) /\ Cardinality(Counted) \in Nat
      /\ Cardinality(Counted) <= MaxWrites /\ MaxWrites \in Nat
  BY CountedIs, OutgoingAssumption DEF SocketInv, Bounded
<1>2. IsFiniteSet(image) /\ Cardinality(image) <= Cardinality(Counted)
  <2> DEFINE f == [i \in Counted |-> started[i].buffer]
  <2>1. f \in Surjection(Counted, image)
    BY DEF Surjection
  <2> HIDE DEF f, image
  <2> QED  BY <1>1, <2>1, FS_Surjection
<1>3. Cardinality(image) \in Nat
  BY <1>2, FS_CardinalityType
<1>4. IsFiniteSet(some) /\ Cardinality(some) <= MaxWrites + 1
  <2>1. /\ IsFiniteSet(some)
        /\ Cardinality(some) = IF control \in image THEN Cardinality(image)
                               ELSE Cardinality(image) + 1
    BY <1>2, FS_AddElement
  <2> HIDE DEF some, image
  <2> QED  BY <1>1, <1>2, <1>3, <2>1
<1>5. \A h \in Held : h = 0 \/ h \in some
  <2> SUFFICES ASSUME NEW h \in Held, h # 0 PROVE h \in some
    OBVIOUS
  <2>1. CASE h = control
    BY <2>1
  <2>2. CASE h # control
    <3>1. PICK i \in Frames : h = started[i].buffer
      BY <2>2 DEF Held
    <3>2. started[i].kind \in Kinds
      <4>1. started[i] \in [kind : Kinds, buffer : 0 .. (MaxWrites + 2)]
        <5> DEFINE E == [kind : Kinds, buffer : 0 .. (MaxWrites + 2)]
        <5>1. started \in Seq(E) /\ i \in DOMAIN started
          BY DEF SocketInv, SocketTypes, Frames
        <5> HIDE DEF E
        <5>2. started[i] \in E
          BY <5>1
        <5> QED  BY <5>2 DEF E
      <4> QED  BY <4>1
    <3>3. KindOf(i) \notin {"reply", "data", "close"}
      BY <3>1 DEF Buffers, LoopFrames
    <3>4. i \in Counted
      BY <3>2, <3>3 DEF Counted, Kinds, KindOf
    <3> QED  BY <3>1, <3>4
  <2> QED  BY <2>1, <2>2
<1>6. IsFiniteSet(all) /\ Cardinality(all) = MaxWrites + 2
  <2>1. 1 \in Int /\ MaxWrites + 2 \in Int /\ ~(1 > MaxWrites + 2)
        /\ (MaxWrites + 2) - 1 + 1 = MaxWrites + 2
    BY <1>1
  <2> QED  BY <2>1, FS_Interval
<1>7. all \ Held # {}
  <2> SUFFICES ASSUME all \subseteq Held PROVE FALSE
    OBVIOUS
  <2>1. \A h \in all : h # 0
    BY <1>1
  <2> HIDE DEF some, all
  <2>2. all \in SUBSET some
    BY <1>5, <2>1
  <2>3. Cardinality(all) <= Cardinality(some)
    BY <1>4, <2>2, FS_Subset
  <2>4. Cardinality(some) \in Nat
    BY <1>4, FS_CardinalityType
  <2> QED  BY <1>1, <1>4, <1>6, <2>3, <2>4
<1>8. all \ Held \subseteq Nat
  OBVIOUS
<1>9. NewBuffer = Min(all \ Held)
  BY DEF NewBuffer
<1> HIDE DEF all
<1>10. NewBuffer \in all \ Held
  BY <1>7, <1>8, <1>9, MinIs
<1> QED  BY <1>10 DEF all

\* Nothing that is in flight has been put there by the step, and what is read is read on.
LEMMA BuffersQuiet ==
  ASSUME Buffers, started' = started, control' = control,
         \/ filling' = FALSE
         \/ /\ filling' = filling /\ (filling => stage' = "open")
            /\ \A a \in DOMAIN sending' :
                 sending'[a] \in resuming \/ \E c \in DOMAIN sending : sending'[a] = sending[c]
            /\ \A i \in resuming' :
                 i \in resuming \/ \E c \in DOMAIN sending : i = sending[c]
  PROVE  Buffers'
<1>1. Frames' = Frames /\ \A i : KindOf(i)' = KindOf(i)
  BY DEF Frames, KindOf
<1>2. filling' \in BOOLEAN
  BY DEF Buffers
<1>3. CASE filling' = FALSE
  BY <1>1, <1>2, <1>3 DEF Buffers
<1>4. CASE filling' # FALSE
  <2>1. /\ filling = TRUE /\ stage' = "open"
        /\ \A a \in DOMAIN sending' :
             sending'[a] \in resuming \/ \E c \in DOMAIN sending : sending'[a] = sending[c]
        /\ \A i \in resuming' : i \in resuming \/ \E c \in DOMAIN sending : i = sending[c]
    <3>1. /\ filling' = filling /\ (filling => stage' = "open")
          /\ \A a \in DOMAIN sending' :
               sending'[a] \in resuming \/ \E c \in DOMAIN sending : sending'[a] = sending[c]
          /\ \A i \in resuming' : i \in resuming \/ \E c \in DOMAIN sending : i = sending[c]
      BY <1>4
    <3>2. filling = TRUE
      BY <1>2, <1>4, <3>1
    <3> QED  BY <3>1, <3>2
  <2>2. /\ \A a \in DOMAIN sending' : started'[sending'[a]].buffer # control'
        /\ \A i \in resuming' : started'[i].buffer # control'
    BY <2>1 DEF Buffers
  <2> QED  BY <1>1, <1>2, <2>1, <2>2 DEF Buffers
<1> QED  BY <1>3, <1>4

\* A frame that begins is not sent from memory that is being read into.
LEMMA BuffersStart ==
  ASSUME SocketInv, Buffers, NEW k \in Kinds, NEW b \in 0 .. (MaxWrites + 2), Start(k, b),
         control' = control, k \in {"reply", "data"} => b = 0,
         \/ filling' = FALSE
         \/ filling' = filling /\ stage' = stage /\ k = "data"
  PROVE  Buffers'
<1>s. SocketTypes
  BY DEF SocketInv
<1>p. PICK n \in Nat : Begun(n, k, b)
  BY ONLY <1>s, StartIs, k \in Kinds, b \in 0 .. (MaxWrites + 2), Start(k, b), Zenon
<1>0. /\ n \in Nat
      /\ n \notin Frames /\ Frames' = Frames \cup {n}
      /\ \A i \in Frames : started'[i] = started[i]
      /\ started'[n] = [kind |-> k, buffer |-> b]
      /\ DOMAIN sending' = 1 .. (Len(sending) + 1) /\ DOMAIN sending = 1 .. Len(sending)
      /\ \A a \in DOMAIN sending : sending'[a] = sending[a] /\ sending[a] \in Frames
      /\ sending'[Len(sending) + 1] = n /\ Len(sending) \in Nat
  BY <1>p DEF Begun
<1>1. \A i \in Frames' : KindOf(i)' \in {"reply", "data"} => started'[i].buffer = 0
  BY <1>0 DEF Buffers, KindOf
<1>2. control' \in 0 .. (MaxWrites + 2) /\ filling' \in BOOLEAN
  BY DEF Buffers
<1>3. ASSUME filling'
      PROVE  /\ stage' = "open" /\ control' # 0
             /\ \A a \in DOMAIN sending' : started'[sending'[a]].buffer # control'
             /\ \A i \in resuming' : started'[i].buffer # control'
  <2>1. filling /\ stage' = stage /\ k = "data"
    BY <1>3
  <2>2. /\ stage = "open" /\ control # 0 /\ b = 0
        /\ \A a \in DOMAIN sending : started[sending[a]].buffer # control
        /\ \A i \in resuming : started[i].buffer # control
    BY <2>1 DEF Buffers
  <2>3. \A a \in DOMAIN sending' :
          \/ a \in DOMAIN sending /\ sending'[a] = sending[a] /\ sending[a] \in Frames
          \/ sending'[a] = n
    BY <1>0
  <2>4. started'[n].buffer = 0
    BY <1>0, <2>2
  <2>5. resuming' = resuming /\ \A i \in resuming : i \in Frames
    BY DEF Start, SocketInv, SocketTypes
  <2>6. \A i \in Frames : started'[i] = started[i]
    BY <1>0
  <2> QED  BY <2>1, <2>2, <2>3, <2>4, <2>5, <2>6
<1> QED  BY <1>1, <1>2, <1>3 DEF Buffers

\* No step gives a control frame's payload memory that a write holds.
LEMMA BuffersStep ==
  ASSUME SocketInv, LoopFrames, Buffers, Bounded, [OutgoingNext]_outgoingVars
  PROVE  Buffers'
<1>1. /\ 0 \in 0 .. (MaxWrites + 2) /\ {"reply", "pong", "close", "data"} \subseteq Kinds
      /\ control \in 0 .. (MaxWrites + 2) /\ filling \in BOOLEAN
      /\ filling => stage = "open"
  BY OutgoingAssumption DEF Kinds, Buffers
<1>2. ASSUME started' = started, control' = control, sending' = sending, resuming' = resuming,
             \/ filling' = FALSE
             \/ filling' = filling /\ (filling => stage' = "open")
      PROVE  Buffers'
  BY <1>2, BuffersQuiet
<1>3. CASE HandleFirstRequest
  <2>1. /\ stage = "handshake" /\ filling' = filling /\ control' = control
        /\ \/ Start("reply", 0)
           \/ started' = started /\ sending' = sending /\ resuming' = resuming
    BY <1>3 DEF HandleFirstRequest, Answer, Crash, StartsNothing, socketVars
  <2>2. filling' = FALSE
    BY <1>1, <2>1
  <2> QED  BY <1>1, <1>2, <2>1, <2>2, BuffersStart
<1>4. CASE ReadControl
  <2>1. /\ stage = "open" /\ stage' = stage /\ control' = NewBuffer /\ filling' = TRUE
        /\ UNCHANGED <<sending, resuming, started>>
    BY <1>4 DEF ReadControl, lifecycleVars, socketVars
  <2>2. control' \in 1 .. (MaxWrites + 2) /\ control' \notin Held
    BY <2>1, NewBufferIs
  <2>3. control' # 0 /\ control' \in 0 .. (MaxWrites + 2)
    BY <2>2
  <2>4. /\ \A a \in DOMAIN sending : started[sending[a]].buffer \in Held
        /\ \A i \in resuming : started[i].buffer \in Held
    BY DEF Held, ToSet, SocketInv, SocketTypes
  <2>5. Frames' = Frames /\ \A i : KindOf(i)' = KindOf(i)
    BY <2>1 DEF Frames, KindOf
  <2>6. /\ \A a \in DOMAIN sending' : started'[sending'[a]].buffer # control'
        /\ \A i \in resuming' : started'[i].buffer # control'
    BY <2>1, <2>2, <2>4
  <2>7. \A i \in Frames' : KindOf(i)' \in {"reply", "data"} => started'[i].buffer = 0
    BY <2>1, <2>5 DEF Buffers
  <2>8. filling' \in BOOLEAN /\ stage' = "open"
    BY <2>1
  <2> QED  BY <2>3, <2>6, <2>7, <2>8 DEF Buffers
<1>5. CASE HandleControl \/ HandleKill \/ CancelSocket
  <2>1. /\ filling' = FALSE /\ control' = control
        /\ \/ Start("pong", control) \/ Start("close", control) \/ Start("close", 0)
           \/ started' = started /\ sending' = sending /\ resuming' = resuming
    BY <1>5 DEF HandleControl, HandleKill, CancelSocket, StartsNothing, socketVars
  <2> QED  BY <1>1, <1>2, <2>1, BuffersStart
<1>6. CASE Write
  <2>1. filling' = filling /\ control' = control /\ stage' = stage /\ Start("data", 0)
    BY <1>6 DEF Write, lifecycleVars
  <2> QED  BY <1>1, <2>1, BuffersStart
<1>7. CASE ReadFails \/ ReadOverruns \/ Broadcast \/ UNCHANGED outgoingVars
  <2>1. /\ UNCHANGED <<started, control, sending, resuming>>
        /\ filling' = FALSE \/ (filling' = filling /\ stage' = stage)
    BY <1>7 DEF ReadFails, ReadOverruns, Broadcast, outgoingVars, socketVars, lifecycleVars,
                StartsNothing
  <2> QED  BY <1>1, <1>2, <2>1
<1>8. ASSUME NEW n \in 1 .. Parts, Transfer(n) PROVE Buffers'
  <2>p. PICK i \in Frames : Sent(i, n)
    BY ONLY SocketInv, <1>8, TransferIs, Zenon
  <2>1. /\ i \in Frames /\ 1 \in DOMAIN sending /\ i = sending[1]
        /\ \A a \in DOMAIN sending' : a + 1 \in DOMAIN sending /\ sending'[a] = sending[a + 1]
        /\ resuming' = resuming \cup {i} \/ resuming' = resuming
    BY <2>p DEF Sent
  <2>2. UNCHANGED <<started, control, filling, stage>>
    BY <1>8 DEF Transfer, lifecycleVars
  <2> QED  BY <1>1, <2>1, <2>2, BuffersQuiet
<1>9. ASSUME NEW i \in Frames, Resume(i) PROVE Buffers'
  <2>1. /\ i \in resuming /\ resuming' = resuming \ {i} /\ sending' = Append(sending, i)
        /\ UNCHANGED <<started, control, filling, stage>>
    BY <1>9 DEF Resume, lifecycleVars
  <2>2. \A a \in DOMAIN sending' : sending'[a] = i \/ \E c \in DOMAIN sending : sending'[a] = sending[c]
    <3>1. sending \in Seq(Frames)
      BY DEF SocketInv, SocketTypes
    <3> QED  BY <2>1, <3>1
  <2> QED  BY <1>1, <2>1, <2>2, BuffersQuiet
<1>10. CASE Fail
  <2>1. /\ sending # << >> /\ sending' = Tail(sending)
        /\ UNCHANGED <<started, control, filling, stage, resuming>>
    BY <1>10 DEF Fail, lifecycleVars
  <2>2. \A a \in DOMAIN sending' : a + 1 \in DOMAIN sending /\ sending'[a] = sending[a + 1]
    BY <2>1, TailIs DEF SocketInv, SocketTypes
  <2> QED  BY <1>1, <2>1, <2>2, BuffersQuiet
<1>11. ASSUME NEW i \in Frames, NEW ok \in BOOLEAN, Written(i, ok) PROVE Buffers'
  <2>1. UNCHANGED <<started, control, filling, resuming>>
    BY <1>11 DEF Written
  <2>2. CASE ReplyWritten(i, ok)
    <3>1. sending' = sending /\ stage = "reply"
      BY <2>2 DEF ReplyWritten, Open
    <3>2. filling' = FALSE
      BY <1>1, <2>1, <3>1
    <3> QED  BY <1>2, <2>1, <3>1, <3>2
  <2>3. CASE FrameWritten(i, ok)
    <3>1. sending' = sending /\ stage' = stage
      BY <2>3 DEF FrameWritten, Drop, lifecycleVars
    <3> QED  BY <1>1, <1>2, <2>1, <3>1
  <2>4. CASE CloseWritten(i, ok)
    <3>1. KindOf(i) = "close"
      BY <2>4 DEF CloseWritten, KindOf
    <3>2. stage # "open"
      BY <3>1 DEF LoopFrames
    <3>3. filling' = FALSE
      BY <1>1, <2>1, <3>2
    <3> QED  BY <2>1, <3>3, BuffersQuiet
  <2> QED  BY <1>11, <2>2, <2>3, <2>4 DEF Written
<1> QED  BY <1>3, <1>4, <1>5, <1>6, <1>7, <1>8, <1>9, <1>10, <1>11 DEF OutgoingNext
-----------------------------------------------------------------------------
\* Every step is one of the session's life, or none (Lifecycle).
LEMMA LifecycleStep == [OutgoingNext]_outgoingVars => [LifecycleNext]_lifecycleVars
<1> SUFFICES ASSUME [OutgoingNext]_outgoingVars PROVE [LifecycleNext]_lifecycleVars
  OBVIOUS
<1>1. CASE HandleFirstRequest \/ HandleKill \/ CancelSocket \/ ReadFails \/ ReadOverruns
  BY <1>1 DEF HandleFirstRequest, HandleKill, CancelSocket, ReadFails, ReadOverruns, LifecycleNext
<1>2. CASE \/ ReadControl \/ HandleControl \/ Broadcast \/ Write \/ Fail
           \/ \E n \in 1 .. Parts : Transfer(n)
           \/ \E i \in Frames : Resume(i)
           \/ UNCHANGED outgoingVars
  BY <1>2 DEF ReadControl, HandleControl, Broadcast, Write, Fail, Transfer, Resume, outgoingVars
<1>3. ASSUME NEW i \in Frames, NEW ok \in BOOLEAN, Written(i, ok)
      PROVE  [LifecycleNext]_lifecycleVars
  BY <1>3 DEF Written, ReplyWritten, FrameWritten, CloseWritten, LifecycleNext
<1> QED  BY <1>1, <1>2, <1>3 DEF OutgoingNext

\* Nothing has been written when a session begins.
LEMMA OutgoingStarts == OutgoingInit => OutgoingInv
<1> SUFFICES ASSUME OutgoingInit PROVE OutgoingInv
  OBVIOUS
<1>1. /\ stage = "handshake" /\ registered = TRUE /\ broadcasts = 0
      /\ started = << >> /\ left = << >> /\ sending = << >> /\ resuming = {} /\ ended = {}
      /\ wire = << >> /\ broken = FALSE /\ control = 0 /\ filling = FALSE
  BY DEF OutgoingInit, LifecycleInit
<1>2. Frames = {} /\ MaxWrites \in Nat
  BY <1>1, OutgoingAssumption DEF Frames
<1>3. SocketTypes
  <2>1. /\ started \in Seq([kind : Kinds, buffer : 0 .. (MaxWrites + 2)])
        /\ left \in Seq(0 .. Parts) /\ Len(left) = Len(started)
        /\ sending \in Seq(Frames) /\ wire \in Seq(Frames)
    BY <1>1
  <2> QED  BY <1>1, <2>1 DEF SocketTypes
<1>4. DOMAIN sending = {} /\ DOMAIN wire = {}
  BY <1>1
<1>5. InOnePlace /\ InTurn /\ BeginInTurn
  BY <1>1, <1>2, <1>4 DEF InOnePlace, InTurn, BeginInTurn
<1>6. LoopFrames /\ ReplyFirst
  BY <1>2, <1>4 DEF LoopFrames, ReplyFirst
<1>7. Buffers
  <2>1. ~filling /\ filling \in BOOLEAN
    BY <1>1
  <2>2. control \in 0 .. (MaxWrites + 2)
    BY <1>1, <1>2
  <2> QED  BY <1>2, <2>1, <2>2 DEF Buffers
<1>8. Bounded
  <2>1. Counted = {}
    BY <1>2 DEF Counted
  <2>2. Writes = 0 + 0
    BY <1>1, <1>3, <2>1, CountedIs, FS_EmptySet
  <2> QED  BY <1>1, <1>2, <2>2 DEF Bounded
<1>9. stage \in Stages /\ registered \in BOOLEAN
  BY <1>1 DEF Stages
<1> QED  BY <1>3, <1>5, <1>6, <1>7, <1>8, <1>9 DEF OutgoingInv, SocketInv

\* Every step keeps the inductive invariant.
LEMMA OutgoingStep == OutgoingInv /\ [OutgoingNext]_outgoingVars => OutgoingInv'
<1> SUFFICES ASSUME OutgoingInv, [OutgoingNext]_outgoingVars PROVE OutgoingInv'
  OBVIOUS
<1>1. /\ SocketInv /\ LoopFrames /\ ReplyFirst /\ Buffers /\ Bounded
      /\ stage \in Stages /\ registered \in BOOLEAN
  BY DEF OutgoingInv
<1>2. control \in 0 .. (MaxWrites + 2)
  BY <1>1 DEF Buffers
<1>3. stage' \in Stages /\ registered' \in BOOLEAN
  BY <1>1, LifecycleStep
     DEF LifecycleNext, Answer, Open, Close, Finish, Crash, Drop, lifecycleVars, Stages
<1> QED  BY <1>1, <1>2, <1>3, SocketStep, LoopStep, BuffersStep, BoundedStep DEF OutgoingInv

\* The inductive invariant holds in every reachable state.
THEOREM OutgoingInvariant == OutgoingSafety => []OutgoingInv
BY OutgoingStarts, OutgoingStep, PTL DEF OutgoingSafety

\* Every variable of Outgoing has its type; in particular there is always a buffer free
\* for a control frame (ws_session.cpp:157).
THEOREM OutgoingTypes == OutgoingSafety => []OutgoingTypeOK
<1>1. OutgoingInv => OutgoingTypeOK
  <2> SUFFICES ASSUME OutgoingInv PROVE OutgoingTypeOK
    OBVIOUS
  <2>1. broadcasts \in 0 .. MaxWrites
    <3>1. /\ broadcasts \in Nat /\ Writes <= MaxWrites
          /\ Writes = broadcasts + Cardinality(Counted) /\ Cardinality(Counted) \in Nat
      BY CountedIs DEF OutgoingInv, Bounded, SocketInv
    <3> QED  BY <3>1, OutgoingAssumption
  <2> QED  BY <2>1 DEF OutgoingInv, SocketInv, SocketTypes, Buffers, OutgoingTypeOK
<1> QED  BY <1>1, OutgoingInvariant, PTL

\* For any number of writes and parts, and wherever the socket cuts them: the frames of
\* the read loop keep their places, the whole answer to the handshake before any of them,
\* one close, and no pong that begins after it (ws_session.cpp:61, 294, 329).
THEOREM LoopKeepsItsTurn == OutgoingSafety => []LoopWritesInTurn
<1>1. OutgoingInv => LoopWritesInTurn
  <2> SUFFICES ASSUME OutgoingInv, NEW p \in DOMAIN wire, NEW q \in DOMAIN wire
               PROVE  /\ KindOf(wire[p]) = "reply" /\ KindOf(wire[q]) \in {"pong", "close"} =>
                           p < q /\ left[wire[p]] = 0
                      /\ KindOf(wire[p]) = "close" /\ KindOf(wire[q]) = "close" =>
                           wire[p] = wire[q]
                      /\ p < q /\ KindOf(wire[p]) = "close" /\ KindOf(wire[q]) = "pong" =>
                           \E r \in 1 .. (p - 1) : wire[r] = wire[q]
    BY DEF LoopWritesInTurn, KindOf
  <2>1. LoopFrames /\ ReplyFirst /\ BeginInTurn /\ wire[p] \in Frames /\ wire[q] \in Frames
    BY DEF OutgoingInv, SocketInv, SocketTypes
  <2>2. KindOf(wire[p]) = "reply" /\ KindOf(wire[q]) \in {"pong", "close"} =>
          p < q /\ left[wire[p]] = 0
    BY <2>1 DEF LoopFrames, ReplyFirst
  <2>3. KindOf(wire[p]) = "close" /\ KindOf(wire[q]) = "close" => wire[p] = wire[q]
    BY <2>1 DEF LoopFrames
  <2>4. p < q /\ KindOf(wire[p]) = "close" /\ KindOf(wire[q]) = "pong" =>
          \E r \in 1 .. (p - 1) : wire[r] = wire[q]
    <3> SUFFICES ASSUME p < q, KindOf(wire[p]) = "close", KindOf(wire[q]) = "pong"
                 PROVE  \E r \in 1 .. (p - 1) : wire[r] = wire[q]
      OBVIOUS
    <3>1. wire[q] < wire[p]
      BY <2>1 DEF LoopFrames
    <3> QED  BY <2>1, <3>1 DEF BeginInTurn
  <2> QED  BY <2>2, <2>3, <2>4
<1> QED  BY <1>1, OutgoingInvariant, PTL

\* However many pongs and broadcasts are under way, the payload of a control frame is read
\* into memory that none of them is sent from (ws_session.cpp:157, 293).
THEOREM BuffersStayUntouched == OutgoingSafety => []BuffersUntouched
<1>1. OutgoingInv => BuffersUntouched
  BY DEF OutgoingInv, Buffers, BuffersUntouched, ToSet
<1> QED  BY <1>1, OutgoingInvariant, PTL
=============================================================================
