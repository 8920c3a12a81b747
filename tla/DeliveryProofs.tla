--------------------------- MODULE DeliveryProofs ---------------------------
(***************************************************************************)
(* What a session posts is handed to the dealer once, for any number of io *)
(* threads, and ahead of its turn by fewer messages than there are         *)
(* threads.  Of the whole session only three kinds of steps matter: those  *)
(* that post a message, those that hand one over, and all others.          *)
(***************************************************************************)
EXTENDS SessionProofs, SequenceLemmas

Handed == [message : Nat, binary : BOOLEAN]

DeliveryTypes == /\ queue \in Seq(Nat)
                 /\ delivered \in Seq(Handed)
                 /\ Len(posted) = Len(queue) + Len(delivered)

\* Every message posted waits or is handed over; there being as many of the ones as of
\* the others, none is there twice.
DeliveryInv == /\ DeliveryTypes
               /\ \A i \in DOMAIN queue : queue[i] \in 1 .. Len(posted)
               /\ \A i \in DOMAIN delivered : delivered[i].message \in 1 .. Len(posted)
               /\ \A m \in 1 .. Len(posted) :
                    \/ \E i \in DOMAIN queue : queue[i] = m
                    \/ \E i \in DOMAIN delivered : delivered[i].message = m

\* With one thread the requests run in the order they were posted in.
OrderInv == /\ DeliveryTypes
            /\ \A i \in DOMAIN queue : queue[i] = Len(delivered) + i
            /\ \A i \in DOMAIN delivered : delivered[i].message = i

\* The three kinds of steps.
Posts == /\ \E m : posted' = Append(posted, m)
         /\ queue' = Append(queue, Len(posted'))
         /\ UNCHANGED delivered

Hands(i) == /\ i <= Threads
            /\ \E b : /\ b = header.binary
                      /\ delivered' = Append(delivered, [message |-> queue[i], binary |-> b])
            /\ queue' = RemoveAt(queue, i)
            /\ UNCHANGED posted

Passes == UNCHANGED <<posted, queue, delivered>>
-----------------------------------------------------------------------------
\* A step of the data path posts a message exactly when it ends in a header with a new
\* message to come.
LEMMA ReadChunkPosts ==
  ASSUME NEW h, NEW g, NEW b, NEW n, ReadChunk(h, g, b, n)
  PROVE  \/ /\ UNCHANGED posted
            /\ phase' # "header" \/ ~newRequest'
         \/ /\ \E m : posted' = Append(posted, m)
            /\ phase' = "header" /\ newRequest'
<1>1. PICK t \in TextsAfter(h, g, n) :
        LET c == Consumed(h, g, n, t)
        IN /\ newRequest' = h.fin
           /\ \/ Reject(c, b)
              \/ ~h.fin /\ EndFrame(c, b)
              \/ h.fin /\ EndMessage(c, b)
              \/ ReadOn(c, b)
  BY DEF ReadChunk
<1> QED  BY <1>1 DEF Reject, EndFrame, EndMessage, ReadOn

\* And then the handler posts the request of it.
LEMMA ChunkPosts ==
  ASSUME NEW done, NEW h, NEW g, NEW b, NEW n, ReadChunk(h, g, b, n), AfterChunk(done),
         UNCHANGED delivered
  PROVE  Posts \/ Passes
<1>1. CASE UNCHANGED posted /\ (phase' # "header" \/ ~newRequest')
  BY <1>1 DEF AfterChunk, Passes
<1>2. CASE (\E m : posted' = Append(posted, m)) /\ phase' = "header" /\ newRequest'
  BY <1>2 DEF AfterChunk, Posts
<1> QED  BY <1>1, <1>2, ReadChunkPosts

\* Every step of a session posts a request, runs one, or does neither.
LEMMA DeliveryKinds ==
  ASSUME [SessionNext]_sessionVars
  PROVE  Posts \/ Passes \/ \E i \in 1 .. Len(queue) : Hands(i)
<1>1. ASSUME NEW r \in Requests, HandleFirstRequest(r) PROVE Passes
  BY <1>1 DEF HandleFirstRequest, Stop, gatherVars, Passes
<1>2. CASE Replied
  BY <1>2 DEF Replied, gatherVars, Passes
<1>3. ASSUME NEW f \in Headers, HandleFirst(f) PROVE Passes
  BY <1>3 DEF HandleFirst, Stop, gatherVars, Passes
<1>4. CASE HandleSecond
  <2>1. CASE /\ temp.opcode \notin Control
             /\ Frame(temp.size, temp.fin, temp.opcode, temp.unmasked)
             /\ AfterChunk("second")
    BY <1>4, <2>1, ChunkPosts DEF HandleSecond, Frame
  <2>2. CASE Stop /\ UNCHANGED queue
    BY <1>4, <2>2 DEF HandleSecond, Stop, Passes
  <2>3. CASE StartControl
    BY <1>4, <2>3 DEF HandleSecond, StartControl, gatherVars, Passes
  <2> QED  BY <1>4, <2>1, <2>2, <2>3 DEF HandleSecond
<1>5. CASE HandlePayload
  BY <1>5, ChunkPosts DEF HandlePayload, ChunkRead
<1>6. ASSUME NEW p \in ControlPayloads(CloseCodes), HandleControl(p) PROVE Passes
  BY <1>6 DEF HandleControl, Stop, gatherVars, Passes
<1>7. ASSUME NEW k \in Reads \cup {"reply"}, LoopFails(k) PROVE Passes
  BY <1>7 DEF LoopFails, Stop, Passes
<1>8. CASE CloseDone
  BY <1>8 DEF CloseDone, gatherVars, Passes
<1>9. ASSUME NEW k \in {"pong", "data"}, WriteDone(k) PROVE Passes
  BY <1>9 DEF WriteDone, gatherVars, Passes
<1>10. CASE Broadcast \/ Write \/ UNCHANGED sessionVars
  BY <1>10 DEF Broadcast, Write, sessionVars, sessionOnly, gatherVars, Passes
<1>11. ASSUME NEW i \in 1 .. Len(queue), Request(i) PROVE Hands(i)
  BY <1>11 DEF Request, gatherVars, Hands
<1>12. CASE HandleOverrun
  BY <1>12 DEF HandleOverrun, Overrun, Passes
<1> QED  BY <1>1, <1>2, <1>3, <1>4, <1>5, <1>6, <1>7, <1>8, <1>9, <1>10, <1>11, <1>12
         DEF SessionNext
-----------------------------------------------------------------------------
\* What a step of each kind leaves in the queue and with the dealer.
LEMMA PostsLeaves ==
  ASSUME DeliveryTypes, NEW S, posted \in Seq(S), Posts
  PROVE  /\ DeliveryTypes'
         /\ Len(posted') = Len(posted) + 1 /\ Len(posted) \in Nat
         /\ delivered' = delivered
         /\ Len(queue') = Len(queue) + 1 /\ Len(queue) \in Nat
         /\ \A i \in 1 .. Len(queue) : queue'[i] = queue[i]
         /\ queue'[Len(queue) + 1] = Len(posted')
<1>1. PICK m : posted' = Append(posted, m)
  BY DEF Posts
<1>2. Len(posted') = Len(posted) + 1 /\ Len(posted) \in Nat
  BY <1>1
<1>3. queue \in Seq(Nat) /\ queue' = Append(queue, Len(posted')) /\ delivered' = delivered
  BY DEF Posts, DeliveryTypes
<1>4. queue' \in Seq(Nat)
  BY <1>2, <1>3
<1>5. Len(queue') = Len(queue) + 1 /\ Len(queue) \in Nat
  BY <1>3
<1>6. /\ \A i \in 1 .. Len(queue) : queue'[i] = queue[i]
      /\ queue'[Len(queue) + 1] = Len(posted')
  BY <1>3
<1> QED  BY <1>2, <1>3, <1>4, <1>5, <1>6 DEF DeliveryTypes

\* What a request that runs leaves waiting, and adds to what was handed over.
LEMMA HandsLeaves ==
  ASSUME DeliveryTypes, header.binary \in BOOLEAN, NEW i \in 1 .. Len(queue), Hands(i)
  PROVE  /\ DeliveryTypes'
         /\ posted' = posted
         /\ Len(queue') = Len(queue) - 1 /\ Len(queue) \in Nat
         /\ \A j \in 1 .. (Len(queue) - 1) :
              queue'[j] = queue[IF j < i THEN j ELSE j + 1]
         /\ Len(delivered') = Len(delivered) + 1 /\ Len(delivered) \in Nat
         /\ \A j \in 1 .. Len(delivered) : delivered'[j] = delivered[j]
         /\ delivered'[Len(delivered) + 1].message = queue[i]
<1>1. /\ queue \in Seq(Nat) /\ delivered \in Seq(Handed)
      /\ queue' = RemoveAt(queue, i) /\ posted' = posted
  BY DEF Hands, DeliveryTypes
<1>2. /\ queue' \in Seq(Nat) /\ Len(queue') = Len(queue) - 1 /\ Len(queue) \in Nat
      /\ \A j \in 1 .. (Len(queue) - 1) : queue'[j] = queue[IF j < i THEN j ELSE j + 1]
  <2> DEFINE q == RemoveAt(queue, i)
  <2>1. /\ q \in Seq(Nat) /\ Len(q) = Len(queue) - 1
        /\ \A j \in 1 .. (Len(queue) - 1) : q[j] = queue[IF j < i THEN j ELSE j + 1]
    <3> HIDE DEF q
    <3>1. queue \in Seq(Nat)
      BY <1>1
    <3> QED  BY <3>1, RemoveAtIs DEF q
  <2>2. queue' = q /\ Len(queue) \in Nat
    BY <1>1
  <2> HIDE DEF q
  <2> QED  BY <2>1, <2>2
<1>3. PICK b \in BOOLEAN :
        delivered' = Append(delivered, [message |-> queue[i], binary |-> b])
  BY DEF Hands
<1> DEFINE d == [message |-> queue[i], binary |-> b]
<1>4. d \in Handed /\ d.message = queue[i]
  BY <1>1 DEF Handed
<1>5. delivered' = Append(delivered, d)
  BY <1>3
<1> HIDE DEF d
<1>6. /\ delivered' \in Seq(Handed)
      /\ Len(delivered') = Len(delivered) + 1 /\ Len(delivered) \in Nat
      /\ \A j \in 1 .. Len(delivered) : delivered'[j] = delivered[j]
      /\ delivered'[Len(delivered) + 1] = d
  BY <1>1, <1>4, <1>5
<1>7. Len(posted') = Len(queue') + Len(delivered')
  <2>1. Len(posted) = Len(queue) + Len(delivered)
    BY DEF DeliveryTypes
  <2>2. /\ Len(posted') = Len(posted)
        /\ Len(queue') = Len(queue) - 1 /\ Len(queue) \in Nat
        /\ Len(delivered') = Len(delivered) + 1 /\ Len(delivered) \in Nat
    BY <1>1, <1>2, <1>6
  <2> QED  BY <2>1, <2>2
<1>8. DeliveryTypes'
  BY <1>2, <1>6, <1>7 DEF DeliveryTypes
<1> QED  BY <1>1, <1>2, <1>4, <1>6, <1>8

\* What the data path gives.
PathTypes == posted \in Seq([size : Nat, chunks : Nat]) /\ header.binary \in BOOLEAN

\* A message that is posted is new (read_chunk, ws_session.cpp:200).
LEMMA DeliveryPosts ==
  ASSUME DeliveryInv, PathTypes, Posts
  PROVE  DeliveryInv'
<1> DEFINE n == Len(queue)
           l == Len(posted)
<1>1. /\ DeliveryTypes' /\ delivered' = delivered
      /\ Len(posted') = l + 1 /\ l \in Nat
      /\ Len(queue') = n + 1 /\ n \in Nat
      /\ \A i \in 1 .. n : queue'[i] = queue[i]
      /\ queue'[n + 1] = l + 1
  BY PostsLeaves DEF DeliveryInv, PathTypes
<1>2. DOMAIN queue = 1 .. n /\ DOMAIN queue' = 1 .. (n + 1)
  BY <1>1 DEF DeliveryInv, DeliveryTypes
<1>3. /\ \A i \in 1 .. n : queue[i] \in 1 .. l
      /\ \A i \in DOMAIN delivered : delivered[i].message \in 1 .. l
      /\ \A m \in 1 .. l : \/ \E i \in 1 .. n : queue[i] = m
                           \/ \E i \in DOMAIN delivered : delivered[i].message = m
  BY <1>2 DEF DeliveryInv
<1> HIDE DEF n, l
<1>4. \A i \in 1 .. (n + 1) : queue'[i] \in 1 .. (l + 1)
  <2> SUFFICES ASSUME NEW i \in 1 .. (n + 1) PROVE queue'[i] \in 1 .. (l + 1)
    OBVIOUS
  <2>1. CASE i \in 1 .. n
    BY <1>1, <1>3, <2>1
  <2>2. CASE i = n + 1
    BY <1>1, <2>2
  <2> QED  BY <1>1, <2>1, <2>2
<1>5. \A i \in DOMAIN delivered : delivered[i].message \in 1 .. (l + 1)
  BY <1>1, <1>3
<1>6. ASSUME NEW m \in 1 .. (l + 1)
      PROVE  \/ \E i \in 1 .. (n + 1) : queue'[i] = m
             \/ \E i \in DOMAIN delivered : delivered[i].message = m
  <2>1. CASE m = l + 1
    BY <1>1, <2>1
  <2>2. CASE m \in 1 .. l
    <3>1. CASE \E i \in DOMAIN delivered : delivered[i].message = m
      BY <3>1
    <3>2. CASE \E i \in 1 .. n : queue[i] = m
      <4>1. PICK i \in 1 .. n : queue[i] = m
        BY <3>2
      <4>2. i \in 1 .. (n + 1) /\ queue'[i] = m
        BY <1>1, <4>1
      <4> QED  BY <4>2
    <3> QED  BY <1>3, <2>2, <3>1, <3>2
  <2> QED  BY <1>1, <2>1, <2>2
<1> QED  BY <1>1, <1>2, <1>4, <1>5, <1>6 DEF DeliveryInv

\* A request that runs is no longer waiting (request, ws_session.cpp:210).
LEMMA DeliveryHands ==
  ASSUME DeliveryInv, PathTypes, NEW i \in 1 .. Len(queue), Hands(i)
  PROVE  DeliveryInv'
<1> DEFINE n == Len(queue)
           k == Len(delivered)
           l == Len(posted)
<1>1. /\ DeliveryTypes' /\ posted' = posted
      /\ Len(queue') = n - 1 /\ n \in Nat
      /\ \A j \in 1 .. (n - 1) : queue'[j] = queue[IF j < i THEN j ELSE j + 1]
      /\ Len(delivered') = k + 1 /\ k \in Nat
      /\ \A j \in 1 .. k : delivered'[j] = delivered[j]
      /\ delivered'[k + 1].message = queue[i]
  BY HandsLeaves DEF DeliveryInv, PathTypes
<1>2. /\ DOMAIN queue = 1 .. n /\ DOMAIN queue' = 1 .. (n - 1)
      /\ DOMAIN delivered = 1 .. k /\ DOMAIN delivered' = 1 .. (k + 1)
  BY <1>1 DEF DeliveryInv, DeliveryTypes
<1>3. /\ \A j \in 1 .. n : queue[j] \in 1 .. l
      /\ \A j \in 1 .. k : delivered[j].message \in 1 .. l
      /\ \A m \in 1 .. l : \/ \E j \in 1 .. n : queue[j] = m
                           \/ \E j \in 1 .. k : delivered[j].message = m
  BY <1>2 DEF DeliveryInv
<1>4. Len(posted') = l /\ i \in 1 .. n
  BY <1>1
<1> HIDE DEF n, k, l
<1>5. \A j \in 1 .. (n - 1) : queue'[j] \in 1 .. l
  <2> SUFFICES ASSUME NEW j \in 1 .. (n - 1) PROVE queue'[j] \in 1 .. l
    OBVIOUS
  <2>1. (IF j < i THEN j ELSE j + 1) \in 1 .. n
    BY <1>1
  <2> QED  BY <1>1, <1>3, <2>1
<1>6. \A j \in 1 .. (k + 1) : delivered'[j].message \in 1 .. l
  <2> SUFFICES ASSUME NEW j \in 1 .. (k + 1) PROVE delivered'[j].message \in 1 .. l
    OBVIOUS
  <2>1. CASE j \in 1 .. k
    BY <1>1, <1>3, <2>1
  <2>2. CASE j = k + 1
    BY <1>1, <1>3, <1>4, <2>2
  <2> QED  BY <1>1, <2>1, <2>2
<1>7. ASSUME NEW m \in 1 .. l
      PROVE  \/ \E j \in 1 .. (n - 1) : queue'[j] = m
             \/ \E j \in 1 .. (k + 1) : delivered'[j].message = m
  <2>1. CASE \E j \in 1 .. k : delivered[j].message = m
    <3>1. PICK j \in 1 .. k : delivered[j].message = m
      BY <2>1
    <3>2. j \in 1 .. (k + 1) /\ delivered'[j].message = m
      BY <1>1, <3>1
    <3> QED  BY <3>2
  <2>2. CASE queue[i] = m
    BY <1>1, <2>2
  <2>3. CASE \E j \in 1 .. n : queue[j] = m /\ j # i
    <3>1. PICK j \in 1 .. n : queue[j] = m /\ j # i
      BY <2>3
    <3>2. CASE j < i
      <4>1. j \in 1 .. (n - 1) /\ queue'[j] = m
        BY <1>1, <1>4, <3>1, <3>2
      <4> QED  BY <4>1
    <3>3. CASE j > i
      <4>1. j - 1 \in 1 .. (n - 1) /\ ~(j - 1 < i) /\ (j - 1) + 1 = j
        BY <1>1, <1>4, <3>1, <3>3
      <4>2. queue'[j - 1] = m
        BY <1>1, <3>1, <4>1
      <4> QED  BY <4>1, <4>2
    <3> QED  BY <1>1, <1>4, <3>1, <3>2, <3>3
  <2> QED  BY <1>3, <2>1, <2>2, <2>3
<1> QED  BY <1>1, <1>2, <1>4, <1>5, <1>6, <1>7 DEF DeliveryInv

\* The same for the order of one thread, which takes the first of the queue.
LEMMA OrderPosts ==
  ASSUME OrderInv, PathTypes, Posts
  PROVE  OrderInv'
<1> DEFINE n == Len(queue)
           k == Len(delivered)
<1>1. /\ DeliveryTypes' /\ delivered' = delivered
      /\ Len(posted') = n + k + 1
      /\ Len(queue') = n + 1 /\ n \in Nat /\ k \in Nat
      /\ \A i \in 1 .. n : queue'[i] = queue[i]
      /\ queue'[n + 1] = n + k + 1
  <2>1. DeliveryTypes /\ posted \in Seq([size : Nat, chunks : Nat])
    BY DEF OrderInv, PathTypes
  <2>2. Len(posted) = n + k /\ k \in Nat
    BY <2>1 DEF DeliveryTypes
  <2> QED  BY <2>1, <2>2, PostsLeaves
<1>2. DOMAIN queue = 1 .. n /\ DOMAIN queue' = 1 .. (n + 1)
  BY <1>1 DEF OrderInv, DeliveryTypes
<1>3. \A i \in 1 .. n : queue[i] = k + i
  BY <1>2 DEF OrderInv
<1>4. Len(delivered') = k
  BY <1>1
<1> HIDE DEF n, k
<1>5. \A i \in 1 .. (n + 1) : queue'[i] = k + i
  <2> SUFFICES ASSUME NEW i \in 1 .. (n + 1) PROVE queue'[i] = k + i
    OBVIOUS
  <2>1. CASE i \in 1 .. n
    BY <1>1, <1>3, <2>1
  <2>2. CASE i = n + 1
    BY <1>1, <2>2
  <2> QED  BY <1>1, <2>1, <2>2
<1> QED  BY <1>1, <1>2, <1>4, <1>5 DEF OrderInv

\* With one io thread the request that runs is the oldest.
LEMMA OrderHands ==
  ASSUME OrderInv, PathTypes, Threads = 1, NEW i \in 1 .. Len(queue), Hands(i)
  PROVE  OrderInv'
<1> DEFINE n == Len(queue)
           k == Len(delivered)
<1>1. i = 1
  BY DEF Hands
<1>2. /\ DeliveryTypes'
      /\ Len(queue') = n - 1 /\ n \in Nat
      /\ \A j \in 1 .. (n - 1) : queue'[j] = queue[j + 1]
      /\ Len(delivered') = k + 1 /\ k \in Nat
      /\ \A j \in 1 .. k : delivered'[j] = delivered[j]
      /\ delivered'[k + 1].message = queue[1]
  BY <1>1, HandsLeaves DEF OrderInv, PathTypes
<1>3. /\ DOMAIN queue = 1 .. n /\ DOMAIN queue' = 1 .. (n - 1)
      /\ DOMAIN delivered = 1 .. k /\ DOMAIN delivered' = 1 .. (k + 1)
  BY <1>2 DEF OrderInv, DeliveryTypes
<1>4. /\ \A j \in 1 .. n : queue[j] = k + j
      /\ \A j \in 1 .. k : delivered[j].message = j
      /\ 1 \in 1 .. n
  BY <1>1, <1>3 DEF OrderInv
<1> HIDE DEF n, k
<1>5. \A j \in 1 .. (n - 1) : queue'[j] = (k + 1) + j
  BY <1>2, <1>4
<1>6. \A j \in 1 .. (k + 1) : delivered'[j].message = j
  <2> SUFFICES ASSUME NEW j \in 1 .. (k + 1) PROVE delivered'[j].message = j
    OBVIOUS
  <2>1. CASE j \in 1 .. k
    BY <1>2, <1>4, <2>1
  <2>2. CASE j = k + 1
    BY <1>2, <1>4, <2>2
  <2> QED  BY <1>2, <2>1, <2>2
<1> QED  BY <1>2, <1>3, <1>5, <1>6 DEF OrderInv

\* Nothing has been posted when a session begins.
LEMMA DeliveryStarts == SessionInit => DeliveryInv /\ OrderInv
<1> SUFFICES ASSUME SessionInit PROVE DeliveryInv /\ OrderInv
  OBVIOUS
<1>1. queue = << >> /\ delivered = << >> /\ posted = << >>
  BY DEF SessionInit, GatherInit
<1>2. DeliveryTypes /\ DOMAIN queue = {} /\ DOMAIN delivered = {} /\ 1 .. Len(posted) = {}
  BY <1>1 DEF DeliveryTypes
<1> QED  BY <1>2 DEF DeliveryInv, OrderInv

\* Other steps leave requests alone.
LEMMA DeliveryPasses ==
  ASSUME Passes
  PROVE  (DeliveryInv => DeliveryInv') /\ (OrderInv => OrderInv')
BY DEF Passes, DeliveryInv, OrderInv, DeliveryTypes

\* What is proved of the data path holds here.
LEMMA PathTypesHold == SessionSafety => []PathTypes
<1>1. GatherTypeOK => PathTypes
  BY DEF GatherTypeOK, HeaderType, PathTypes
<1> QED  BY <1>1, SessionDrivesGather, GatherTypes, PTL DEF DataPathIsGather
-----------------------------------------------------------------------------
\* Whatever becomes of the session, and however many threads take requests in whichever
\* order: a message that is posted waits or has been handed over, once
\* (ws_session.cpp:200-202).
THEOREM EachMessageOnce == SessionSafety => []EveryMessageOnce
<1>1. SessionInit => DeliveryInv
  BY DeliveryStarts
<1>2. PathTypes /\ DeliveryInv /\ [SessionNext]_sessionVars => DeliveryInv'
  BY DeliveryKinds, DeliveryPosts, DeliveryHands, DeliveryPasses
<1>3. PathTypes /\ DeliveryInv => EveryMessageOnce
  <2> SUFFICES ASSUME PathTypes, DeliveryInv PROVE EveryMessageOnce
    OBVIOUS
  <2> DEFINE done == [i \in DOMAIN delivered |-> delivered[i].message]
             all  == queue \o done
             n    == Len(queue)
             k    == Len(delivered)
  <2>1. queue \in Seq(Nat) /\ delivered \in Seq(Handed) /\ Len(posted) = n + k
    BY DEF DeliveryInv, DeliveryTypes
  <2>2. n \in Nat /\ k \in Nat /\ DOMAIN queue = 1 .. n /\ DOMAIN delivered = 1 .. k
    BY <2>1
  <2>3. done \in Seq(Nat) /\ Len(done) = k
    <3>1. \A i \in 1 .. k : delivered[i].message \in Nat
      <4>1. \A i \in 1 .. k : delivered[i] \in Handed
        BY <2>1, <2>2
      <4> QED  BY <4>1 DEF Handed
    <3>2. done \in [1 .. k -> Nat]
      BY <2>2, <3>1
    <3> QED  BY <2>2, <3>2
  <2>4. \A i \in 1 .. k : done[i] = delivered[i].message
    BY <2>2
  <2>5. DOMAIN posted = 1 .. Len(posted)
    BY DEF PathTypes
  <2> HIDE DEF done
  <2>6. /\ Len(all) = n + k /\ DOMAIN all = 1 .. (n + k)
        /\ \A i \in 1 .. n : all[i] = queue[i]
        /\ \A i \in (n + 1) .. (n + k) : all[i] = done[i - n]
    <3>1. queue \in Seq(Nat) /\ done \in Seq(Nat) /\ Len(queue) = n /\ Len(done) = k
      BY <2>1, <2>3
    <3> HIDE DEF n, k
    <3>2. \A s, t \in Seq(Nat) :
            /\ Len(s \o t) = Len(s) + Len(t) /\ DOMAIN (s \o t) = 1 .. (Len(s) + Len(t))
            /\ \A i \in 1 .. Len(s) : (s \o t)[i] = s[i]
            /\ \A i \in (Len(s) + 1) .. (Len(s) + Len(t)) : (s \o t)[i] = t[i - Len(s)]
      OBVIOUS
    <3> QED  BY ONLY <3>1, <3>2 DEF all
  <2> HIDE DEF all, n, k
  <2>7. ASSUME NEW i \in 1 .. (n + k) PROVE all[i] \in 1 .. Len(posted)
    <3>1. CASE i \in 1 .. n
      BY <2>2, <2>6, <3>1 DEF DeliveryInv
    <3>2. CASE i \in (n + 1) .. (n + k)
      <4>1. i - n \in 1 .. k
        BY <2>2, <3>2
      <4> QED  BY <2>2, <2>4, <2>6, <3>2, <4>1 DEF DeliveryInv
    <3> QED  BY <2>2, <3>1, <3>2
  <2>8. ASSUME NEW m \in 1 .. Len(posted) PROVE \E i \in 1 .. (n + k) : all[i] = m
    <3>1. CASE \E i \in 1 .. n : queue[i] = m
      <4>1. PICK i \in 1 .. n : queue[i] = m
        BY <3>1
      <4>2. i \in 1 .. (n + k) /\ all[i] = m
        BY <2>2, <2>6, <4>1
      <4> QED  BY <4>2
    <3>2. CASE \E i \in 1 .. k : delivered[i].message = m
      <4>1. PICK i \in 1 .. k : delivered[i].message = m
        BY <3>2
      <4>2. i + n \in (n + 1) .. (n + k) /\ (i + n) - n = i
        BY <2>2, <4>1
      <4>3. i + n \in 1 .. (n + k) /\ all[i + n] = m
        BY <2>2, <2>4, <2>6, <4>1, <4>2
      <4> QED  BY <4>3
    <3> QED  BY <2>2, <3>1, <3>2 DEF DeliveryInv
  <2>9. {all[i] : i \in DOMAIN all} = DOMAIN posted
    BY <2>5, <2>6, <2>7, <2>8
  <2> QED  BY <2>1, <2>6, <2>9 DEF EveryMessageOnce, done, all
<1> QED  BY <1>1, <1>2, <1>3, PathTypesHold, PTL DEF SessionSafety

\* How far a message is ahead of its turn: those before it in the queue, and those that
\* were overtaken before, all of them held by a thread.
AheadInv == /\ DeliveryTypes
            /\ \A i \in DOMAIN queue : queue[i] <= Len(delivered) + i
            /\ FewAhead

\* A message that is posted is the last of all.
LEMMA AheadPosts ==
  ASSUME AheadInv, PathTypes, Posts
  PROVE  AheadInv'
<1> DEFINE n == Len(queue)
           k == Len(delivered)
<1>1. /\ DeliveryTypes' /\ delivered' = delivered
      /\ Len(posted') = n + k + 1
      /\ Len(queue') = n + 1 /\ n \in Nat /\ k \in Nat
      /\ \A i \in 1 .. n : queue'[i] = queue[i]
      /\ queue'[n + 1] = n + k + 1
  <2>1. DeliveryTypes /\ posted \in Seq([size : Nat, chunks : Nat])
    BY DEF AheadInv, PathTypes
  <2>2. Len(posted) = n + k /\ k \in Nat
    BY <2>1 DEF DeliveryTypes
  <2> QED  BY <2>1, <2>2, PostsLeaves
<1>2. DOMAIN queue = 1 .. n /\ DOMAIN queue' = 1 .. (n + 1)
  BY <1>1 DEF AheadInv, DeliveryTypes
<1>3. \A i \in 1 .. n : queue[i] <= k + i
  BY <1>2 DEF AheadInv
<1>4. Len(delivered') = k /\ FewAhead'
  BY <1>1 DEF AheadInv, FewAhead
<1> HIDE DEF n, k
<1>5. \A i \in 1 .. (n + 1) : queue'[i] <= k + i
  <2> SUFFICES ASSUME NEW i \in 1 .. (n + 1) PROVE queue'[i] <= k + i
    OBVIOUS
  <2>1. CASE i \in 1 .. n
    BY <1>1, <1>3, <2>1
  <2>2. CASE i = n + 1
    BY <1>1, <2>2
  <2> QED  BY <1>1, <2>1, <2>2
<1> QED  BY <1>1, <1>2, <1>4, <1>5 DEF AheadInv

\* A request that runs leaves those it overtakes no further ahead than they were.
LEMMA AheadHands ==
  ASSUME AheadInv, PathTypes, NEW i \in 1 .. Len(queue), Hands(i)
  PROVE  AheadInv'
<1> DEFINE n == Len(queue)
           k == Len(delivered)
<1>1. /\ DeliveryTypes' /\ n \in Nat
      /\ Len(queue') = n - 1
      /\ \A j \in 1 .. (n - 1) : queue'[j] = queue[IF j < i THEN j ELSE j + 1]
      /\ Len(delivered') = k + 1 /\ k \in Nat
      /\ \A j \in 1 .. k : delivered'[j] = delivered[j]
      /\ delivered'[k + 1].message = queue[i]
  BY HandsLeaves DEF AheadInv, PathTypes
<1>2. /\ DOMAIN queue = 1 .. n /\ DOMAIN queue' = 1 .. (n - 1)
      /\ DOMAIN delivered = 1 .. k /\ DOMAIN delivered' = 1 .. (k + 1)
      /\ \A j \in 1 .. n : queue[j] \in Nat
  BY <1>1 DEF AheadInv, DeliveryTypes
<1>3. /\ \A j \in 1 .. n : queue[j] <= k + j
      /\ \A j \in 1 .. k : delivered[j].message <= j + (Threads - 1)
  BY <1>2 DEF AheadInv, FewAhead
<1>4. i \in 1 .. n /\ i <= Threads /\ Threads \in Nat
  BY SessionAssumption DEF Hands
<1> HIDE DEF n, k
<1>5. ASSUME NEW j \in 1 .. (n - 1) PROVE queue'[j] <= (k + 1) + j
  <2>1. CASE j < i
    <3>1. j \in 1 .. n /\ queue'[j] = queue[j]
      BY <1>1, <2>1
    <3> QED  BY <1>1, <1>2, <1>3, <3>1
  <2>2. CASE ~(j < i)
    <3>1. j + 1 \in 1 .. n /\ queue'[j] = queue[j + 1]
      BY <1>1, <2>2
    <3>2. queue[j + 1] <= k + (j + 1) /\ queue[j + 1] \in Nat
      BY <1>2, <1>3, <3>1
    <3> QED  BY <1>1, <3>1, <3>2
  <2> QED  BY <2>1, <2>2
<1>6. ASSUME NEW j \in 1 .. (k + 1) PROVE delivered'[j].message <= j + (Threads - 1)
  <2>1. CASE j \in 1 .. k
    BY <1>1, <1>3, <2>1
  <2>2. CASE j = k + 1
    <3>1. delivered'[j].message = queue[i] /\ queue[i] <= k + i /\ queue[i] \in Nat
      BY <1>1, <1>2, <1>3, <1>4, <2>2
    <3> QED  BY <1>1, <1>4, <2>2, <3>1
  <2> QED  BY <1>1, <2>1, <2>2
<1>7. FewAhead'
  BY <1>2, <1>6 DEF FewAhead
<1> QED  BY <1>1, <1>2, <1>5, <1>7 DEF AheadInv

\* For any number of io threads: a message is handed over ahead of its turn by fewer
\* messages than there are threads, whatever reads, control frames and broadcasts come
\* between (ws_session.cpp:200-205, 211).
THEOREM FewRequestsAhead == SessionSafety => []FewAhead
<1>1. SessionInit => AheadInv
  <2> SUFFICES ASSUME SessionInit PROVE AheadInv
    OBVIOUS
  <2>1. queue = << >> /\ delivered = << >>
    BY DEF SessionInit
  <2>2. DOMAIN queue = {} /\ DOMAIN delivered = {}
    BY <2>1
  <2> QED  BY <2>2, DeliveryStarts DEF AheadInv, OrderInv, FewAhead
<1>2. PathTypes /\ AheadInv /\ [SessionNext]_sessionVars => AheadInv'
  <2>1. ASSUME AheadInv, Passes PROVE AheadInv'
    BY <2>1 DEF Passes, AheadInv, DeliveryTypes, FewAhead
  <2> QED  BY <2>1, DeliveryKinds, AheadPosts, AheadHands
<1>3. AheadInv => FewAhead
  BY DEF AheadInv
<1> QED  BY <1>1, <1>2, <1>3, PathTypesHold, PTL DEF SessionSafety
-----------------------------------------------------------------------------
Meant == [binary : BOOLEAN, fragmented : BOOLEAN]

\* header_ has the type of message m, unless m is fragmented.
Keeps(m) == messages[m].fragmented \/ header.binary = messages[m].binary

\* With one thread header_ is that of the message under way and, when that is posted, of
\* the message in the queue, since no header comes in before its request has run.
TypeInv == /\ OrderInv
           /\ messages \in Seq(Meant)
           /\ Len(posted) <= Len(messages)
           /\ phase = "header" /\ newRequest => Len(messages) = Len(posted)
           /\ phase = "header" /\ ~newRequest =>
                Len(messages) = Len(posted) + 1 /\ messages[Len(posted) + 1].fragmented
           /\ phase = "payload" =>
                /\ Len(messages) = Len(posted) + 1
                /\ Keeps(Len(posted) + 1)
                /\ header.fin \/ messages[Len(posted) + 1].fragmented
           /\ Len(queue) <= 1
           /\ Len(queue) = 1 => Keeps(Len(posted))
           /\ WholeKeepsType

\* A read of message Len(posted) + 1, whose type the header h is right about.
LEMMA ChunkKeeps ==
  ASSUME TypeInv, PathTypes, Threads = 1, UNCHANGED delivered,
         NEW done, NEW h, NEW g, NEW b, NEW n, ReadChunk(h, g, b, n), AfterChunk(done),
         messages' \in Seq(Meant), Len(messages') = Len(posted) + 1,
         \A i \in 1 .. Len(posted) : messages'[i] = messages[i],
         \/ messages'[Len(posted) + 1].fragmented
         \/ h.binary = messages'[Len(posted) + 1].binary,
         h.fin \/ messages'[Len(posted) + 1].fragmented
  PROVE  TypeInv'
<1> DEFINE l == Len(posted)
<1>1. queue = << >>
  BY DEF AfterChunk, CancelSocket, ReadCompletes
<1>2. OrderInv'
  <2>1. Posts \/ Passes
    BY ChunkPosts
  <2> QED  BY <2>1, OrderPosts, DeliveryPasses DEF TypeInv
<1>3. l \in Nat /\ Len(delivered) = l /\ DOMAIN delivered = 1 .. l
  BY <1>1 DEF TypeInv, OrderInv, DeliveryTypes
<1>4. header' = h /\ newRequest' = h.fin
  BY DEF ReadChunk
<1>5. messages'[l + 1].fragmented \/ header'.binary = messages'[l + 1].binary
  BY <1>4
<1>6. WholeKeepsType'
  <2> SUFFICES ASSUME NEW i \in 1 .. l
               PROVE  \/ messages'[delivered[i].message].fragmented
                      \/ delivered[i].binary = messages'[delivered[i].message].binary
    BY <1>3 DEF WholeKeepsType
  <2>1. delivered[i].message = i
    BY <1>3 DEF TypeInv, OrderInv
  <2>2. messages[i].fragmented \/ delivered[i].binary = messages[i].binary
    BY <1>3, <2>1 DEF TypeInv, WholeKeepsType
  <2> QED  BY <2>1, <2>2
<1>7. CASE phase' = "stopped" /\ UNCHANGED <<posted, queue>>
  BY <1>1, <1>2, <1>3, <1>6, <1>7 DEF TypeInv
<1>8. CASE phase' = "payload" /\ UNCHANGED <<posted, queue>>
  BY <1>1, <1>2, <1>3, <1>4, <1>5, <1>6, <1>8 DEF TypeInv, Keeps
<1>9. CASE phase' = "header" /\ ~newRequest' /\ UNCHANGED <<posted, queue>>
  <2>1. messages'[l + 1].fragmented
    BY <1>4, <1>9
  <2>2. Len(queue') = 0 /\ Len(posted') = l
    BY <1>1, <1>9
  <2>3. ~(Len(queue') = 1) /\ Len(queue') <= 1
    BY <2>2
  <2>4. /\ Len(posted') <= Len(messages') /\ Len(messages') = Len(posted') + 1
        /\ messages'[Len(posted') + 1].fragmented
    BY <1>3, <2>1, <2>2
  <2>5. phase' = "header" /\ ~newRequest' /\ phase' # "payload"
    BY <1>9
  <2> QED  BY <1>2, <1>6, <2>3, <2>4, <2>5 DEF TypeInv
<1>10. CASE phase' = "header" /\ newRequest' /\ \E m : posted' = Append(posted, m)
  <2>1. Len(posted') = l + 1
    BY <1>10 DEF PathTypes
  <2>2. queue' = <<l + 1>>
    BY <1>1, <1>10, <2>1 DEF AfterChunk
  <2>3. Len(queue') = 1
    BY <2>2
  <2>4. Keeps(Len(posted))'
    BY <1>5, <2>1 DEF Keeps
  <2> QED  BY <1>2, <1>3, <1>6, <1>10, <2>1, <2>3, <2>4 DEF TypeInv
<1> QED  BY <1>7, <1>8, <1>9, <1>10, ReadChunkPosts DEF AfterChunk

\* A data frame, whose header becomes header_.
LEMMA SecondKeeps ==
  ASSUME TypeInv, PathTypes, Threads = 1, HandleSecond,
         Frame(temp.size, temp.fin, temp.opcode, temp.unmasked), AfterChunk("second"),
         messages' = IF newRequest
                     THEN Append(messages, [binary |-> temp.opcode = 2,
                                            fragmented |-> ~temp.fin])
                     ELSE messages
  PROVE  TypeInv'
<1> DEFINE h == [fin |-> temp.fin, binary |-> temp.opcode = 2, unmasked |-> temp.unmasked]
           m == [binary |-> temp.opcode = 2, fragmented |-> ~temp.fin]
           l == Len(posted)
<1>1. /\ phase = "header" /\ UNCHANGED delivered
      /\ ReadChunk(h, GatherMore(MessageGather, temp.size), MessageBuffer, 0)
  BY DEF Frame, HandleSecond
<1>2. h.fin = temp.fin /\ h.binary = (temp.opcode = 2)
  OBVIOUS
<1>3. m \in Meant /\ m.binary = (temp.opcode = 2) /\ m.fragmented = ~temp.fin
  BY DEF Meant
<1>4. messages \in Seq(Meant) /\ Len(posted) \in Nat
  BY DEF TypeInv, PathTypes
<1> HIDE DEF h, m
<1>5. CASE newRequest
  <2>1. Len(messages) = l /\ messages' = Append(messages, m)
    BY <1>1, <1>5 DEF TypeInv, m
  <2>2. /\ messages' \in Seq(Meant) /\ Len(messages') = l + 1
        /\ \A i \in 1 .. l : messages'[i] = messages[i]
        /\ messages'[l + 1] = m
    BY <1>3, <1>4, <2>1
  <2>3. h.binary = messages'[l + 1].binary /\ (h.fin \/ messages'[l + 1].fragmented)
    BY <1>2, <1>3, <2>2
  <2> QED  BY <1>1, <2>2, <2>3, ChunkKeeps
<1>6. CASE ~newRequest
  <2>1. messages' = messages /\ Len(messages) = l + 1 /\ messages[l + 1].fragmented
    BY <1>1, <1>6 DEF TypeInv
  <2> QED  BY <1>1, <1>4, <2>1, ChunkKeeps
<1> QED  BY <1>5, <1>6

\* With one io thread a payload is handled while header_ is that of its message.
LEMMA PayloadKeeps ==
  ASSUME TypeInv, PathTypes, Threads = 1, HandlePayload
  PROVE  TypeInv'
<1> DEFINE l == Len(posted)
<1>1. /\ phase = "payload" /\ ReadChunk(header, gather, buffer, gather.next)
      /\ AfterChunk("payload") /\ UNCHANGED <<delivered, messages>>
  BY DEF HandlePayload, ChunkRead
<1>2. /\ messages \in Seq(Meant) /\ Len(messages) = l + 1
      /\ messages[l + 1].fragmented \/ header.binary = messages[l + 1].binary
      /\ header.fin \/ messages[l + 1].fragmented
  BY <1>1 DEF TypeInv, Keeps
<1> QED  BY <1>1, <1>2, ChunkKeeps

\* The request takes the type of the header that is still its message's.
LEMMA HandsKeeps ==
  ASSUME TypeInv, PathTypes, Threads = 1, NEW i \in 1 .. Len(queue), Hands(i),
         UNCHANGED <<phase, newRequest, header, messages>>
  PROVE  TypeInv'
<1> DEFINE k == Len(delivered)
<1>1. OrderInv'
  BY OrderHands DEF TypeInv
<1>2. /\ Len(queue) = 1 /\ i = 1 /\ k \in Nat /\ Len(posted) = k + 1
      /\ DOMAIN delivered = 1 .. k
  <2>1. /\ queue \in Seq(Nat) /\ delivered \in Seq(Handed)
        /\ Len(posted) = Len(queue) + k /\ Len(queue) <= 1
    BY DEF TypeInv, OrderInv, DeliveryTypes
  <2>2. Len(queue) \in Nat /\ i \in 1 .. Len(queue)
    BY <2>1
  <2>3. Len(queue) = 1 /\ i = 1
    <3>1. Len(queue) <= 1
      BY <2>1
    <3>2. \A n \in Nat : n <= 1 => \A j \in 1 .. n : n = 1 /\ j = 1
      OBVIOUS
    <3> QED  BY ONLY <2>2, <3>1, <3>2
  <2> QED  BY <2>1, <2>3
<1>3. queue[1] = k + 1
  BY <1>2 DEF TypeInv, OrderInv
<1>4. /\ Len(queue') = 0 /\ posted' = posted /\ DOMAIN delivered' = 1 .. (k + 1)
      /\ \A j \in 1 .. k : delivered'[j] = delivered[j]
  <2>1. DeliveryTypes
    BY DEF TypeInv, OrderInv
  <2>2. /\ DeliveryTypes' /\ posted' = posted /\ Len(queue') = Len(queue) - 1
        /\ Len(delivered') = k + 1 /\ \A j \in 1 .. k : delivered'[j] = delivered[j]
    BY <2>1, HandsLeaves DEF PathTypes
  <2>3. DOMAIN delivered' = 1 .. Len(delivered')
    BY <2>2 DEF DeliveryTypes
  <2> QED  BY <1>2, <2>2, <2>3
<1>5. delivered'[k + 1] = [message |-> k + 1, binary |-> header.binary]
  BY <1>2, <1>3 DEF Hands, TypeInv, OrderInv, DeliveryTypes
<1>6. Keeps(k + 1)
  BY <1>2 DEF TypeInv
<1>7. WholeKeepsType'
  <2> SUFFICES ASSUME NEW j \in 1 .. (k + 1)
               PROVE  \/ messages[delivered'[j].message].fragmented
                      \/ delivered'[j].binary = messages[delivered'[j].message].binary
    BY <1>4 DEF WholeKeepsType
  <2>1. CASE j \in 1 .. k
    BY <1>2, <1>4, <2>1 DEF TypeInv, WholeKeepsType
  <2>2. CASE j = k + 1
    BY <1>5, <1>6, <2>2 DEF Keeps
  <2> QED  BY <1>2, <2>1, <2>2
<1> QED  BY <1>1, <1>2, <1>4, <1>7 DEF TypeInv, Keeps

\* Nothing the type depends on changes, except that the data path may stop.
LEMMA StopKeeps ==
  ASSUME TypeInv, UNCHANGED <<newRequest, header, posted, queue, delivered, messages>>,
         phase' = phase \/ phase' \in {"stopped", "undefined"}
  PROVE  TypeInv'
<1>1. OrderInv'
  BY DeliveryPasses DEF Passes, TypeInv
<1>2. WholeKeepsType' /\ \A m : Keeps(m) => Keeps(m)'
  BY DEF TypeInv, WholeKeepsType, Keeps
<1> QED  BY <1>1, <1>2 DEF TypeInv

\* With one io thread every step keeps a waiting request its type.
LEMMA TypeStep ==
  ASSUME TypeInv, PathTypes, Threads = 1, [SessionNext]_sessionVars
  PROVE  TypeInv'
<1>1. ASSUME NEW r \in Requests, HandleFirstRequest(r) PROVE TypeInv'
  BY <1>1, StopKeeps DEF HandleFirstRequest, Stop, gatherVars
<1>2. CASE Replied
  BY <1>2, StopKeeps DEF Replied, gatherVars
<1>3. ASSUME NEW f \in Headers, HandleFirst(f) PROVE TypeInv'
  BY <1>3, StopKeeps DEF HandleFirst, Stop, gatherVars
<1>4. CASE HandleSecond
  <2>1. CASE Stop /\ UNCHANGED <<queue, messages>>
    BY <1>4, <2>1, StopKeeps DEF HandleSecond, Stop
  <2>2. CASE StartControl
    BY <1>4, <2>2, StopKeeps DEF HandleSecond, StartControl, gatherVars
  <2> QED  BY <1>4, <2>1, <2>2, SecondKeeps DEF HandleSecond
<1>5. CASE HandlePayload
  BY <1>5, PayloadKeeps
<1>6. ASSUME NEW p \in ControlPayloads(CloseCodes), HandleControl(p) PROVE TypeInv'
  BY <1>6, StopKeeps DEF HandleControl, Stop, gatherVars
<1>7. ASSUME NEW k \in Reads \cup {"reply"}, LoopFails(k) PROVE TypeInv'
  BY <1>7, StopKeeps DEF LoopFails, Stop
<1>8. CASE CloseDone
  BY <1>8, StopKeeps DEF CloseDone, gatherVars
<1>9. ASSUME NEW k \in {"pong", "data"}, WriteDone(k) PROVE TypeInv'
  BY <1>9, StopKeeps DEF WriteDone, gatherVars
<1>10. CASE Broadcast \/ Write \/ UNCHANGED sessionVars
  BY <1>10, StopKeeps DEF Broadcast, Write, sessionVars, sessionOnly, gatherVars
<1>11. ASSUME NEW i \in 1 .. Len(queue), Request(i) PROVE TypeInv'
  BY <1>11, HandsKeeps DEF Request, gatherVars, Hands
<1>12. CASE HandleOverrun
  BY <1>12, StopKeeps DEF HandleOverrun, Overrun
<1> QED  BY <1>1, <1>2, <1>3, <1>4, <1>5, <1>6, <1>7, <1>8, <1>9, <1>10, <1>11, <1>12
         DEF SessionNext

\* With one io thread a message of one frame is handed over with its own type: header_ is
\* not overwritten while its request waits (ws_session.cpp:164, 201, 211).
THEOREM OneThreadKeepsType == ASSUME Threads = 1 PROVE SessionSafety => []WholeKeepsType
<1>1. SessionInit => TypeInv
  <2> SUFFICES ASSUME SessionInit PROVE TypeInv
    OBVIOUS
  <2>1. /\ queue = << >> /\ delivered = << >> /\ posted = << >> /\ messages = << >>
        /\ phase = "header" /\ newRequest = TRUE
    BY DEF SessionInit, GatherInit
  <2>2. OrderInv
    BY DeliveryStarts
  <2>3. /\ Len(queue) = 0 /\ Len(posted) = 0 /\ Len(messages) = 0 /\ DOMAIN delivered = {}
        /\ messages \in Seq(Meant)
    BY <2>1
  <2> QED  BY <2>1, <2>2, <2>3 DEF TypeInv, WholeKeepsType
<1>2. PathTypes /\ TypeInv /\ [SessionNext]_sessionVars => TypeInv'
  BY TypeStep
<1>3. TypeInv => WholeKeepsType
  BY DEF TypeInv
<1> QED  BY <1>1, <1>2, <1>3, PathTypesHold, PTL DEF SessionSafety
-----------------------------------------------------------------------------
CloseFrames == [code : Codes, length : Nat, written : Nat]

\* What is left of the session's types.
OwnTypes == /\ registered \in BOOLEAN /\ crashed \in BOOLEAN
            /\ temp \in FrameHeaders(0 .. 15, Nat)
            /\ closeFrame \in CloseFrames
            /\ broadcasts \in 0 .. MaxWrites /\ written \in 0 .. MaxWrites
            /\ broadcasts <= written
            /\ messages \in Seq(Meant)

\* The headers a session can meet are frame headers.
LEMMA HeadersAre == \A f \in Headers \cup {NewHeader} : f \in FrameHeaders(0 .. 15, Nat)
<1>1. PeerOpcodes \subseteq 0 .. 15 /\ ControlSizes \subseteq Nat
  <2>1. PeerOpcodes \subseteq 0 .. 15
    BY OpcodesAssumption
  <2>2. ControlSizes \subseteq Nat
    BY SessionAssumption
  <2> QED  BY <2>1, <2>2
<1>2. Payloads \subseteq Nat
  BY GatherAssumption
<1>3. NewHeader \in FrameHeaders(0 .. 15, Nat)
  BY DEF FrameHeaders, NewHeader
<1>4. ASSUME NEW f \in Headers PROVE f \in FrameHeaders(0 .. 15, Nat)
  <2>1. \/ f \in FrameHeaders(PeerOpcodes \ Control, Payloads)
        \/ f \in FrameHeaders(PeerOpcodes \cap Control, ControlSizes)
    BY DEF Headers
  <2>2. \A A \in SUBSET (0 .. 15), B \in SUBSET Nat :
          FrameHeaders(A, B) \subseteq FrameHeaders(0 .. 15, Nat)
    BY DEF FrameHeaders
  <2>3. (PeerOpcodes \ Control) \in SUBSET (0 .. 15)
          /\ (PeerOpcodes \cap Control) \in SUBSET (0 .. 15)
    BY <1>1
  <2> QED  BY <1>1, <1>2, <2>1, <2>2, <2>3
<1> QED  BY <1>3, <1>4

\* The codes a session closes with by itself fit in the two bytes of a code, and so do
\* those it answers with.
LEMMA CloseFramesAre ==
  ASSUME NEW f \in FrameHeaders(0 .. 15, Nat)
  PROVE  /\ \A p \in ControlPayloads(CloseCodes) :
              Closing(ProcessControl(f, p)) \in CloseFrames /\ Answering(f, p) \in CloseFrames
         /\ Closing(Process1(f)) \in CloseFrames
         /\ \A b \in BOOLEAN : Closing(Process2(f, b)) \in CloseFrames
         /\ Closing(1007) \in CloseFrames
<1>1. \A code \in {0, 1002, 1007} : Closing(code) \in CloseFrames
  <2>1. 0 \in Codes /\ 1002 \in Codes /\ 1007 \in Codes
    BY DEF Codes
  <2> QED  BY <2>1 DEF Closing, CloseFrames
<1>2. Process1(f) \in {0, 1002, 1007}
  BY DEF Process1
<1>3. \A b \in BOOLEAN : Process2(f, b) \in {0, 1002, 1007}
  BY DEF Process2
<1>4. ASSUME NEW p \in ControlPayloads(CloseCodes)
      PROVE  ProcessControl(f, p) \in {0, 1002, 1007} /\ Answering(f, p) \in CloseFrames
  <2>1. p.code \in Codes
    BY SessionAssumption DEF ControlPayloads
  <2>2. ReplyCode(p.code) \in Codes
    BY <2>1 DEF ReplyCode, Codes
  <2>3. f.size \in Nat
    BY DEF FrameHeaders
  <2>4. 0 \in Codes
    BY DEF Codes
  <2>5. Answering(f, p) \in CloseFrames
    BY <2>2, <2>3, <2>4 DEF Answering, CloseFrames
  <2>6. ProcessControl(f, p) \in {0, 1002, 1007}
    BY DEF ProcessControl
  <2> QED  BY <2>5, <2>6
<1> QED  BY <1>1, <1>2, <1>3, <1>4

\* Every step keeps the types of the variables of Session alone.
LEMMA OwnTypesStep ==
  ASSUME OwnTypes, newRequest \in BOOLEAN, [SessionNext]_sessionVars
  PROVE  OwnTypes'
<1> USE DEF OwnTypes
<1>1. ASSUME NEW done, AfterChunk(done)
      PROVE  /\ registered' = registered
             /\ temp' = temp \/ temp' = NewHeader
             /\ closeFrame' \in CloseFrames
  BY <1>1, CloseFramesAre DEF AfterChunk, CancelSocket
<1>2. ASSUME NEW r \in Requests, HandleFirstRequest(r) PROVE OwnTypes'
  BY <1>2 DEF HandleFirstRequest, Unregister
<1>3. CASE Replied
  BY <1>3, HeadersAre DEF Replied
<1>4. ASSUME NEW f \in Headers, HandleFirst(f) PROVE OwnTypes'
  <2>1. f \in FrameHeaders(0 .. 15, Nat)
    BY HeadersAre
  <2> QED  BY <1>4, <2>1, CloseFramesAre DEF HandleFirst, CancelSocket
<1>5. CASE HandleSecond
  <2>1. /\ UNCHANGED <<crashed, broadcasts, written, registered>>
        /\ temp' = temp \/ temp' = NewHeader
        /\ closeFrame' \in CloseFrames
    BY <1>1, <1>5, CloseFramesAre DEF HandleSecond, CancelSocket, StartControl
  <2>2. messages' \in Seq(Meant)
    <3> DEFINE m == [binary |-> temp.opcode = 2, fragmented |-> ~temp.fin]
    <3>1. m \in Meant
      BY DEF Meant
    <3>2. messages' = messages \/ messages' = Append(messages, m)
      BY <1>5 DEF HandleSecond, StartControl
    <3> HIDE DEF m
    <3> QED  BY <3>1, <3>2
  <2> QED  BY <2>1, <2>2, HeadersAre
<1>6. CASE HandlePayload
  BY <1>1, <1>6, HeadersAre DEF HandlePayload
<1>7. ASSUME NEW p \in ControlPayloads(CloseCodes), HandleControl(p) PROVE OwnTypes'
  <2>1. /\ UNCHANGED <<crashed, broadcasts, written, registered, messages>>
        /\ temp' = temp \/ temp' = NewHeader
    BY <1>7 DEF HandleControl, CancelSocket
  <2>2. \/ closeFrame' = closeFrame
        \/ closeFrame' = Closing(ProcessControl(temp, p))
        \/ closeFrame' = Answering(temp, p)
    BY <1>7 DEF HandleControl, CancelSocket
  <2>3. closeFrame' \in CloseFrames
    BY <2>2, CloseFramesAre
  <2> QED  BY <2>1, <2>3, HeadersAre
<1>8. ASSUME NEW k \in Reads \cup {"reply"}, LoopFails(k) PROVE OwnTypes'
  BY <1>8 DEF LoopFails, Unregister
<1>9. CASE CloseDone
  BY <1>9 DEF CloseDone, Unregister
<1>10. ASSUME NEW k \in {"pong", "data"}, WriteDone(k) PROVE OwnTypes'
  BY <1>10 DEF WriteDone
<1>11. CASE Broadcast
  <2>1. MaxWrites \in Nat
    BY SessionAssumption
  <2> QED  BY <1>11, <2>1 DEF Broadcast
<1>12. CASE Write
  <2>1. MaxWrites \in Nat
    BY SessionAssumption
  <2> QED  BY <1>12, <2>1 DEF Write
<1>13. ASSUME NEW i \in 1 .. Len(queue), Request(i) PROVE OwnTypes'
  BY <1>13 DEF Request
<1>14. CASE UNCHANGED sessionVars
  BY <1>14 DEF sessionVars, sessionOnly
<1>15. CASE HandleOverrun
  BY <1>15 DEF HandleOverrun
<1> QED  BY <1>2, <1>3, <1>4, <1>5, <1>6, <1>7, <1>8, <1>9, <1>10, <1>11, <1>12, <1>13,
            <1>14, <1>15
         DEF SessionNext

\* Every variable of a session has its type, its data path's included, for any number of
\* threads and any inputs: no count is negative, and no broadcast runs that was not posted.
THEOREM SessionTypes == SessionSafety => []SessionTypeOK
<1>1. SessionInit => OwnTypes
  <2> SUFFICES ASSUME SessionInit PROVE OwnTypes
    OBVIOUS
  <2>1. /\ registered = TRUE /\ crashed = FALSE /\ temp = NewHeader
        /\ broadcasts = 0 /\ written = 0 /\ messages = << >>
        /\ closeFrame = NoClose
    BY DEF SessionInit
  <2>2. MaxWrites \in Nat /\ 0 \in 0 .. MaxWrites
    BY SessionAssumption
  <2>3. temp \in FrameHeaders(0 .. 15, Nat)
    BY <2>1, HeadersAre
  <2>4. messages \in Seq(Meant)
    BY <2>1
  <2>5. broadcasts \in 0 .. MaxWrites /\ written \in 0 .. MaxWrites
    BY <2>1, <2>2
  <2>6. broadcasts <= written
    BY <2>1
  <2>7. closeFrame \in CloseFrames
    BY <2>1 DEF NoClose, CloseFrames, Codes
  <2> QED  BY <2>1, <2>3, <2>4, <2>5, <2>6, <2>7 DEF OwnTypes
<1>2. GatherTypeOK /\ OwnTypes /\ [SessionNext]_sessionVars => OwnTypes'
  BY OwnTypesStep DEF GatherTypeOK
<1>3. SessionInit => DeliveryInv
  BY DeliveryStarts
<1>4. PathTypes /\ DeliveryInv /\ [SessionNext]_sessionVars => DeliveryInv'
  BY DeliveryKinds, DeliveryPosts, DeliveryHands, DeliveryPasses
<1>5. GatherTypeOK /\ SessionInv /\ OwnTypes /\ DeliveryInv => SessionTypeOK
  <2> SUFFICES ASSUME GatherTypeOK, SessionInv, OwnTypes, DeliveryInv
               PROVE  SessionTypeOK
    OBVIOUS
  <2>1. closeFrame \in [code : Codes, length : Nat, written : Nat]
    BY DEF OwnTypes, CloseFrames
  <2>2. queue \in Seq(Nat) /\ delivered \in Seq(Handed) /\ messages \in Seq(Meant)
    BY DEF DeliveryInv, DeliveryTypes, OwnTypes
  <2>3. ops \in [Reads \cup Writes -> Nat]
    BY DEF SessionInv
  <2>4. /\ delivered \in Seq([message : Nat, binary : BOOLEAN])
        /\ messages \in Seq([binary : BOOLEAN, fragmented : BOOLEAN])
    BY <2>2 DEF Handed, Meant
  <2>5. /\ registered \in BOOLEAN /\ crashed \in BOOLEAN
        /\ temp \in FrameHeaders(0 .. 15, Nat)
        /\ broadcasts \in 0 .. MaxWrites /\ written \in 0 .. MaxWrites
    BY DEF OwnTypes
  <2> QED  BY <2>1, <2>2, <2>3, <2>4, <2>5 DEF SessionTypeOK
<1>6. GatherSafety => []GatherTypeOK
  BY GatherTypes
<1> QED  BY <1>1, <1>2, <1>3, <1>4, <1>5, <1>6, PathTypesHold, SessionInvariant,
            SessionDrivesGather, PTL
         DEF SessionSafety, DataPathIsGather
=============================================================================
