---------------------------- MODULE ServerProofs ----------------------------
(***************************************************************************)
(* Publisher implements Publishing for any number of io threads and any    *)
(* requests, by itself and in the server: io_strand_ keeps the parts of    *)
(* two requests apart, and every one of them is finished.  And a walk that *)
(* no access of another thread has coincided with gives a message, with    *)
(* its own type, once to whom it should, for any number of sessions that   *)
(* come and go between its steps.                                          *)
(***************************************************************************)
EXTENDS Server, SequenceLemmas, FiniteSetTheorems

PartType == [request : Nat, part : Nat]

\* A request waits once, and is not out while it waits.
Waits == /\ queue \in Seq(DOMAIN handed)
         /\ \A i, j \in DOMAIN queue : queue[i] = queue[j] => i = j
         /\ \A i \in DOMAIN queue : queue[i] \notin DOMAIN running
                                      /\ ~Promise!Published(queue[i])

\* The request that runs has sent its type and its first running[r] chunks, and nothing
\* else is in the message under way.
Runs(r) == /\ DOMAIN running = {r}
           /\ r \in DOMAIN handed
           /\ running[r] \in Nat
           /\ running[r] = 0 \/ running[r] < handed[r]
           /\ assembling = [i \in 1 .. (running[r] + 1) |-> Promise!Part(r, i - 1)]
           /\ ~Promise!Published(r)

Idle == DOMAIN running = {} /\ assembling = << >>

PublisherInv == /\ handed \in Seq(ChunkCounts)
                /\ out \in Seq(Seq(PartType))
                /\ \A r \in Nat : Promise!Published(r) => r \in DOMAIN handed
                /\ Waits
                /\ Idle \/ \E r \in DOMAIN handed : Runs(r)

StepGoal == PublisherInv' /\ [Promise!PublishingNext]_<<handed, out>>
-----------------------------------------------------------------------------
\* A request that is published is one that a message of `out' names.
LEMMA PublishedOnly ==
  ASSUME out \in Seq(Seq(PartType)), NEW m \in Seq(PartType), NEW r,
         \A i \in DOMAIN m : m[i].request = r,
         out' = Append(out, m), NEW q, Promise!Published(q)'
  PROVE  Promise!Published(q) \/ q = r
<1>1. PICK k \in DOMAIN out' : \E i \in DOMAIN out'[k] : out'[k][i].request = q
  BY DEF Promise!Published
<1>2. CASE k = Len(out) + 1
  <2>1. out'[k] = m
    BY <1>2
  <2> QED  BY <1>1, <2>1
<1>3. CASE k # Len(out) + 1
  <2>1. k \in DOMAIN out /\ out'[k] = out[k]
    BY <1>3
  <2> QED  BY <1>1, <2>1 DEF Promise!Published
<1> QED  BY <1>2, <1>3
-----------------------------------------------------------------------------
\* A request that is posted starts nothing yet (ws_session.cpp:200).
LEMMA PostStep ==
  ASSUME PublisherInv, NEW chunks \in ChunkCounts, Post(chunks)
  PROVE  StepGoal
<1> DEFINE n == Len(handed) + 1
<1>1. /\ handed \in Seq(ChunkCounts) /\ handed' = Append(handed, chunks)
      /\ handed' \in Seq(ChunkCounts) /\ Len(handed') = n /\ n \in Nat
      /\ DOMAIN handed \subseteq DOMAIN handed' /\ n \in DOMAIN handed' /\ n \notin DOMAIN handed
      /\ \A r \in DOMAIN handed : handed'[r] = handed[r]
  BY DEF PublisherInv, Post
<1>2. queue' = Append(queue, n) /\ UNCHANGED <<running, assembling, out>>
  BY <1>1 DEF Post
<1>3. \A r : Promise!Published(r)' <=> Promise!Published(r)
  BY <1>2 DEF Promise!Published
<1>4. ~Promise!Published(n) /\ n \notin DOMAIN running
  BY <1>1 DEF PublisherInv, Idle, Runs
<1> HIDE DEF n
<1>5. Waits'
  <2>1. queue \in Seq(DOMAIN handed) /\ queue' \in Seq(DOMAIN handed')
    BY <1>1, <1>2 DEF PublisherInv, Waits
  <2>2. /\ DOMAIN queue' = 1 .. (Len(queue) + 1) /\ DOMAIN queue = 1 .. Len(queue)
        /\ \A i \in DOMAIN queue : queue'[i] = queue[i] /\ queue[i] \in DOMAIN handed
        /\ queue'[Len(queue) + 1] = n
    BY <1>2, <2>1
  <2>3. \A i, j \in DOMAIN queue' : queue'[i] = queue'[j] => i = j
    <3>1. \A i, j \in DOMAIN queue : queue[i] = queue[j] => i = j
      BY DEF PublisherInv, Waits
    <3>2. \A i \in DOMAIN queue : queue'[i] # n
      BY <1>1, <2>2
    <3>3. \A i \in DOMAIN queue' : i \in DOMAIN queue \/ i = Len(queue) + 1
      BY <2>1, <2>2
    <3> QED  BY <2>2, <3>1, <3>2, <3>3
  <2>4. \A i \in DOMAIN queue' : queue'[i] \notin DOMAIN running /\ ~Promise!Published(queue'[i])
    BY <1>4, <2>2 DEF PublisherInv, Waits
  <2> QED  BY <1>2, <1>3, <2>1, <2>3, <2>4 DEF Waits
<1>6. Idle' \/ \E r \in DOMAIN handed' : Runs(r)'
  BY <1>1, <1>2, <1>3 DEF PublisherInv, Idle, Runs
<1>7. PublisherInv'
  BY <1>1, <1>2, <1>3, <1>5, <1>6 DEF PublisherInv
<1>8. Promise!Hand(chunks)
  BY <1>1, <1>2 DEF Promise!Hand
<1> QED  BY <1>7, <1>8 DEF StepGoal, Promise!PublishingNext

\* Only an idle strand is entered.
LEMMA SendOpenStep ==
  ASSUME PublisherInv, NEW i \in 1 .. Len(queue), SendOpen(i)
  PROVE  StepGoal
<1>2. queue \in Seq(DOMAIN handed) /\ queue[i] \in DOMAIN handed
  BY DEF PublisherInv, Waits
<1>0. PICK r \in DOMAIN handed : r = queue[i]
  BY <1>2
<1>1. /\ handed' = handed /\ out' = out /\ queue' = RemoveAt(queue, i)
      /\ running' = [q \in {r} |-> 0]
      /\ DOMAIN running = {}
  BY <1>0 DEF SendOpen
<1>3. assembling = << >>
  BY <1>1 DEF PublisherInv, Idle, Runs
<1>4. assembling' = << Promise!Part(r, 0) >>
  BY <1>0, <1>3 DEF SendOpen
<1>5. ~Promise!Published(r)
  BY <1>0, <1>2 DEF PublisherInv, Waits
<1>6. \A q : Promise!Published(q)' <=> Promise!Published(q)
  BY <1>1 DEF Promise!Published
<1>7. /\ queue' \in Seq(DOMAIN handed) /\ Len(queue') = Len(queue) - 1
      /\ \A j \in 1 .. (Len(queue) - 1) : queue'[j] = queue[IF j < i THEN j ELSE j + 1]
  BY <1>1, <1>2, RemoveAtIs
<1>8. Waits'
  <2>1. /\ DOMAIN queue' = 1 .. (Len(queue) - 1) /\ DOMAIN queue = 1 .. Len(queue)
        /\ Len(queue) \in Nat
    BY <1>2, <1>7
  <2>2. \A j \in DOMAIN queue' : \E k \in DOMAIN queue :
          k = (IF j < i THEN j ELSE j + 1) /\ k # i /\ queue'[j] = queue[k]
    BY <1>7, <2>1
  <2>3. \A j, k \in DOMAIN queue : queue[j] = queue[k] => j = k
    BY DEF PublisherInv, Waits
  <2>4. \A j, k \in DOMAIN queue' : queue'[j] = queue'[k] => j = k
    <3> SUFFICES ASSUME NEW j \in DOMAIN queue', NEW k \in DOMAIN queue',
                        queue'[j] = queue'[k]
                 PROVE  j = k
      OBVIOUS
    <3>1. PICK x \in DOMAIN queue : x = (IF j < i THEN j ELSE j + 1) /\ queue'[j] = queue[x]
      BY <2>2
    <3>2. PICK y \in DOMAIN queue : y = (IF k < i THEN k ELSE k + 1) /\ queue'[k] = queue[y]
      BY <2>2
    <3>3. x = y
      BY <2>3, <3>1, <3>2
    <3> QED  BY <2>1, <3>1, <3>2, <3>3
  <2>5. \A j \in DOMAIN queue' : queue'[j] # r /\ ~Promise!Published(queue'[j])
    <3> SUFFICES ASSUME NEW j \in DOMAIN queue'
                 PROVE  queue'[j] # r /\ ~Promise!Published(queue'[j])
      OBVIOUS
    <3>1. PICK k \in DOMAIN queue : k # i /\ queue'[j] = queue[k]
      BY <2>2
    <3>2. queue[k] # queue[i]
      BY <2>1, <2>3, <3>1
    <3> QED  BY <1>0, <3>1, <3>2 DEF PublisherInv, Waits
  <2> QED  BY <1>1, <1>6, <1>7, <2>4, <2>5 DEF Waits
<1>9. Runs(r)'
  <2>1. running'[r] = 0 /\ DOMAIN running' = {r}
    BY <1>1
  <2>2. assembling' = [k \in 1 .. (running'[r] + 1) |-> Promise!Part(r, k - 1)]
    BY <1>4, <2>1
  <2> QED  BY <1>1, <1>2, <1>5, <1>6, <2>1, <2>2 DEF Runs
<1>10. PublisherInv'
  BY <1>1, <1>2, <1>6, <1>8, <1>9 DEF PublisherInv
<1> QED  BY <1>1, <1>10 DEF StepGoal

\* A part appended to those of the request that runs.
LEMMA PartAppended ==
  ASSUME NEW r, Runs(r)
  PROVE  Append(assembling, Promise!Part(r, running[r] + 1))
           = [i \in 1 .. (running[r] + 2) |-> Promise!Part(r, i - 1)]
<1> DEFINE n == running[r]
           m == [i \in 1 .. (n + 2) |-> Promise!Part(r, i - 1)]
<1>1. n \in Nat /\ assembling = [i \in 1 .. (n + 1) |-> Promise!Part(r, i - 1)]
  BY DEF Runs
<1> QED  BY <1>1

\* A part that is not the last goes into the message under way (zmq_dealer.cpp:95).
LEMMA SendMoreStep ==
  ASSUME PublisherInv, NEW r \in DOMAIN running, SendMore(r)
  PROVE  StepGoal
<1>1. Runs(r)
  BY DEF PublisherInv, Idle, Runs
<1>2. /\ running' = [running EXCEPT ![r] = @ + 1] /\ UNCHANGED <<handed, queue, out>>
      /\ running[r] + 1 < handed[r]
      /\ assembling' = Append(assembling, Promise!Part(r, running'[r]))
  BY DEF SendMore
<1>3. DOMAIN running' = {r} /\ running'[r] = running[r] + 1 /\ running[r] \in Nat
  BY <1>1, <1>2 DEF Runs
<1>4. assembling' = [i \in 1 .. (running'[r] + 1) |-> Promise!Part(r, i - 1)]
  <2>1. running'[r] + 1 = running[r] + 2
    BY <1>3
  <2>2. assembling' = Append(assembling, Promise!Part(r, running[r] + 1))
    BY <1>2, <1>3
  <2> QED  BY <1>1, <2>1, <2>2, PartAppended
<1>5. \A q : Promise!Published(q)' <=> Promise!Published(q)
  BY <1>2 DEF Promise!Published
<1>6. Runs(r)'
  BY <1>1, <1>2, <1>3, <1>4, <1>5 DEF Runs
<1>7. Waits'
  BY <1>1, <1>2, <1>3, <1>5 DEF PublisherInv, Waits, Runs
<1>8. PublisherInv'
  BY <1>1, <1>2, <1>5, <1>6, <1>7 DEF PublisherInv, Runs
<1> QED  BY <1>2, <1>8 DEF StepGoal

\* The last part, of the last chunk or of none, makes the message whole.
LEMMA SendLastStep ==
  ASSUME PublisherInv, NEW r \in DOMAIN running, SendLast(r)
  PROVE  StepGoal
<1>1. Runs(r)
  BY DEF PublisherInv, Idle, Runs
<1> DEFINE m == Append(assembling, Promise!Part(r, running[r] + 1))
<1>2. /\ out' = Append(out, m) /\ assembling' = << >> /\ UNCHANGED <<handed, queue>>
      /\ running' = [q \in DOMAIN running \ {r} |-> running[q]]
      /\ running[r] + 1 >= handed[r]
  BY DEF SendLast
<1>3. /\ r \in DOMAIN handed /\ handed \in Seq(ChunkCounts) /\ handed[r] \in Nat /\ r \in Nat
      /\ running[r] \in Nat /\ out \in Seq(Seq(PartType))
  <2>1. /\ r \in DOMAIN handed /\ handed \in Seq(ChunkCounts) /\ running[r] \in Nat
        /\ out \in Seq(Seq(PartType))
    BY <1>1 DEF Runs, PublisherInv
  <2>2. handed[r] \in ChunkCounts /\ r \in Nat
    BY <2>1
  <2> QED  BY <2>1, <2>2, PublisherAssumption
<1>4. m = [i \in 1 .. (running[r] + 2) |-> Promise!Part(r, i - 1)]
  BY <1>1, PartAppended
<1>5. running[r] + 1 = Promise!LastPart(handed[r])
  BY <1>1, <1>2, <1>3 DEF Runs, Promise!LastPart
<1>6. m = Promise!Message(r, handed[r])
  <2>1. running[r] + 2 = 1 + Promise!LastPart(handed[r])
    BY <1>3, <1>5
  <2> QED  BY <1>4, <2>1 DEF Promise!Message
<1> HIDE DEF m
<1>7. m \in Seq(PartType) /\ \A i \in DOMAIN m : m[i].request = r
  <2> DEFINE k == running[r] + 2
  <2>1. k \in Nat /\ m = [i \in 1 .. k |-> Promise!Part(r, i - 1)]
    BY <1>3, <1>4
  <2> HIDE DEF k
  <2>2. \A i \in 1 .. k :
          Promise!Part(r, i - 1) \in PartType /\ Promise!Part(r, i - 1).request = r
    BY <1>3, <2>1 DEF Promise!Part, PartType
  <2> QED  BY <2>1, <2>2
<1>8. out' \in Seq(Seq(PartType))
  BY <1>2, <1>3, <1>7
<1>9. \A q : Promise!Published(q)' => Promise!Published(q) \/ q = r
  BY <1>2, <1>3, <1>7, PublishedOnly
<1>10. Idle'
  BY <1>1, <1>2 DEF Idle, Runs
<1>11. Waits'
  BY <1>1, <1>2, <1>9, <1>10 DEF PublisherInv, Waits, Runs, Idle
<1>12. PublisherInv'
  BY <1>2, <1>3, <1>8, <1>9, <1>10, <1>11 DEF PublisherInv
<1>13. Promise!Publish(r)
  BY <1>1, <1>2, <1>6 DEF Promise!Publish, Runs
<1> QED  BY <1>3, <1>12, <1>13 DEF StepGoal, Promise!PublishingNext

\* Every step of the publisher keeps its invariant and is one of Publishing, or none.
LEMMA PublisherStep == PublisherInv /\ [PublisherNext]_publisherVars => StepGoal
<1> SUFFICES ASSUME PublisherInv, [PublisherNext]_publisherVars PROVE StepGoal
  OBVIOUS
<1>1. CASE UNCHANGED publisherVars
  <2>1. UNCHANGED <<handed, queue, running, assembling, out>>
    BY <1>1 DEF publisherVars
  <2>2. \A r : Promise!Published(r)' <=> Promise!Published(r)
    BY <2>1 DEF Promise!Published
  <2>3. Waits'
    BY <2>1, <2>2 DEF PublisherInv, Waits
  <2>4. Idle => Idle'
    BY <2>1 DEF Idle
  <2>5. \A r : Runs(r) => Runs(r)'
    BY <2>1, <2>2 DEF Runs
  <2>6. PublisherInv'
    BY <2>1, <2>2, <2>3, <2>4, <2>5 DEF PublisherInv
  <2> QED  BY <2>1, <2>6 DEF StepGoal
<1> QED  BY <1>1, PostStep, SendOpenStep, SendMoreStep, SendLastStep DEF PublisherNext, Send

\* Nothing has been posted or published at first.
LEMMA PublisherStarts == PublisherInit => PublisherInv /\ Promise!PublishingInit
BY DEF PublisherInit, PublisherInv, Waits, Idle, Promise!Published, Promise!PublishingInit

\* The inductive invariant holds in every reachable state.
THEOREM PublisherInvariant == PublisherSafety => []PublisherInv
<1>1. PublisherInv /\ [PublisherNext]_publisherVars => PublisherInv'
  BY PublisherStep DEF StepGoal
<1> QED  BY <1>1, PublisherStarts, PTL DEF PublisherSafety

\* The publisher's invariant has its types in it.
LEMMA PublisherTypes == PublisherInv => PublisherTypeOK
<1> SUFFICES ASSUME PublisherInv PROVE PublisherTypeOK
  OBVIOUS
<1>1. /\ handed \in Seq(ChunkCounts) /\ queue \in Seq(DOMAIN handed)
      /\ out \in Seq(Seq([request : Nat, part : Nat]))
  BY DEF PublisherInv, Waits, PartType
<1>2. /\ DOMAIN running \subseteq DOMAIN handed /\ \A r \in DOMAIN running : running[r] \in Nat
      /\ assembling \in Seq([request : Nat, part : Nat])
  <2>1. CASE Idle
    BY <2>1 DEF Idle
  <2>2. ASSUME NEW r \in DOMAIN handed, Runs(r)
        PROVE  /\ DOMAIN running = {r} /\ running[r] \in Nat
               /\ assembling \in Seq([request : Nat, part : Nat])
    <3>1. DOMAIN running = {r} /\ running[r] \in Nat /\ r \in Nat
      BY <1>1, <2>2 DEF Runs
    <3> DEFINE n == running[r] + 1
    <3>2. n \in Nat /\ assembling = [i \in 1 .. n |-> Promise!Part(r, i - 1)]
      BY <2>2, <3>1 DEF Runs
    <3> HIDE DEF n
    <3>3. \A i \in 1 .. n : Promise!Part(r, i - 1) \in [request : Nat, part : Nat]
      BY <3>1, <3>2 DEF Promise!Part
    <3> QED  BY <3>1, <3>2, <3>3
  <2> QED  BY <2>1, <2>2 DEF PublisherInv
<1> QED  BY <1>1, <1>2 DEF PublisherTypeOK

\* Whatever the number of io threads and however requests are taken from the queue, what
\* is published is one whole request per message, and each request at most once
\* (ws_session.cpp:200-229, zmq_dealer.cpp:58-104).
THEOREM RequestsStayApart == PublisherSafety => ImplementsPublishing
<1>1. PublisherInv /\ [PublisherNext]_publisherVars => [Promise!PublishingNext]_<<handed, out>>
  BY PublisherStep DEF StepGoal
<1> QED  BY <1>1, PublisherStarts, PublisherInvariant, PTL
         DEF PublisherSafety, ImplementsPublishing, Promise!PublishingSpec
-----------------------------------------------------------------------------
\* Everything before the iterator's entry that ought to be visited has been, and nothing
\* from it on.
Visited == /\ visits \in Seq(Nat)
           /\ \A i, j \in DOMAIN visits : visits[i] = visits[j] => i = j
           /\ \A i \in DOMAIN visits : visits[i] \in sometime
           /\ at # 0 => \A i \in DOMAIN visits : visits[i] < at
           /\ \A s \in throughout :
                at = 0 \/ s < at => \E i \in DOMAIN visits : visits[i] = s

WalkInv == /\ unauthed \subseteq Sessions
           /\ live \subseteq Sessions
           /\ accepting \in Nat
           /\ accepting # 0 => accepting \in Sessions
           /\ at \in Nat
           /\ dealer = "walk" => /\ throughout \subseteq unauthed
                                 /\ unauthed \subseteq sometime
                                 /\ ~torn => Visited
-----------------------------------------------------------------------------
\* begin() of a set of addresses, and of what is left of it.
LEMMA FirstInIs ==
  ASSUME NEW S, S \subseteq Sessions
  PROVE  \/ S = {} /\ FirstIn(S) = 0
         \/ FirstIn(S) \in S /\ FirstIn(S) # 0 /\ \A t \in S : FirstIn(S) <= t
<1>1. S \subseteq Nat /\ 0 \notin S
  BY ServerAssumption
<1>2. CASE S = {}
  BY <1>2 DEF FirstIn
<1>3. CASE S # {}
  BY <1>1, <1>3, MinIs DEF FirstIn
<1> QED  BY <1>2, <1>3

\* The entry of the registry that the walk goes to next.
LEMMA AfterIs ==
  ASSUME NEW S, S \subseteq Sessions, NEW s \in Nat
  PROVE  \/ After(s, S) = 0 /\ \A t \in S : ~(t > s)
         \/ /\ After(s, S) \in S /\ After(s, S) > s
            /\ \A t \in S : t > s => After(s, S) <= t
<1> DEFINE T == {t \in S : t > s}
<1>1. T \subseteq Sessions /\ After(s, S) = FirstIn(T)
  BY DEF After
<1>2. \/ T = {} /\ FirstIn(T) = 0
      \/ FirstIn(T) \in T /\ FirstIn(T) # 0 /\ \A t \in T : FirstIn(T) <= t
  BY <1>1, FirstInIs
<1> QED  BY <1>1, <1>2
-----------------------------------------------------------------------------
\* A session enters or leaves the registry, or tears it; the iterator stays where it is.
LEMMA RegistryStep ==
  ASSUME WalkInv, NEW S, S \subseteq Sessions, ChangeRegistry(S),
         live' \subseteq Sessions, accepting' \in Nat, accepting' # 0 => accepting' \in Sessions,
         UNCHANGED dealer
  PROVE  WalkInv'
<1>1. CASE ChangeCleanly(S)
  <2>1. /\ unauthed' = S /\ throughout' = throughout \cap S
        /\ dealer = "walk" => sometime' = sometime \cup S
        /\ UNCHANGED <<at, visits, torn>>
    BY <1>1 DEF ChangeRegistry, ChangeCleanly
  <2>2. CASE dealer # "walk"
    BY <2>1, <2>2 DEF WalkInv
  <2>3. CASE dealer = "walk"
    <3>1. throughout' \subseteq unauthed' /\ unauthed' \subseteq sometime'
      BY <2>1, <2>3
    <3>2. sometime \subseteq sometime' /\ throughout' \subseteq throughout
      BY <2>1, <2>3
    <3>3. Visited => Visited'
      BY <2>1, <3>2 DEF Visited
    <3> QED  BY <2>1, <2>3, <3>1, <3>3 DEF WalkInv
  <2> QED  BY <2>2, <2>3
<1>2. CASE Tear
  <2>1. torn' = TRUE /\ unauthed' = {} /\ throughout' = {} /\ sometime' = {} /\ at' = at
    BY <1>2 DEF Tear, ChangeRegistry
  <2> QED  BY <2>1 DEF WalkInv
<1> QED  BY <1>1, <1>2 DEF ChangeRegistry

\* A walk begins at the first entry, having visited none; or anywhere in a torn tree
\* (ws_server.cpp:69).
LEMMA BeginStep ==
  ASSUME WalkInv, RecvPayload
  PROVE  WalkInv'
<1>1. /\ visits' = << >> /\ throughout' = unauthed /\ sometime' = unauthed
      /\ at' \in IF torn THEN {0} \cup Sessions ELSE {FirstIn(unauthed)}
      /\ unauthed \subseteq Sessions /\ unauthed \subseteq Nat
      /\ UNCHANGED <<unauthed, live, accepting, torn>>
  BY ServerAssumption DEF RecvPayload, WalkBegins, WalkInv, registryVars
<1>2. CASE ~torn
  <2>1. \/ unauthed = {} /\ at' = 0
        \/ at' \in unauthed /\ at' # 0 /\ \A t \in unauthed : at' <= t
    BY <1>1, <1>2, FirstInIs
  <2>2. at' \in Nat /\ \A s \in unauthed : s \in Nat
    <3>1. \A s \in unauthed : s \in Nat
      BY <1>1
    <3> QED  BY <2>1, <3>1
  <2>3. \A s \in unauthed : ~(at' = 0 \/ s < at')
    BY <2>1, <2>2
  <2>4. Visited'
    BY <1>1, <2>3 DEF Visited
  <2> QED  BY <1>1, <2>2, <2>4 DEF WalkInv
<1>3. CASE torn
  <2>1. at' \in Nat
    BY <1>1, <1>3, ServerAssumption
  <2> QED  BY <1>1, <1>3, <2>1 DEF WalkInv
<1> QED  BY <1>2, <1>3

\* The walk visits an entry and goes on to the next.
LEMMA VisitStep ==
  ASSUME WalkInv, Visit
  PROVE  WalkInv'
<1>1. /\ dealer = "walk" /\ at \in unauthed /\ visits' = Append(visits, at)
      /\ at' = After(at, unauthed)
      /\ UNCHANGED <<unauthed, live, accepting, dealer, throughout, sometime, torn>>
  BY DEF Visit, registryVars
<1>2. /\ unauthed \subseteq Sessions /\ unauthed \subseteq Nat /\ at \in Nat /\ at # 0
      /\ throughout \subseteq unauthed /\ unauthed \subseteq sometime
  BY <1>1, ServerAssumption DEF WalkInv
<1>3. \/ at' = 0 /\ \A t \in unauthed : ~(t > at)
      \/ at' \in unauthed /\ at' > at /\ \A t \in unauthed : t > at => at' <= t
  BY <1>1, <1>2, AfterIs
<1>4. at' \in Nat
  <2>1. \A t \in unauthed : t \in Nat
    BY <1>2
  <2> QED  BY <1>3, <2>1
<1>5. ASSUME Visited PROVE Visited'
  <2>1. visits \in Seq(Nat) /\ visits' \in Seq(Nat)
    BY <1>1, <1>2, <1>5 DEF Visited
  <2>2. /\ \A i \in DOMAIN visits : i \in DOMAIN visits' /\ visits'[i] = visits[i]
        /\ \A i \in DOMAIN visits' : i \in DOMAIN visits \/ (i = Len(visits) + 1 /\ visits'[i] = at)
        /\ Len(visits) + 1 \in DOMAIN visits' /\ visits'[Len(visits) + 1] = at
    BY <1>1, <2>1
  <2>3. \A i \in DOMAIN visits : visits[i] < at /\ visits[i] \in Nat
    BY <1>2, <1>5, <2>1 DEF Visited
  <2>4. \A i \in DOMAIN visits : visits[i] # at
    BY <1>2, <2>3
  <2>5. \A i, j \in DOMAIN visits' : visits'[i] = visits'[j] => i = j
    BY <1>5, <2>2, <2>4 DEF Visited
  <2>6. \A i \in DOMAIN visits' : visits'[i] \in sometime'
    BY <1>1, <1>2, <1>5, <2>2 DEF Visited
  <2>7. at' # 0 => \A i \in DOMAIN visits' : visits'[i] < at'
    BY <1>2, <1>3, <1>4, <2>2, <2>3
  <2>8. ASSUME NEW s \in throughout, at' = 0 \/ s < at'
        PROVE  \E i \in DOMAIN visits' : visits'[i] = s
    <3>1. s \in unauthed /\ s \in Nat
      BY <1>2
    <3>2. s <= at
      BY <1>2, <1>3, <1>4, <2>8, <3>1
    <3>3. CASE s = at
      BY <2>2, <3>3
    <3>4. CASE s < at
      <4>1. \E i \in DOMAIN visits : visits[i] = s
        BY <1>5, <3>4 DEF Visited
      <4> QED  BY <2>2, <4>1
    <3> QED  BY <1>2, <3>1, <3>2, <3>3, <3>4
  <2> QED  BY <1>1, <2>1, <2>5, <2>6, <2>7, <2>8 DEF Visited
<1> QED  BY <1>1, <1>4, <1>5 DEF WalkInv

\* No step of the server disturbs a walk, unless it tears the tree.
LEMMA WalkStep == WalkInv /\ [ServerNext]_serverVars => WalkInv'
<1> SUFFICES ASSUME WalkInv, [ServerNext]_serverVars PROVE WalkInv'
  OBVIOUS
<1> DEFINE others == <<unauthed, live, accepting, walkVars, dealer, torn>>
<1>1. ASSUME UNCHANGED others PROVE WalkInv'
  BY <1>1 DEF WalkInv, Visited, walkVars
<1>2. CASE \/ Connect
           \/ PostRequest
           \/ RunRequest
           \/ UNCHANGED serverVars
  <2>1. UNCHANGED <<unauthed, live, accepting>>
    BY <1>2 DEF Connect, PostRequest, RunRequest, serverVars, registryVars
  <2>2. UNCHANGED <<walkVars, dealer, torn>>
    BY <1>2 DEF Connect, PostRequest, RunRequest, serverVars, dealerVars
  <2> QED  BY <1>1, <2>1, <2>2
<1>3. CASE AcceptError
  <2>1. accepting' \in Sessions /\ UNCHANGED <<unauthed, live, dealerVars, torn>>
    BY <1>3 DEF AcceptError, Free
  <2>2. accepting' \in Nat
    BY <2>1, ServerAssumption
  <2> QED  BY <2>1, <2>2 DEF WalkInv, Visited, dealerVars, walkVars
<1>4. CASE HandleAccept
  <2>1. /\ accepting' \in Sessions /\ accepting \in Sessions /\ live' = live \cup {accepting}
        /\ ChangeRegistry(unauthed \cup {accepting})
        /\ UNCHANGED dealer
    BY <1>4 DEF HandleAccept, Free, WalkInv
  <2>2. unauthed \cup {accepting} \subseteq Sessions /\ live' \subseteq Sessions
    BY <2>1 DEF WalkInv
  <2>3. accepting' \in Nat
    BY <2>1, ServerAssumption
  <2> QED  BY <2>1, <2>2, <2>3, RegistryStep
<1>5. ASSUME NEW s \in live, RemoveSession(s) PROVE WalkInv'
  <2>1. /\ live' \subseteq live /\ accepting' = accepting
        /\ ChangeRegistry(unauthed \ {s})
        /\ UNCHANGED dealer
    BY <1>5 DEF RemoveSession
  <2>2. /\ unauthed \ {s} \subseteq Sessions /\ live' \subseteq Sessions
        /\ accepting' \in Nat /\ (accepting' # 0 => accepting' \in Sessions)
    BY <2>1 DEF WalkInv
  <2> QED  BY <2>1, <2>2, RegistryStep
<1>6. CASE RecvType
  <2>1. dealer' = "payload" /\ UNCHANGED <<registryVars, at>>
    BY <1>6 DEF RecvType, walkVars
  <2> QED  BY <2>1 DEF WalkInv, registryVars
<1>7. CASE VisitTorn
  <2>1. /\ torn' = TRUE /\ unauthed' = {} /\ throughout' = {} /\ sometime' = {}
        /\ at' \in {0} \cup Sessions /\ UNCHANGED <<live, accepting>>
    BY <1>7 DEF VisitTorn, Tear
  <2>2. at' \in Nat
    BY <2>1, ServerAssumption
  <2> QED  BY <2>1, <2>2 DEF WalkInv
<1>8. CASE WalkEnds
  <2>1. dealer' = "type" /\ UNCHANGED <<registryVars, at>>
    BY <1>8 DEF WalkEnds
  <2> QED  BY <2>1 DEF WalkInv, registryVars
<1> QED  BY <1>2, <1>3, <1>4, <1>5, <1>6, <1>7, <1>8, BeginStep, VisitStep DEF ServerNext

\* The walk's inductive invariant holds in every reachable state of the server.
THEOREM WalkInvariant == ServerSafety => []WalkInv
<1>1. ServerInit => WalkInv
  <2> SUFFICES ASSUME ServerInit PROVE WalkInv
    OBVIOUS
  <2>1. accepting \in Sessions /\ live = {} /\ unauthed = {} /\ dealer = "type" /\ at = 0
    BY DEF ServerInit
  <2> QED  BY <2>1, ServerAssumption DEF WalkInv
<1> QED  BY <1>1, WalkStep, PTL DEF ServerSafety

\* Whatever sessions come and go between the steps of the walk over unauthed_, each one that
\* stays is posted the message by the time the iterator is past it, none twice, and none
\* that was not registered: as long as no entry is erased under the iterator and no two
\* accesses to the set coincide, which nothing in the code sees to (ws_server.cpp:69-72).
THEOREM EachSessionOnce == ServerSafety => []BroadcastOnce
<1>1. WalkInv => BroadcastOnce
  <2> SUFFICES ASSUME WalkInv, dealer = "walk", ~torn
               PROVE  /\ IsInjective(visits) /\ ToSet(visits) \subseteq sometime
                      /\ {s \in throughout : at = 0 \/ s < at} \subseteq ToSet(visits)
    BY DEF BroadcastOnce
  <2>1. Visited
    BY DEF WalkInv
  <2> QED  BY <2>1 DEF Visited, IsInjective, ToSet
<1> QED  BY <1>1, WalkInvariant, PTL
-----------------------------------------------------------------------------
\* The server around it leaves the publisher as Publisher has it.
LEMMA ServerStep == [ServerNext]_serverVars => [PublisherNext]_publisherVars
<1> SUFFICES ASSUME [ServerNext]_serverVars PROVE [PublisherNext]_publisherVars
  OBVIOUS
<1>1. CASE PostRequest
  BY <1>1 DEF PostRequest, PublisherNext
<1>2. CASE RunRequest
  BY <1>2 DEF RunRequest, PublisherNext
<1>3. ASSUME NEW s, RemoveSession(s) PROVE UNCHANGED publisherVars
  BY <1>3 DEF RemoveSession
<1>4. CASE \/ Connect \/ AcceptError \/ HandleAccept \/ RecvType \/ RecvPayload
           \/ Visit \/ VisitTorn \/ WalkEnds \/ UNCHANGED serverVars
  BY <1>4 DEF Connect, AcceptError, HandleAccept, RecvType, RecvPayload, Visit, VisitTorn,
              WalkEnds, serverVars
<1> QED  BY <1>1, <1>2, <1>3, <1>4 DEF ServerNext

\* So the server publishes whole requests, each at most once, in the midst of accepts,
\* removals and broadcasts (ws_server.cpp:41-83, zmq_dealer.cpp:58-104).
THEOREM ServerPublishes == ServerSafety => ImplementsPublishing
<1>1. ServerInit => PublisherInit
  BY DEF ServerInit
<1>2. ServerSafety => PublisherSafety
  BY <1>1, ServerStep, PTL DEF ServerSafety, PublisherSafety
<1> QED  BY <1>2, RequestsStayApart, PTL
-----------------------------------------------------------------------------
\* Every session has one place; there is only one acceptor's, and it is another's.
Places == /\ peers \in 0 .. MaxPeers
          /\ accepting \in Free
          /\ live \subseteq Sessions /\ over \subseteq Sessions /\ live \cap over = {}
          /\ unauthed \subseteq live
          /\ IsFiniteSet(live) /\ IsFiniteSet(over)

\* The sets of the walk's history are empty when there is none.
Walked == /\ dealer \in {"type", "payload", "walk"}
          /\ at \in Sessions \cup {0} /\ visits \in Seq(Sessions)
          /\ throughout \subseteq sometime /\ sometime \subseteq Sessions
          /\ dealer # "walk" => throughout = {}
          /\ torn \in BOOLEAN /\ lost \in BOOLEAN

PartRead == [message : Nat, part : Nat]

Received == /\ sizes \in Seq(PartCounts)
            /\ inbox \in PartRead /\ typePart \in PartRead /\ payloadPart \in PartRead

\* Every message up to and with the m-th has two parts.
TwoParts(m) == \A k \in 1 .. m : sizes[k] = 2

\* The dealer is in step with the messages for as long as they have two parts.
Roles ==
  /\ dealer = "type" /\ inbox # NoPart /\ TwoParts(inbox.message) => inbox.part = 1
  /\ dealer = "payload" =>
       /\ inbox # NoPart => typePart.message <= inbox.message
       /\ TwoParts(typePart.message) =>
            typePart.part = 1 /\ inbox = [message |-> typePart.message, part |-> 2]
  /\ dealer = "walk" =>
       /\ inbox # NoPart => typePart.message <= inbox.message
       /\ TwoParts(typePart.message) =>
            /\ typePart.part = 1
            /\ payloadPart = [message |-> typePart.message, part |-> 2]
            /\ inbox # NoPart => inbox.part = 1

\* A part that there is belongs to one of the messages.
Numbered == /\ inbox # NoPart => inbox.message \in 1 .. MaxIncoming
            /\ DOMAIN sizes = 1 .. MaxIncoming

\* What recv gives after a part (zmq_dealer.cpp:46, 49).
LEMMA NextPartIs ==
  ASSUME Received, Numbered, inbox # NoPart
  PROVE  /\ NextPart(inbox) \in PartRead
         /\ NextPart(inbox) # NoPart => /\ NextPart(inbox).message \in 1 .. MaxIncoming
                                        /\ inbox.message <= NextPart(inbox).message
         /\ sizes[inbox.message] = 2 /\ inbox.part = 1 =>
              NextPart(inbox) = [message |-> inbox.message, part |-> 2]
         /\ sizes[inbox.message] = 2 /\ inbox.part = 2 =>
              NextPart(inbox) = FirstOf(inbox.message + 1)
<1>1. /\ inbox \in PartRead /\ inbox.message \in Nat /\ inbox.part \in Nat
      /\ inbox = [message |-> inbox.message, part |-> inbox.part]
      /\ inbox.message \in 1 .. MaxIncoming
  BY DEF Received, Numbered, PartRead
<1>2. CASE inbox.part < sizes[inbox.message]
  <2>1. NextPart(inbox) = [message |-> inbox.message, part |-> inbox.part + 1]
    BY <1>1, <1>2 DEF NextPart
  <2> QED  BY <1>1, <1>2, <2>1 DEF PartRead
<1>3. CASE ~(inbox.part < sizes[inbox.message])
  <2>1. NextPart(inbox) = FirstOf(inbox.message + 1)
    BY <1>3 DEF NextPart
  <2>2. \/ /\ NextPart(inbox) = [message |-> inbox.message + 1, part |-> 1]
           /\ inbox.message + 1 <= MaxIncoming
        \/ NextPart(inbox) = NoPart
    BY <2>1 DEF FirstOf
  <2>3. NextPart(inbox) \in PartRead
    BY <1>1, <2>2 DEF PartRead, NoPart
  <2>4. NextPart(inbox) # NoPart => /\ NextPart(inbox).message \in 1 .. MaxIncoming
                                    /\ inbox.message <= NextPart(inbox).message
    BY <1>1, <2>2, ServerAssumption
  <2>5. ~(sizes[inbox.message] = 2 /\ inbox.part = 1)
    BY <1>3
  <2> QED  BY <2>1, <2>3, <2>4, <2>5
<1> QED  BY <1>2, <1>3

\* A recv takes the next part for the type or for the payload, in turns.
LEMMA RolesStep ==
  ASSUME Received, Numbered, Roles, NEW p \in PartRead, p = NextPart(inbox),
         inbox # NoPart, sizes' = sizes, inbox' = p,
         \/ dealer = "type" /\ dealer' = "payload" /\ typePart' = inbox /\ payloadPart' = payloadPart
         \/ dealer = "payload" /\ dealer' = "walk" /\ typePart' = typePart /\ payloadPart' = inbox
  PROVE  Received' /\ Numbered' /\ Roles'
<1>1. /\ p # NoPart => p.message \in 1 .. MaxIncoming /\ inbox.message <= p.message
      /\ sizes[inbox.message] = 2 /\ inbox.part = 1 => p = [message |-> inbox.message, part |-> 2]
      /\ sizes[inbox.message] = 2 /\ inbox.part = 2 => p = FirstOf(inbox.message + 1)
  BY NextPartIs
<1>2. /\ inbox.message \in 1 .. MaxIncoming /\ inbox.message \in Nat /\ MaxIncoming \in Nat
      /\ typePart.message \in Nat /\ p.message \in Nat
  BY ServerAssumption DEF Numbered, Received, PartRead
<1>3. Received' /\ Numbered'
  BY <1>1 DEF Received, Numbered
<1>4. \A m : TwoParts(m)' <=> TwoParts(m)
  BY DEF TwoParts
<1>5. TwoParts(inbox.message) => sizes[inbox.message] = 2
  BY <1>2 DEF TwoParts
<1>6. CASE dealer = "type"
  <2>1. dealer' = "payload" /\ typePart' = inbox
    BY <1>6
  <2>2. TwoParts(inbox.message) =>
          inbox.part = 1 /\ p = [message |-> inbox.message, part |-> 2]
    BY <1>1, <1>5, <1>6 DEF Roles
  <2>3. TwoParts(typePart.message)' <=> TwoParts(inbox.message)
    BY <2>1 DEF TwoParts
  <2>4. p # NoPart => inbox.message <= p.message
    BY <1>1
  <2> QED  BY ONLY <1>3, <2>1, <2>2, <2>3, <2>4, inbox' = p DEF Roles
<1>7. CASE dealer = "payload"
  <2>1. dealer' = "walk" /\ typePart' = typePart /\ payloadPart' = inbox
    BY <1>7
  <2>2. p # NoPart => typePart.message <= p.message
    <3>1. typePart.message <= inbox.message
      BY <1>7 DEF Roles
    <3> QED  BY <1>1, <1>2, <3>1
  <2>3. ASSUME TwoParts(typePart.message)
        PROVE  /\ typePart.part = 1 /\ inbox = [message |-> typePart.message, part |-> 2]
               /\ p # NoPart => p.part = 1
    <3>1. typePart.part = 1 /\ inbox = [message |-> typePart.message, part |-> 2]
      BY <1>7, <2>3 DEF Roles
    <3>2. p = FirstOf(inbox.message + 1)
      BY <1>1, <1>5, <2>3, <3>1
    <3> QED  BY <3>1, <3>2 DEF FirstOf
  <2>4. TwoParts(typePart.message)' <=> TwoParts(typePart.message)
    BY <2>1 DEF TwoParts
  <2> QED  BY ONLY <1>3, <2>1, <2>2, <2>3, <2>4, inbox' = p DEF Roles
<1> QED  BY <1>3, <1>6, <1>7

\* Every step keeps what the dealer's thread knows of the parts it has.
LEMMA DealerStep ==
  Received /\ Numbered /\ Roles /\ [ServerNext]_serverVars => Received' /\ Numbered' /\ Roles'
<1> SUFFICES ASSUME Received, Numbered, Roles, [ServerNext]_serverVars
             PROVE  Received' /\ Numbered' /\ Roles'
  OBVIOUS
<1> DEFINE parts == <<sizes, inbox, typePart, payloadPart>>
<1>1. ASSUME UNCHANGED <<parts, dealer>> PROVE Received' /\ Numbered' /\ Roles'
  BY <1>1 DEF Received, Numbered, Roles, TwoParts
<1>2. CASE \/ Connect \/ AcceptError \/ HandleAccept \/ PostRequest \/ RunRequest
           \/ Visit \/ VisitTorn \/ (\E s \in live : RemoveSession(s)) \/ UNCHANGED serverVars
  <2>1. UNCHANGED <<parts, dealer>>
    BY <1>2 DEF Connect, AcceptError, HandleAccept, PostRequest, RunRequest, Visit, VisitTorn,
                RemoveSession, serverVars, dealerVars
  <2> QED  BY <1>1, <2>1
<1>3. CASE RecvType
  <2>1. /\ inbox # NoPart /\ sizes' = sizes /\ inbox' = NextPart(inbox)
        /\ dealer = "type" /\ dealer' = "payload" /\ typePart' = inbox
        /\ payloadPart' = payloadPart
    BY <1>3 DEF RecvType
  <2> QED  BY <2>1, NextPartIs, RolesStep
<1>4. CASE RecvPayload
  <2>1. /\ inbox # NoPart /\ sizes' = sizes /\ inbox' = NextPart(inbox)
        /\ dealer = "payload" /\ dealer' = "walk" /\ typePart' = typePart
        /\ payloadPart' = inbox
    BY <1>4 DEF RecvPayload
  <2> QED  BY <2>1, NextPartIs, RolesStep
<1>5. CASE WalkEnds
  <2>1. /\ dealer = "walk" /\ dealer' = "type" /\ inbox' = inbox /\ sizes' = sizes
        /\ typePart' = NoPart /\ payloadPart' = NoPart
    BY <1>5 DEF WalkEnds
  <2>2. NoPart \in PartRead
    BY DEF NoPart, PartRead
  <2>3. ASSUME inbox # NoPart, TwoParts(inbox.message) PROVE inbox.part = 1
    <3>1. typePart.message <= inbox.message /\ typePart.message \in Nat /\ inbox.message \in Nat
      BY <2>1, <2>3 DEF Roles, Received, PartRead
    <3>2. TwoParts(typePart.message)
      BY <2>3, <3>1 DEF TwoParts
    <3> QED  BY <2>1, <2>3, <3>2 DEF Roles
  <2>4. Received' /\ Numbered'
    BY <2>1, <2>2 DEF Received, Numbered
  <2> QED  BY <2>1, <2>3, <2>4 DEF Roles, TwoParts
<1> QED  BY <1>2, <1>3, <1>4, <1>5 DEF ServerNext

\* The dealer's inductive invariant holds in every reachable state of the server.
THEOREM DealerInvariant == ServerSafety => [](Received /\ Numbered /\ Roles)
<1>1. ServerInit => Received /\ Numbered /\ Roles
  <2> SUFFICES ASSUME ServerInit PROVE Received /\ Numbered /\ Roles
    OBVIOUS
  <2>1. /\ sizes \in [1 .. MaxIncoming -> PartCounts] /\ inbox = FirstOf(1) /\ dealer = "type"
        /\ typePart = NoPart /\ payloadPart = NoPart
    BY DEF ServerInit
  <2>2. MaxIncoming \in Nat
    BY ServerAssumption
  <2>3. sizes \in Seq(PartCounts) /\ DOMAIN sizes = 1 .. MaxIncoming
    BY <2>1, <2>2
  <2>4. NoPart \in PartRead
    BY DEF NoPart, PartRead
  <2>5. /\ inbox \in PartRead
        /\ inbox # NoPart => inbox.part = 1 /\ inbox.message \in 1 .. MaxIncoming
    BY <2>1, <2>2, <2>4 DEF FirstOf, PartRead
  <2> QED  BY <2>1, <2>3, <2>4, <2>5 DEF Received, Numbered, Roles
<1> QED  BY <1>1, DealerStep, PTL DEF ServerSafety

\* For any number of messages of any sizes: as long as they have had two parts, the one
\* that the dealer passes on has its own type (zmq_dealer.cpp:45-54).
THEOREM MessageHasItsType == ServerSafety => []TypeOfItsMessage
<1>1. Roles => TypeOfItsMessage
  BY DEF Roles, TypeOfItsMessage, TwoParts
<1> QED  BY <1>1, DealerInvariant, PTL
-----------------------------------------------------------------------------
\* Every step keeps a session waiting, live, over or free, and only one of these.
LEMMA PlacesStep == Places /\ [ServerNext]_serverVars => Places'
<1> SUFFICES ASSUME Places, [ServerNext]_serverVars PROVE Places'
  OBVIOUS
<1>1. CASE \/ PostRequest \/ RunRequest \/ RecvType \/ RecvPayload \/ Visit \/ WalkEnds
           \/ UNCHANGED serverVars
  <2>1. UNCHANGED registryVars
    BY <1>1 DEF PostRequest, RunRequest, RecvType, RecvPayload, Visit, WalkEnds, serverVars
  <2> QED  BY <2>1 DEF registryVars, Places, Free
<1>2. CASE Connect
  <2>1. /\ peers + Cardinality(live \cup over) < MaxPeers /\ peers' = peers + 1
        /\ UNCHANGED <<accepting, live, over, unauthed>>
    BY <1>2 DEF Connect
  <2>2. Cardinality(live \cup over) \in Nat /\ MaxPeers \in Nat
    BY FS_Union, FS_CardinalityType, ServerAssumption DEF Places
  <2>3. peers' \in 0 .. MaxPeers
    BY <2>1, <2>2 DEF Places
  <2> QED  BY <2>1, <2>3 DEF Places, Free
<1>3. CASE AcceptError
  BY <1>3 DEF AcceptError, Places, Free
<1>4. CASE HandleAccept
  <2>1. /\ peers > 0 /\ peers' = peers - 1 /\ live' = live \cup {accepting} /\ over' = over
        /\ unauthed' \in {{}, unauthed \cup {accepting}} /\ accepting' \in Free \ {accepting}
    BY <1>4 DEF HandleAccept, ChangeRegistry, ChangeCleanly, Tear
  <2>2. peers' \in 0 .. MaxPeers
    BY <2>1, ServerAssumption DEF Places
  <2>3. IsFiniteSet(live')
    BY <2>1, FS_AddElement DEF Places
  <2> QED  BY <2>1, <2>2, <2>3 DEF Places, Free
<1>5. ASSUME NEW s \in live, RemoveSession(s) PROVE Places'
  <2>1. /\ UNCHANGED <<peers, accepting>> /\ unauthed' \in {{}, unauthed \ {s}}
        /\ \/ live' = live \ {s} /\ over' = over \cup {s}
           \/ live' = live /\ over' = over
    BY <1>5 DEF RemoveSession, ChangeRegistry, ChangeCleanly, Tear
  <2>2. IsFiniteSet(live') /\ IsFiniteSet(over')
    BY <2>1, FS_AddElement, FS_RemoveElement DEF Places
  <2> QED  BY <2>1, <2>2 DEF Places, Free
<1>6. CASE VisitTorn
  <2>1. unauthed' = {} /\ UNCHANGED <<peers, accepting, live, over>>
    BY <1>6 DEF VisitTorn, Tear
  <2> QED  BY <2>1 DEF Places, Free
<1> QED  BY <1>1, <1>2, <1>3, <1>4, <1>5, <1>6 DEF ServerNext

\* Every step keeps the walk among the sessions there are.
LEMMA WalkedStep == Places /\ Walked /\ [ServerNext]_serverVars => Walked'
<1> SUFFICES ASSUME Places, Walked, [ServerNext]_serverVars PROVE Walked'
  OBVIOUS
<1>1. CASE \/ Connect \/ AcceptError \/ PostRequest \/ RunRequest \/ UNCHANGED serverVars
  <2>1. UNCHANGED <<dealer, walkVars, torn, lost>>
    BY <1>1 DEF Connect, AcceptError, PostRequest, RunRequest, serverVars, dealerVars
  <2> QED  BY <2>1 DEF Walked, walkVars
<1>2. CASE RecvType
  <2>1. dealer' = "payload" /\ dealer = "type" /\ UNCHANGED <<walkVars, torn, lost>>
    BY <1>2 DEF RecvType
  <2> QED  BY <2>1 DEF Walked, walkVars
<1>a. ASSUME Tear, dealer' = dealer, at' \in Sessions \cup {0} PROVE Walked'
  <2>1. /\ visits' = << >> /\ throughout' = {} /\ sometime' = {}
        /\ torn' = TRUE /\ lost' \in BOOLEAN
    BY <1>a DEF Tear
  <2>2. visits' \in Seq(Sessions)
    BY <2>1
  <2> QED  BY <1>a, <2>1, <2>2 DEF Walked
<1>3. ASSUME NEW S, S \subseteq Sessions, ChangeRegistry(S), UNCHANGED dealer
      PROVE  Walked'
  <2>1. CASE ChangeCleanly(S)
    <3>1. /\ throughout' = throughout \cap S
          /\ sometime' = IF dealer = "walk" THEN sometime \cup S ELSE {}
          /\ UNCHANGED <<at, visits, torn, lost>>
      BY <1>3, <2>1 DEF ChangeRegistry, ChangeCleanly
    <3>2. throughout' \subseteq sometime' /\ sometime' \subseteq Sessions
      BY <1>3, <3>1 DEF Walked
    <3>3. dealer' # "walk" => throughout' = {}
      BY <1>3, <3>1 DEF Walked
    <3> QED  BY <1>3, <3>1, <3>2, <3>3 DEF Walked
  <2>2. CASE Tear
    BY <1>3, <1>a, <2>2 DEF ChangeRegistry, Walked
  <2> QED  BY <1>3, <2>1, <2>2 DEF ChangeRegistry
<1>4. CASE HandleAccept
  BY <1>3, <1>4 DEF HandleAccept, Places, Free
<1>5. ASSUME NEW s \in live, RemoveSession(s) PROVE Walked'
  BY <1>3, <1>5 DEF RemoveSession, Places
<1>6. unauthed \subseteq Sessions
  BY DEF Places
<1>7. CASE RecvPayload
  <2>1. /\ dealer' = "walk" /\ visits' = << >>
        /\ at' \in IF torn THEN {0} \cup Sessions ELSE {FirstIn(unauthed)}
        /\ throughout' = unauthed /\ sometime' = unauthed /\ torn' = torn /\ lost' = lost
    BY <1>7 DEF RecvPayload, WalkBegins
  <2>2. at' \in Sessions \cup {0}
    BY <1>6, <2>1, FirstInIs
  <2>3. visits' \in Seq(Sessions)
    BY <2>1
  <2> QED  BY <1>6, <2>1, <2>2, <2>3 DEF Walked
<1>8. CASE Visit
  <2>1. /\ at \in unauthed /\ visits' = Append(visits, at) /\ at' = After(at, unauthed)
        /\ UNCHANGED <<dealer, throughout, sometime, torn, lost>>
    BY <1>8 DEF Visit
  <2>2. at \in Nat
    BY <1>6, <2>1, ServerAssumption
  <2>3. at' \in Sessions \cup {0}
    BY <1>6, <2>1, <2>2, AfterIs
  <2>4. visits' \in Seq(Sessions)
    BY <1>6, <2>1 DEF Walked
  <2> QED  BY <2>1, <2>3, <2>4 DEF Walked
<1>9. CASE VisitTorn
  BY <1>a, <1>9 DEF VisitTorn
<1>10. CASE WalkEnds
  <2>1. /\ dealer' = "type" /\ visits' = << >> /\ throughout' = {} /\ sometime' = {}
        /\ torn' = torn /\ at' = at /\ lost' = lost
    BY <1>10 DEF WalkEnds
  <2>2. visits' \in Seq(Sessions)
    BY <2>1
  <2> QED  BY <2>1, <2>2 DEF Walked
<1> QED  BY <1>1, <1>2, <1>4, <1>5, <1>7, <1>8, <1>9, <1>10 DEF ServerNext

\* Every variable of the server has its type, and every session one place: the acceptor's
\* is never one that lives or has ended, and only one that lives is registered
\* (ws_server.cpp:35-54, ws_session_manager.cpp:29-44).
THEOREM ServerTypes == ServerSafety => []ServerTypeOK
<1>1. ServerInit => Places /\ Walked
  <2> SUFFICES ASSUME ServerInit PROVE Places /\ Walked
    OBVIOUS
  <2>1. /\ peers = 0 /\ accepting \in Sessions /\ live = {} /\ over = {} /\ unauthed = {}
        /\ dealer = "type" /\ at = 0 /\ visits = << >> /\ throughout = {} /\ sometime = {}
        /\ torn = FALSE /\ lost = FALSE
    BY DEF ServerInit
  <2>2. visits \in Seq(Sessions) /\ peers \in 0 .. MaxPeers /\ accepting \in Free
    BY <2>1, ServerAssumption DEF Free
  <2>3. IsFiniteSet(live) /\ IsFiniteSet(over)
    BY <2>1, FS_EmptySet
  <2> QED  BY <2>1, <2>2, <2>3 DEF Places, Walked
<1>2. ServerSafety => [](Places /\ Walked)
  BY <1>1, PlacesStep, WalkedStep, PTL DEF ServerSafety
<1>3. ServerInit => PublisherInit
  BY DEF ServerInit
<1>4. ServerSafety => []PublisherInv
  BY <1>3, ServerStep, PublisherInvariant, PTL DEF ServerSafety, PublisherSafety
<1>5. Places /\ Walked /\ Received /\ PublisherTypeOK => ServerTypeOK
  BY DEF Places, Walked, Received, PartRead, ServerTypeOK
<1> QED  BY <1>2, <1>4, <1>5, PublisherTypes, DealerInvariant, PTL
=============================================================================
