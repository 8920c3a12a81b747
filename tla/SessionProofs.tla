--------------------------- MODULE SessionProofs ---------------------------
(***************************************************************************)
(* A session has one read loop, handshake or close under way; its data     *)
(* path is Gather, so what GatherProofs shows of Gather holds of the       *)
(* session, and waits for what the loop reads; and its life is the one of  *)
(* Lifecycle.                                                              *)
(***************************************************************************)
EXTENDS Session, GatherProofs

AtMostOne == \A j, k \in Loop : ops[j] > 0 /\ ops[k] > 0 => j = k /\ ops[j] = 1

\* What the second handler of a header relies on: process_state_1 let temp_header_ in.
SecondIsGood == ops["second"] > 0 => temp \in Headers /\ Process1(temp) = 0

SessionInv == /\ ops \in [Reads \cup Writes -> Nat]
              /\ AtMostOne
              /\ ~crashed /\ registered => \E k \in Loop : ops[k] > 0
              /\ SecondIsGood
-----------------------------------------------------------------------------
\* A handler of the loop that starts at most one operation of the loop leaves exactly
\* what it starts.
LEMMA LoopStep ==
  ASSUME SessionInv, NEW done \in Loop, NEW started, Complete(done, started),
         \A j, k \in started \cap Loop : j = k
  PROVE  /\ ops' \in [Reads \cup Writes -> Nat]
         /\ AtMostOne'
         /\ \A k \in Loop : ops'[k] > 0 <=> k \in started
<1>1. /\ ops \in [Reads \cup Writes -> Nat] /\ AtMostOne /\ ops[done] > 0
      /\ ops' = [k \in Reads \cup Writes |-> ops[k] - (IF k = done THEN 1 ELSE 0)
                                              + (IF k \in started THEN 1 ELSE 0)]
  BY DEF SessionInv, Complete
<1>2. Loop \subseteq Reads \cup Writes
  BY DEF Loop, Writes
<1>3. ops[done] = 1 /\ \A k \in Loop : k # done => ops[k] = 0
  BY <1>1, <1>2 DEF AtMostOne
<1>4. ops' \in [Reads \cup Writes -> Nat]
  <2> SUFFICES ASSUME NEW k \in Reads \cup Writes
               PROVE  ops[k] - (IF k = done THEN 1 ELSE 0)
                        + (IF k \in started THEN 1 ELSE 0) \in Nat
    BY <1>1
  <2> QED  BY <1>1
<1>5. \A k \in Loop : ops'[k] = IF k \in started THEN 1 ELSE 0
  BY <1>1, <1>2, <1>3
<1>6. \A k \in Loop : ops'[k] > 0 <=> k \in started
  BY <1>5
<1>7. AtMostOne'
  BY <1>5, <1>6 DEF AtMostOne
<1> QED  BY <1>4, <1>6, <1>7

\* A pong or a broadcast that is done leaves the loop alone.
LEMMA OtherStep ==
  ASSUME SessionInv, NEW done \in Writes \ Loop, Complete(done, {})
  PROVE  /\ ops' \in [Reads \cup Writes -> Nat]
         /\ AtMostOne'
         /\ \A k \in Loop : ops'[k] = ops[k]
<1>1. /\ ops \in [Reads \cup Writes -> Nat] /\ AtMostOne /\ ops[done] > 0
      /\ ops' = [k \in Reads \cup Writes |-> ops[k] - (IF k = done THEN 1 ELSE 0)
                                              + (IF k \in {} THEN 1 ELSE 0)]
  BY DEF SessionInv, Complete
<1>2. Loop \subseteq Reads \cup Writes
  BY DEF Loop, Writes
<1>3. ops' \in [Reads \cup Writes -> Nat]
  <2> SUFFICES ASSUME NEW k \in Reads \cup Writes
               PROVE  ops[k] - (IF k = done THEN 1 ELSE 0) + (IF k \in {} THEN 1 ELSE 0) \in Nat
    BY <1>1
  <2> QED  BY <1>1
<1>4. \A k \in Loop : ops'[k] = ops[k]
  BY <1>1, <1>2
<1> QED  BY <1>1, <1>3, <1>4 DEF AtMostOne

\* A handler that keeps the session going starts exactly one operation x of the loop.
LEMMA Continues ==
  ASSUME SessionInv, NEW done \in Loop, NEW started, Complete(done, started),
         NEW x \in Loop, started \cap Loop = {x},
         x = "second" => temp' \in Headers /\ Process1(temp') = 0
  PROVE  SessionInv'
<1>1. /\ ops' \in [Reads \cup Writes -> Nat]
      /\ AtMostOne'
      /\ \A k \in Loop : ops'[k] > 0 <=> k \in started
  BY LoopStep
<1>2. ops'[x] > 0
  BY <1>1
<1>3. "second" \in Loop
  BY DEF Loop, Reads
<1>4. SecondIsGood'
  BY <1>1, <1>3 DEF SecondIsGood
<1> QED  BY <1>1, <1>2, <1>4 DEF SessionInv

\* A handler that starts nothing leaves the registry, or the process is gone.
LEMMA Ends ==
  ASSUME SessionInv, NEW done \in Loop, Complete(done, {}), ~registered' \/ crashed'
  PROVE  SessionInv'
<1>1. /\ ops' \in [Reads \cup Writes -> Nat]
      /\ AtMostOne'
      /\ \A k \in Loop : ops'[k] > 0 <=> k \in {}
  BY LoopStep
<1>2. SecondIsGood'
  BY <1>1 DEF SecondIsGood, Loop, Reads
<1> QED  BY <1>1, <1>2 DEF SessionInv

\* cancel_socket, from a read of the loop.
LEMMA Cancels ==
  ASSUME SessionInv, NEW done \in Loop, NEW code, CancelSocket(done, code)
  PROVE  SessionInv'
<1>1. Complete(done, {"close"})
  BY DEF CancelSocket, ReadCompletes
<1>2. "close" \in Loop
  BY DEF Loop
<1>3. {"close"} \cap Loop = {"close"}
  BY <1>2
<1> QED  BY <1>1, <1>2, <1>3, Continues

\* The three ways on from a step of the data path.
LEMMA AfterChunkStep ==
  ASSUME SessionInv, NEW done \in Loop, AfterChunk(done)
  PROVE  SessionInv'
<1>1. CASE CancelSocket(done, 1007)
  BY <1>1, Cancels
<1>2. CASE ReadCompletes(done, {"payload"})
  <2>1. Complete(done, {"payload"}) /\ "payload" \in Loop
        /\ {"payload"} \cap Loop = {"payload"}
    BY <1>2 DEF ReadCompletes, Loop, Reads
  <2> QED  BY <2>1, Continues
<1>3. CASE ReadCompletes(done, {"first"})
  <2>1. Complete(done, {"first"}) /\ "first" \in Loop /\ {"first"} \cap Loop = {"first"}
    BY <1>3 DEF ReadCompletes, Loop, Reads
  <2> QED  BY <2>1, Continues
<1> QED  BY <1>1, <1>2, <1>3 DEF AfterChunk
-----------------------------------------------------------------------------
\* Each handler keeps SessionInv and is a step of the data path or leaves it alone.
StepGoal == SessionInv' /\ [GatherNext]_gatherVars

\* The first request: an answer, an end or a crash (ws_session.cpp:71-134).
LEMMA FirstRequestStep ==
  ASSUME SessionInv, NEW r \in Requests, HandleFirstRequest(r)
  PROVE  StepGoal
<1>1. "request" \in Loop /\ "reply" \in Loop /\ {"reply"} \cap Loop = {"reply"}
  BY DEF Loop, Reads
<1>2. CASE Complete("request", {"reply"}) /\ UNCHANGED gatherVars
  BY <1>1, <1>2, Continues DEF StepGoal
<1>3. CASE Complete("request", {}) /\ Unregister /\ Stop
  <2>1. ~registered'
    BY <1>3 DEF Unregister
  <2> QED  BY <1>1, <1>3, <2>1, Ends DEF StepGoal, GatherNext
<1>4. CASE Complete("request", {}) /\ crashed' = TRUE /\ UNCHANGED gatherVars
  BY <1>1, <1>4, Ends DEF StepGoal
<1> QED  BY <1>2, <1>3, <1>4 DEF HandleFirstRequest

\* The answer is written, and the read loop begins.
LEMMA RepliedStep ==
  ASSUME SessionInv, Replied
  PROVE  StepGoal
<1>1. /\ Complete("reply", {"first"}) /\ "reply" \in Loop /\ "first" \in Loop
      /\ {"first"} \cap Loop = {"first"} /\ UNCHANGED gatherVars
  BY DEF Replied, Loop, Reads
<1> QED  BY <1>1, Continues DEF StepGoal

\* The first two bytes of a header (handle_read_header).
LEMMA FirstStep ==
  ASSUME SessionInv, NEW f \in Headers, HandleFirst(f)
  PROVE  StepGoal
<1>1. "first" \in Loop /\ "second" \in Loop /\ {"second"} \cap Loop = {"second"}
  BY DEF Loop, Reads
<1>2. CASE CancelSocket("first", Process1(f)) /\ Stop
  BY <1>1, <1>2, Cancels DEF StepGoal, GatherNext
<1>3. CASE Process1(f) = 0 /\ ReadCompletes("first", {"second"}) /\ UNCHANGED gatherVars
  <2>1. Complete("first", {"second"}) /\ temp' = f
    BY <1>3 DEF ReadCompletes, HandleFirst
  <2> QED  BY <1>1, <1>3, <2>1, Continues DEF StepGoal
<1> QED  BY <1>2, <1>3 DEF HandleFirst

\* The header of a data frame that both halves of process() accept is one Gather takes.
LEMMA DataHeader ==
  ASSUME SecondIsGood, ops["second"] > 0, temp.opcode \notin Control
  PROVE  /\ temp.size \in Payloads /\ temp.fin \in BOOLEAN /\ temp.unmasked \in BOOLEAN
         /\ temp.opcode \in Opcodes
<1>1. temp \in Headers /\ Process1(temp) = 0
  BY DEF SecondIsGood
<1>2. temp \in FrameHeaders(PeerOpcodes \ Control, Payloads)
        \/ temp \in FrameHeaders(PeerOpcodes \cap Control, ControlSizes)
  BY <1>1 DEF Headers
<1>3. temp \notin FrameHeaders(PeerOpcodes \cap Control, ControlSizes)
  BY DEF FrameHeaders
<1>4. temp \in FrameHeaders(PeerOpcodes \ Control, Payloads)
  BY <1>2, <1>3
<1>5. temp.size \in Payloads /\ temp.fin \in BOOLEAN /\ temp.unmasked \in BOOLEAN
      /\ temp.opcode \in PeerOpcodes
  BY <1>4 DEF FrameHeaders
<1>6. temp.opcode \in 0 .. 15
  BY <1>5, OpcodesAssumption
<1>7. temp.opcode \notin Reserved
  BY <1>1 DEF Process1
<1> QED  BY <1>5, <1>6, <1>7 DEF Control, Reserved, Opcodes

\* The rest of a header, of a message's frame or of a control frame.
LEMMA SecondStep ==
  ASSUME SessionInv, HandleSecond
  PROVE  StepGoal
<1>1. "second" \in Loop /\ "control" \in Loop /\ {"control"} \cap Loop = {"control"}
  BY DEF Loop, Reads
<1> DEFINE code == Process2(temp, newRequest)
<1> HIDE DEF code
<1>2. CASE CancelSocket("second", code) /\ Stop
  BY <1>1, <1>2, Cancels DEF StepGoal, GatherNext
<1>3. CASE StartControl
  <2>1. Complete("second", {"control"}) /\ UNCHANGED gatherVars
    BY <1>3 DEF StartControl, ReadCompletes
  <2> QED  BY <1>1, <2>1, Continues DEF StepGoal
<1>4. CASE /\ temp.opcode \notin Control
           /\ Frame(temp.size, temp.fin, temp.opcode, temp.unmasked)
           /\ AfterChunk("second")
  <2>1. SessionInv'
    BY <1>1, <1>4, AfterChunkStep
  <2>2. ops["second"] > 0
    BY <1>4 DEF AfterChunk, CancelSocket, ReadCompletes, Complete
  <2>3. GatherNext
    BY <1>4, <2>2, DataHeader DEF SessionInv, GatherNext
  <2> QED  BY <2>1, <2>3 DEF StepGoal
<1> QED  BY <1>2, <1>3, <1>4 DEF HandleSecond, code

\* A read of a payload (read_chunk).
LEMMA PayloadStep ==
  ASSUME SessionInv, HandlePayload
  PROVE  StepGoal
<1>1. "payload" \in Loop
  BY DEF Loop, Reads
<1> QED  BY <1>1, AfterChunkStep DEF HandlePayload, StepGoal, GatherNext

\* A read that leaves its chunk is the last thing the model has of the session.
LEMMA OverrunStep ==
  ASSUME SessionInv, HandleOverrun
  PROVE  StepGoal
<1>1. "payload" \in Loop /\ Complete("payload", {}) /\ crashed'
  BY DEF Loop, Reads, HandleOverrun
<1> QED  BY <1>1, Ends DEF HandleOverrun, StepGoal, GatherNext

\* A control frame's payload (handle_control_read).
LEMMA ControlStep ==
  ASSUME SessionInv, NEW p, HandleControl(p)
  PROVE  StepGoal
<1>1. /\ "control" \in Loop /\ "first" \in Loop
      /\ {"first"} \cap Loop = {"first"} /\ {"first", "pong"} \cap Loop = {"first"}
  BY DEF Loop, Reads
<1>2. ASSUME NEW code, CancelSocket("control", code), Stop
      PROVE  StepGoal
  BY <1>1, <1>2, Cancels DEF StepGoal, GatherNext
<1>3. CASE ReadCompletes("control", {"first"}) /\ UNCHANGED gatherVars
  <2>1. Complete("control", {"first"})
    BY <1>3 DEF ReadCompletes
  <2> QED  BY <1>1, <1>3, <2>1, Continues DEF StepGoal
<1>4. CASE ReadCompletes("control", {"first", "pong"}) /\ UNCHANGED gatherVars
  <2>1. Complete("control", {"first", "pong"})
    BY <1>4 DEF ReadCompletes
  <2> QED  BY <1>1, <1>4, <2>1, Continues DEF StepGoal
<1>5. CASE ReadCompletes("control", {"close"}) /\ Stop
  <2>1. Complete("control", {"close"}) /\ "close" \in Loop /\ {"close"} \cap Loop = {"close"}
    BY <1>5 DEF ReadCompletes, Loop
  <2> QED  BY <1>1, <1>5, <2>1, Continues DEF StepGoal, GatherNext
<1> QED  BY <1>2, <1>3, <1>4, <1>5 DEF HandleControl

\* A read of the loop, or the answer, fails.
LEMMA LoopFailsStep ==
  ASSUME SessionInv, NEW k \in Reads \cup {"reply"}, LoopFails(k)
  PROVE  StepGoal
<1>1. k \in Loop /\ Complete(k, {}) /\ ~registered'
  BY DEF Loop, LoopFails, ReadCompletes, Unregister
<1> QED  BY <1>1, Ends DEF LoopFails, StepGoal, GatherNext

\* The close frame is written, or cannot be.
LEMMA CloseDoneStep ==
  ASSUME SessionInv, CloseDone
  PROVE  StepGoal
<1>1. "close" \in Loop /\ Complete("close", {}) /\ ~registered'
  BY DEF Loop, CloseDone, Unregister
<1> QED  BY <1>1, Ends DEF CloseDone, StepGoal

\* A pong or a broadcast is written, or cannot be.
LEMMA WriteDoneStep ==
  ASSUME SessionInv, NEW k \in {"pong", "data"}, WriteDone(k)
  PROVE  StepGoal
<1>1. k \in Writes \ Loop /\ Complete(k, {})
  BY DEF Writes, Loop, Reads, WriteDone
<1>2. /\ ops' \in [Reads \cup Writes -> Nat]
      /\ AtMostOne'
      /\ \A j \in Loop : ops'[j] = ops[j]
  BY <1>1, OtherStep
<1>3. /\ registered' => registered
      /\ crashed' = crashed /\ temp' = temp /\ UNCHANGED gatherVars
  <2>1. registered' \in {registered, FALSE}
    BY DEF WriteDone
  <2>2. registered' => registered
    BY <2>1, Zenon
  <2> QED  BY <2>2 DEF WriteDone
<1>4. "second" \in Loop
  BY DEF Loop, Reads
<1> QED  BY <1>2, <1>3, <1>4 DEF SessionInv, SecondIsGood, StepGoal

\* The dealer's thread writes a broadcast to a session of the registry.
LEMMA WriteStep ==
  ASSUME SessionInv, Write
  PROVE  StepGoal
<1>1. /\ ops \in [Reads \cup Writes -> Nat] /\ ops' = [ops EXCEPT !["data"] = @ + 1]
      /\ registered' = registered /\ crashed' = crashed /\ temp' = temp
      /\ UNCHANGED gatherVars
  BY DEF SessionInv, Write
<1>2. "data" \notin Loop /\ "second" \in Loop /\ Loop \subseteq Reads \cup Writes
  BY DEF Loop, Reads, Writes
<1>3. "data" \in Reads \cup Writes /\ ops["data"] + 1 \in Nat
  BY <1>1 DEF Writes
<1>4. ops' \in [Reads \cup Writes -> Nat]
  BY <1>1, <1>3
<1>5. \A k \in Loop : ops'[k] = ops[k]
  BY <1>1, <1>2
<1> QED  BY <1>1, <1>2, <1>4, <1>5 DEF SessionInv, AtMostOne, SecondIsGood, StepGoal

\* Broadcast and Request touch neither the operations nor the data path.
LEMMA AsideStep ==
  ASSUME SessionInv, UNCHANGED <<gatherVars, ops, registered, crashed, temp>>
  PROVE  StepGoal
BY DEF SessionInv, AtMostOne, SecondIsGood, StepGoal

\* Every step keeps the invariant and moves the data path as Gather may.
LEMMA SessionStep == SessionInv /\ [SessionNext]_sessionVars => StepGoal
<1> SUFFICES ASSUME SessionInv, [SessionNext]_sessionVars PROVE StepGoal
  OBVIOUS
<1>1. CASE Broadcast
  BY <1>1, AsideStep DEF Broadcast
<1>2. ASSUME NEW i \in 1 .. Len(queue), Request(i) PROVE StepGoal
  BY <1>2, AsideStep DEF Request
<1>3. CASE UNCHANGED sessionVars
  BY <1>3, AsideStep DEF sessionVars, sessionOnly
<1> QED  BY <1>1, <1>2, <1>3, FirstRequestStep, RepliedStep, FirstStep, SecondStep,
            PayloadStep, OverrunStep, ControlStep, LoopFailsStep, CloseDoneStep, WriteDoneStep,
            WriteStep
         DEF SessionNext

\* A new session waits for its first request, its data path new.
LEMMA SessionStarts == SessionInit => SessionInv /\ GatherInit
<1> SUFFICES ASSUME SessionInit PROVE SessionInv /\ GatherInit
  OBVIOUS
<1>1. /\ ops = [k \in Reads \cup Writes |-> IF k = "request" THEN 1 ELSE 0]
      /\ GatherInit
  BY DEF SessionInit
<1>2. /\ "request" \in Loop /\ "second" \in Loop /\ "second" # "request"
      /\ Loop \subseteq Reads \cup Writes
  BY DEF Loop, Reads, Writes
<1>3. ops \in [Reads \cup Writes -> Nat]
  BY <1>1
<1>4. \A k \in Loop : ops[k] = IF k = "request" THEN 1 ELSE 0
  BY <1>1, <1>2
<1>5. AtMostOne
  BY <1>4 DEF AtMostOne
<1>6. ops["request"] > 0 /\ ~(ops["second"] > 0)
  BY <1>2, <1>4
<1> QED  BY <1>1, <1>2, <1>3, <1>5, <1>6 DEF SessionInv, SecondIsGood

\* The inductive invariant holds in every reachable state.
THEOREM SessionInvariant == SessionSafety => []SessionInv
<1>1. SessionInit => SessionInv
  BY SessionStarts
<1>2. SessionInv /\ [SessionNext]_sessionVars => SessionInv'
  BY SessionStep DEF StepGoal
<1> QED  BY <1>1, <1>2, PTL DEF SessionSafety

\* Whatever pongs, broadcasts and requests are in flight, and however operations fail: a
\* session never runs two read loops, never reads on while it closes, and does not stay
\* in unauthed_ without an operation that leads to its removal (ws_session.cpp:71-331).
THEOREM SessionHasOneLoop == SessionSafety => []OneLoop
<1>1. SessionInv => OneLoop
  BY DEF SessionInv, AtMostOne, OneLoop
<1> QED  BY <1>1, SessionInvariant, PTL

\* For any number of io threads the session drives its data path as Gather says: control
\* frames between fragments, broadcasts and requests leave it alone.
THEOREM SessionDrivesGather == SessionSafety => DataPathIsGather
<1>1. SessionInit => GatherInit
  BY SessionStarts
<1>2. SessionInv /\ [SessionNext]_sessionVars => [GatherNext]_gatherVars
  BY SessionStep DEF StepGoal
<1> QED  BY <1>1, <1>2, SessionInvariant, PTL
         DEF SessionSafety, DataPathIsGather, GatherSafety

\* So a read of a session never takes more than its frame, and leaves the chunk it fills
\* only in a message that announces 2^64 bytes, new_chunk never throws, and until there is
\* such a message what the session posts is the reassembly of what its peer sent
\* (ws_session.cpp:164-204).
THEOREM SessionReassembles ==
  SessionSafety => /\ []ReadsStayInLastChunk /\ []ReadsStayInFrame /\ []NeverGrowsClosed
                   /\ ImplementsReassembly
<1> QED  BY SessionDrivesGather, ReadsFitTheChunk, ReadsFitTheFrame, NewChunkNeverThrows,
            GatherImplementsReassembly, PTL
         DEF DataPathIsGather
-----------------------------------------------------------------------------
\* What a session's life hangs on tells its stage.
StageOf(k) == IF k = "close" THEN "closing"
              ELSE IF k = "request" THEN "handshake"
              ELSE IF k = "reply" THEN "reply" ELSE "open"

\* Which operation of the loop is under way tells the stage of the session's life.
LEMMA StageIs ==
  \A x \in Loop : ~crashed /\ AtMostOne /\ ops[x] > 0 => StageReached = StageOf(x)
<1> SUFFICES ASSUME NEW x \in Loop, ~crashed, AtMostOne, ops[x] > 0
             PROVE  StageReached = StageOf(x)
  OBVIOUS
<1>1. \A k \in Loop : ops[k] > 0 => k = x
  BY DEF AtMostOne
<1>2. /\ "close" \in Loop /\ "request" \in Loop /\ "reply" \in Loop /\ Reads \subseteq Loop
      /\ x \in Reads \cup {"reply", "close"} /\ "request" \in Reads
      /\ "close" \notin Reads /\ "reply" \notin Reads
  BY DEF Loop, Reads
<1>3. /\ Pending({"close"}) <=> x = "close"
      /\ Pending({"request"}) <=> x = "request"
      /\ Pending({"reply"}) <=> x = "reply"
      /\ Pending(Reads) <=> x \in Reads
  BY <1>1, <1>2 DEF Pending
<1> QED  BY <1>2, <1>3 DEF StageReached, StageOf

\* With none under way the session is over.
LEMMA StageOver == ~crashed /\ (\A k \in Loop : ~(ops[k] > 0)) => StageReached = "over"
BY DEF StageReached, Pending, Loop, Reads

\* StageIs after a step.
LEMMA StageIsNext ==
  (\A x \in Loop : ~crashed /\ AtMostOne /\ ops[x] > 0 => StageReached = StageOf(x))'
BY StageIs, PTL

\* StageOver after a step.
LEMMA StageOverNext ==
  (~crashed /\ (\A k \in Loop : ~(ops[k] > 0)) => StageReached = "over")'
BY StageOver, PTL

LifeGoal == [Life!LifecycleNext]_<<StageReached, registered>>

\* The stage before a handler of the loop and, if it starts x, after it.
LEMMA StageSteps ==
  ASSUME SessionInv, NEW done \in Loop, NEW started, Complete(done, started), ~crashed',
         NEW x \in Loop, started \cap Loop = {x}
  PROVE  StageReached = StageOf(done) /\ StageReached' = StageOf(x)
<1>1. ~crashed /\ AtMostOne /\ ops[done] > 0
  BY DEF SessionInv, Complete
<1>2. AtMostOne' /\ ops'[x] > 0
  BY LoopStep
<1> QED  BY <1>1, <1>2, StageIs, StageIsNext

\* And if it starts nothing.
LEMMA LifeEnds ==
  ASSUME SessionInv, NEW done \in Loop, Complete(done, {}), ~crashed', ~registered'
  PROVE  LifeGoal
<1>1. StageReached = StageOf(done)
  BY StageIs DEF SessionInv, Complete
<1>2. \A k \in Loop : ~(ops'[k] > 0)
  BY LoopStep
<1>3. StageReached' = "over"
  BY <1>2, StageOverNext
<1>4. StageReached \in Life!Running
  BY <1>1 DEF StageOf, Life!Running
<1> QED  BY <1>3, <1>4 DEF LifeGoal, Life!LifecycleNext, Life!Finish

\* The read loop goes on, or to the close frame.
LEMMA LifeReads ==
  ASSUME SessionInv, NEW done \in Reads \ {"request"}, NEW started, Complete(done, started),
         UNCHANGED <<crashed, registered>>,
         NEW x \in (Reads \ {"request"}) \cup {"close"}, started \cap Loop = {x}
  PROVE  LifeGoal
<1>1. done \in Loop /\ x \in Loop /\ done # "close" /\ done # "reply" /\ x # "reply"
  BY DEF Loop, Reads
<1>2. ~crashed'
  BY DEF Complete
<1>3. StageReached = "open"
  BY <1>1, <1>2, StageSteps DEF StageOf
<1>4. StageReached' = StageOf(x)
  BY <1>1, <1>2, StageSteps
<1>5. StageReached' = "open" \/ StageReached' = "closing"
  BY <1>1, <1>4 DEF StageOf
<1> QED  BY <1>3, <1>5 DEF LifeGoal, Life!LifecycleNext, Life!Close

\* cancel_socket closes the session once.
LEMMA LifeCancels ==
  ASSUME SessionInv, NEW done \in Reads \ {"request"}, NEW code, CancelSocket(done, code),
         crashed' = crashed
  PROVE  LifeGoal
<1>1. Complete(done, {"close"}) /\ registered' = registered /\ {"close"} \cap Loop = {"close"}
  BY DEF CancelSocket, ReadCompletes, Loop
<1> QED  BY <1>1, LifeReads

\* A read that starts the next is no event in the session's life.
LEMMA LifeReadsOn ==
  ASSUME SessionInv, NEW done \in Reads \ {"request"}, NEW started,
         ReadCompletes(done, started), UNCHANGED <<crashed, registered>>,
         NEW x \in Reads \ {"request"}, started \subseteq {x, "pong"}, x \in started
  PROVE  LifeGoal
<1>1. Complete(done, started) /\ started \cap Loop = {x}
  BY DEF ReadCompletes, Loop, Reads
<1> QED  BY <1>1, LifeReads

\* read_chunk reads on or closes.
LEMMA LifeAfterChunk ==
  ASSUME SessionInv, NEW done \in Reads \ {"request"}, AfterChunk(done), crashed' = crashed
  PROVE  LifeGoal
<1>1. "payload" \in Reads \ {"request"} /\ "first" \in Reads \ {"request"}
  BY DEF Reads
<1> QED  BY <1>1, LifeCancels, LifeReadsOn DEF AfterChunk

\* What leaves the loop's operations alone leaves the stage.
LEMMA LifeAside ==
  ASSUME SessionInv, \A k \in Loop : ops'[k] = ops[k], crashed' = crashed
  PROVE  StageReached' = StageReached
<1>1. /\ "close" \in Loop /\ "request" \in Loop /\ "reply" \in Loop /\ Reads \subseteq Loop
  BY DEF Loop, Reads
<1>2. /\ Pending({"close"})' <=> Pending({"close"})
      /\ Pending({"request"})' <=> Pending({"request"})
      /\ Pending({"reply"})' <=> Pending({"reply"})
      /\ Pending(Reads)' <=> Pending(Reads)
  BY <1>1 DEF Pending
<1> QED  BY <1>2 DEF StageReached

\* The handshake is answered, ends the session or does not survive.
LEMMA LifeFirstRequest ==
  ASSUME SessionInv, NEW r \in Requests, HandleFirstRequest(r)
  PROVE  LifeGoal
<1>1. "request" \in Loop /\ "reply" \in Loop /\ {"reply"} \cap Loop = {"reply"}
  BY DEF Loop, Reads
<1>2. ~crashed /\ StageReached = "handshake"
  <2>1. ~crashed /\ AtMostOne /\ ops["request"] > 0
    BY DEF SessionInv, HandleFirstRequest, Complete
  <2> QED  BY <1>1, <2>1, StageIs DEF StageOf
<1>3. CASE Complete("request", {"reply"}) /\ UNCHANGED <<registered, crashed>>
  <2>1. StageReached' = "reply"
    BY <1>1, <1>2, <1>3, StageSteps DEF StageOf
  <2> QED  BY <1>2, <1>3, <2>1 DEF LifeGoal, Life!LifecycleNext, Life!Answer
<1>4. CASE Complete("request", {}) /\ Unregister /\ UNCHANGED crashed
  BY <1>1, <1>2, <1>4, LifeEnds DEF Unregister
<1>5. CASE crashed' = TRUE /\ UNCHANGED registered
  <2>1. StageReached' = "crashed"
    BY <1>5 DEF StageReached
  <2> QED  BY <1>2, <1>5, <2>1 DEF LifeGoal, Life!LifecycleNext, Life!Crash
<1> QED  BY <1>3, <1>4, <1>5 DEF HandleFirstRequest

\* The answer written opens the session, or its failure ends it.
LEMMA LifeReplied ==
  ASSUME SessionInv, Replied
  PROVE  LifeGoal
<1>1. /\ Complete("reply", {"first"}) /\ UNCHANGED <<registered, crashed>> /\ ~crashed
      /\ "reply" \in Loop /\ "first" \in Loop /\ {"first"} \cap Loop = {"first"}
  BY DEF Replied, Complete, Loop, Reads
<1>2. StageReached = "reply" /\ StageReached' = "open"
  BY <1>1, StageSteps DEF StageOf
<1> QED  BY <1>1, <1>2 DEF LifeGoal, Life!LifecycleNext, Life!Open

\* A control frame closes the session or is read past.
LEMMA LifeControl ==
  ASSUME SessionInv, NEW p, HandleControl(p)
  PROVE  LifeGoal
<1>1. "control" \in Reads \ {"request"} /\ "first" \in Reads \ {"request"}
  BY DEF Reads
<1>2. crashed' = crashed
  BY DEF HandleControl
<1>3. CASE ReadCompletes("control", {"close"}) /\ UNCHANGED registered
  <2>1. Complete("control", {"close"}) /\ {"close"} \cap Loop = {"close"}
    BY <1>3 DEF ReadCompletes, Loop
  <2> QED  BY <1>1, <1>2, <1>3, <2>1, LifeReads
<1> QED  BY <1>1, <1>2, <1>3, LifeCancels, LifeReadsOn DEF HandleControl

\* A read that leaves its chunk is the end of an open session.
LEMMA LifeOverrun ==
  ASSUME SessionInv, HandleOverrun
  PROVE  LifeGoal
<1>1. ~crashed /\ "payload" \in Loop /\ ops["payload"] > 0 /\ AtMostOne
  BY DEF SessionInv, HandleOverrun, Complete, Loop, Reads
<1>2. StageReached = "open"
  BY <1>1, StageIs DEF StageOf
<1>3. StageReached' = "crashed" /\ registered' = registered
  BY DEF StageReached, HandleOverrun
<1> QED  BY <1>2, <1>3 DEF LifeGoal, Life!LifecycleNext, Life!Crash

\* A write that fails drops the session from the registry, its life going on.
LEMMA LifeWriteDone ==
  ASSUME SessionInv, NEW k \in {"pong", "data"}, WriteDone(k)
  PROVE  LifeGoal
<1>1. k \in Writes \ Loop /\ Complete(k, {}) /\ ~crashed
  BY DEF Writes, Loop, Reads, WriteDone, Complete
<1>2. (\A j \in Loop : ops'[j] = ops[j]) /\ crashed' = crashed
  BY <1>1, OtherStep DEF WriteDone
<1>3. StageReached' = StageReached
  BY <1>2, LifeAside
<1>4. StageReached # "crashed"
  BY <1>1 DEF StageReached
<1>5. registered' \in {registered, FALSE}
  BY DEF WriteDone
<1>6. CASE registered' = FALSE
  BY <1>3, <1>4, <1>6 DEF LifeGoal, Life!LifecycleNext, Life!Drop
<1>7. CASE registered' = registered
  BY <1>3, <1>7 DEF LifeGoal
<1> QED  BY <1>5, <1>6, <1>7, Zenon

\* A broadcast is no event in the session's life.
LEMMA LifeWrite ==
  ASSUME SessionInv, Write
  PROVE  LifeGoal
<1>1. \A k \in Loop : ops'[k] = ops[k]
  BY DEF Write, Loop, Reads, Writes, SessionInv
<1> QED  BY <1>1, LifeAside DEF Write, LifeGoal

\* Every step is one of Lifecycle, or none.
LEMMA LifeStep == SessionInv /\ [SessionNext]_sessionVars => LifeGoal
<1> SUFFICES ASSUME SessionInv, [SessionNext]_sessionVars PROVE LifeGoal
  OBVIOUS
<1>1. "first" \in Reads \ {"request"} /\ "second" \in Reads \ {"request"}
      /\ "control" \in Reads \ {"request"} /\ "payload" \in Reads \ {"request"}
  BY DEF Reads
<1>2. ASSUME UNCHANGED <<ops, registered, crashed>> PROVE LifeGoal
  BY <1>2, LifeAside DEF LifeGoal
<1>3. ASSUME NEW f \in Headers, HandleFirst(f) PROVE LifeGoal
  BY <1>1, <1>3, LifeCancels, LifeReadsOn DEF HandleFirst
<1>4. CASE HandleSecond
  <2>1. crashed' = crashed
    BY <1>4 DEF HandleSecond
  <2>2. CASE StartControl
    BY <1>1, <2>1, <2>2, LifeReadsOn DEF StartControl
  <2> QED  BY <1>1, <1>4, <2>1, <2>2, LifeCancels, LifeAfterChunk DEF HandleSecond
<1>5. CASE HandlePayload
  BY <1>1, <1>5, LifeAfterChunk DEF HandlePayload
<1>6. ASSUME NEW k \in Reads \cup {"reply"}, LoopFails(k) PROVE LifeGoal
  <2>1. k \in Loop /\ Complete(k, {}) /\ ~registered' /\ ~crashed'
    BY <1>6 DEF Loop, LoopFails, ReadCompletes, Unregister, Complete
  <2> QED  BY <2>1, LifeEnds
<1>7. CASE CloseDone
  <2>1. "close" \in Loop /\ Complete("close", {}) /\ ~registered' /\ ~crashed'
    BY <1>7 DEF Loop, CloseDone, Unregister, Complete
  <2> QED  BY <2>1, LifeEnds
<1>8. CASE Broadcast
  BY <1>2, <1>8 DEF Broadcast
<1>9. ASSUME NEW i \in 1 .. Len(queue), Request(i) PROVE LifeGoal
  BY <1>2, <1>9 DEF Request
<1>10. CASE UNCHANGED sessionVars
  BY <1>2, <1>10 DEF sessionVars, sessionOnly
<1> QED  BY <1>3, <1>4, <1>5, <1>6, <1>7, <1>8, <1>9, <1>10, LifeFirstRequest, LifeReplied,
            LifeControl, LifeOverrun, LifeWriteDone, LifeWrite
         DEF SessionNext

\* For any number of io threads and broadcasts, a session answers its handshake, reads,
\* closes once and ends; it leaves unauthed_ when its last operation is over and never
\* comes back (handlers, ws_session.cpp:60-331).
THEOREM SessionImplementsLifecycle == SessionSafety => ImplementsLifecycle
<1>1. SessionInit => Life!LifecycleInit
  <2> SUFFICES ASSUME SessionInit PROVE Life!LifecycleInit
    OBVIOUS
  <2>1. ops = [k \in Reads \cup Writes |-> IF k = "request" THEN 1 ELSE 0]
        /\ registered = TRUE /\ ~crashed /\ SessionInv
    BY SessionStarts DEF SessionInit
  <2>2. "request" \in Loop /\ ops["request"] > 0
    BY <2>1 DEF Loop, Reads
  <2>3. StageReached = "handshake"
    BY <2>1, <2>2, StageIs DEF SessionInv, StageOf
  <2> QED  BY <2>1, <2>3 DEF Life!LifecycleInit
<1>2. SessionInv /\ [SessionNext]_sessionVars => [Life!LifecycleNext]_<<StageReached, registered>>
  BY LifeStep DEF LifeGoal
<1> QED  BY <1>1, <1>2, SessionInvariant, PTL
         DEF SessionSafety, ImplementsLifecycle, Life!LifecycleSpec, Life!lifecycleVars

-----------------------------------------------------------------------------
Going == {"header", "payload"}     \* the phases in which the data path waits for bytes

\* What is read when a handler runs: an operation of the loop other than those of the
\* payload and the close frame completes while the data path is between two frames, and
\* any read of the loop while it waits for bytes.
LEMMA DueBefore ==
  ASSUME SessionInv, ReadsWhatIsDue, NEW done \in Reads \cup {"reply"}, NEW started,
         Complete(done, started)
  PROVE  phase \in Going /\ (done # "payload" => phase # "payload")
<1>1. ~crashed /\ ops[done] > 0
  BY DEF Complete
<1>2. phase \in Going
  BY <1>1 DEF ReadsWhatIsDue, Pending, Going
<1>3. "payload" \in Loop /\ done \in Loop
  BY DEF Loop, Reads
<1>4. ASSUME done # "payload" PROVE ~(ops["payload"] > 0)
  BY <1>1, <1>3, <1>4 DEF SessionInv, AtMostOne
<1>5. ops["payload"] > 0 <=> phase = "payload"
  BY Zenon DEF ReadsWhatIsDue, Pending
<1> QED  BY <1>2, <1>4, <1>5

\* A handler of the loop keeps step when what it starts is what the data path then
\* waits for.
LEMMA DueStep ==
  ASSUME SessionInv, NEW done \in Loop, NEW started, Complete(done, started),
         \A j, k \in started \cap Loop : j = k,
         "payload" \in started <=> phase' = "payload",
         crashed' \/ ((\E k \in started : k \in Reads \cup {"reply"}) <=> phase' \in Going)
  PROVE  ReadsWhatIsDue'
<1>1. \A k \in Loop : ops'[k] > 0 <=> k \in started
  BY LoopStep
<1>2. "payload" \in Loop /\ Reads \cup {"reply"} \subseteq Loop
  BY DEF Loop, Reads
<1>3. Pending({"payload"})' <=> phase' = "payload"
  BY <1>1, <1>2 DEF Pending
<1>4. Pending(Reads \cup {"reply"})' <=> \E k \in started : k \in Reads \cup {"reply"}
  BY <1>1, <1>2 DEF Pending
<1> QED  BY <1>3, <1>4 DEF ReadsWhatIsDue, Going

\* cancel_socket, which always comes with the end of the data path.
LEMMA DueAtCancel ==
  ASSUME SessionInv, NEW done \in Loop, NEW code, CancelSocket(done, code),
         phase' = "stopped"
  PROVE  ReadsWhatIsDue'
<1>1. Complete(done, {"close"})
  BY DEF CancelSocket, ReadCompletes
<1>2. \A k \in {"close"} : k \notin Reads \cup {"reply"}
  BY DEF Reads
<1>3. "payload" \notin {"close"} /\ phase' # "payload" /\ phase' \notin Going
  BY DEF Going
<1> QED  BY <1>1, <1>2, <1>3, DueStep

\* A handler that reads the next header, or the answer's, and leaves the data path alone.
LEMMA DueAtHeader ==
  ASSUME SessionInv, ReadsWhatIsDue, NEW done \in (Reads \cup {"reply"}) \ {"payload"},
         NEW started, Complete(done, started), phase' = phase,
         NEW x \in (Reads \cup {"reply"}) \ {"payload"},
         x \in started, started \cap Loop = {x}
  PROVE  ReadsWhatIsDue'
<1>1. phase' \in Going /\ phase' # "payload"
  BY DueBefore
<1>2. done \in Loop /\ "payload" \in Loop /\ x # "payload"
  BY DEF Loop, Reads
<1>3. "payload" \notin started
  BY <1>2
<1> QED  BY <1>1, <1>2, <1>3, DueStep

\* The three ways on from a step of the data path, which say themselves what is due.
LEMMA DueAfterChunk ==
  ASSUME SessionInv, NEW done \in Loop, AfterChunk(done)
  PROVE  ReadsWhatIsDue'
<1>1. CASE phase' = "stopped" /\ CancelSocket(done, 1007)
  BY <1>1, DueAtCancel
<1>2. CASE phase' = "payload" /\ ReadCompletes(done, {"payload"})
  <2>1. Complete(done, {"payload"}) /\ "payload" \in Reads /\ phase' \in Going
    BY <1>2 DEF ReadCompletes, Reads, Going
  <2> QED  BY <1>2, <2>1, DueStep
<1>3. CASE phase' = "header" /\ ReadCompletes(done, {"first"})
  <2>1. Complete(done, {"first"}) /\ "first" \in Reads /\ "payload" \notin {"first"}
        /\ phase' \in Going
    BY <1>3 DEF ReadCompletes, Reads, Going
  <2> QED  BY <1>3, <2>1, DueStep
<1> QED  BY <1>1, <1>2, <1>3 DEF AfterChunk

\* The first request: the answer is due, or nothing more.
LEMMA DueFirstRequest ==
  ASSUME SessionInv, ReadsWhatIsDue, NEW r \in Requests, HandleFirstRequest(r)
  PROVE  ReadsWhatIsDue'
<1>1. /\ "request" \in Loop /\ "request" \in (Reads \cup {"reply"}) \ {"payload"}
      /\ "reply" \in (Reads \cup {"reply"}) \ {"payload"} /\ {"reply"} \cap Loop = {"reply"}
  BY DEF Loop, Reads
<1>2. CASE Complete("request", {"reply"}) /\ UNCHANGED gatherVars
  <2>1. phase' = phase
    BY <1>2 DEF gatherVars
  <2> QED  BY <1>1, <1>2, <2>1, DueAtHeader
<1>3. CASE Complete("request", {}) /\ Stop
  <2>1. phase' \notin Going /\ phase' # "payload"
    BY <1>3 DEF Stop, Going
  <2> QED  BY <1>1, <1>3, <2>1, DueStep
<1>4. CASE Complete("request", {}) /\ crashed' = TRUE /\ UNCHANGED gatherVars
  <2>1. phase' # "payload"
    BY <1>1, <1>4, DueBefore DEF gatherVars
  <2> QED  BY <1>1, <1>4, <2>1, DueStep
<1> QED  BY <1>2, <1>3, <1>4 DEF HandleFirstRequest

\* The header's handlers, of its first two bytes and of its rest.
LEMMA DueHeader ==
  ASSUME SessionInv, ReadsWhatIsDue, HandleSecond \/ \E f \in Headers : HandleFirst(f)
  PROVE  ReadsWhatIsDue'
<1>1. /\ "first" \in Loop /\ "second" \in Loop
      /\ {"first", "second", "control"} \subseteq (Reads \cup {"reply"}) \ {"payload"}
      /\ {"second"} \cap Loop = {"second"} /\ {"control"} \cap Loop = {"control"}
  BY DEF Loop, Reads
<1>2. ASSUME NEW done \in {"first", "second"}, NEW code, CancelSocket(done, code), Stop
      PROVE  ReadsWhatIsDue'
  <2>1. phase' = "stopped"
    BY <1>2 DEF Stop
  <2> QED  BY <1>1, <1>2, <2>1, DueAtCancel
<1>3. CASE ReadCompletes("first", {"second"}) /\ UNCHANGED gatherVars
  <2>1. Complete("first", {"second"}) /\ phase' = phase
    BY <1>3 DEF ReadCompletes, gatherVars
  <2> QED  BY <1>1, <2>1, DueAtHeader
<1>4. CASE StartControl
  <2>1. Complete("second", {"control"}) /\ phase' = phase
    BY <1>4 DEF StartControl, ReadCompletes, gatherVars
  <2> QED  BY <1>1, <2>1, DueAtHeader
<1>5. CASE AfterChunk("second")
  BY <1>1, <1>5, DueAfterChunk
<1>6. CASE HandleSecond
  BY <1>2, <1>4, <1>5, <1>6 DEF HandleSecond
<1>7. ASSUME NEW f \in Headers, HandleFirst(f) PROVE ReadsWhatIsDue'
  BY <1>2, <1>3, <1>7 DEF HandleFirst
<1> QED  BY <1>6, <1>7

\* The handler of a control frame's payload: the session closes or reads on.
LEMMA DueControl ==
  ASSUME SessionInv, ReadsWhatIsDue, NEW p, HandleControl(p)
  PROVE  ReadsWhatIsDue'
<1>1. /\ "control" \in Loop /\ {"control", "first"} \subseteq (Reads \cup {"reply"}) \ {"payload"}
      /\ {"first"} \cap Loop = {"first"} /\ {"first", "pong"} \cap Loop = {"first"}
  BY DEF Loop, Reads
<1>2. ASSUME NEW code, CancelSocket("control", code), Stop
      PROVE  ReadsWhatIsDue'
  <2>1. phase' = "stopped"
    BY <1>2 DEF Stop
  <2> QED  BY <1>1, <1>2, <2>1, DueAtCancel
<1>3. ASSUME NEW started \in {{"first"}, {"first", "pong"}},
             ReadCompletes("control", started), UNCHANGED gatherVars
      PROVE  ReadsWhatIsDue'
  <2>1. Complete("control", started) /\ phase' = phase
    BY <1>3 DEF ReadCompletes, gatherVars
  <2>2. "first" \in started /\ started \cap Loop = {"first"}
    BY <1>1
  <2> QED  BY <1>1, <2>1, <2>2, DueAtHeader
<1>4. CASE ReadCompletes("control", {"close"}) /\ Stop
  <2>1. Complete("control", {"close"}) /\ phase' \notin Going /\ phase' # "payload"
    BY <1>4 DEF ReadCompletes, Stop, Going
  <2>2. "payload" \notin {"close"} /\ \A k \in {"close"} : k \notin Reads \cup {"reply"}
    BY DEF Reads
  <2> QED  BY <1>1, <2>1, <2>2, DueStep
<1> QED  BY <1>2, <1>3, <1>4 DEF HandleControl

\* The ends: a read that fails or leaves its chunk, and a close frame that is written.
LEMMA DueAtEnd ==
  ASSUME SessionInv, ReadsWhatIsDue,
         CloseDone \/ HandleOverrun \/ \E k \in Reads \cup {"reply"} : LoopFails(k)
  PROVE  ReadsWhatIsDue'
<1>1. ASSUME NEW k \in Reads \cup {"reply"}, LoopFails(k) PROVE ReadsWhatIsDue'
  <2>1. /\ k \in Loop /\ Complete(k, {})
        /\ phase' \notin Going /\ phase' # "payload"
    BY <1>1 DEF LoopFails, ReadCompletes, Stop, Loop, Going
  <2> QED  BY <2>1, DueStep
<1>2. CASE CloseDone
  <2>1. "close" \in Loop /\ Complete("close", {}) /\ phase' = phase
    BY <1>2 DEF CloseDone, Loop, gatherVars
  <2>2. ~crashed /\ ops["close"] > 0
    BY <2>1 DEF Complete
  <2>3. \A k \in Reads \cup {"reply"} : k \in Loop /\ k # "close"
    BY DEF Loop, Reads
  <2>4. \A k \in Reads \cup {"reply"} : ~(ops[k] > 0)
    BY <2>1, <2>2, <2>3 DEF SessionInv, AtMostOne
  <2>5. phase \notin Going
    BY <2>2, <2>4 DEF ReadsWhatIsDue, Pending, Going
  <2>6. phase' \notin Going /\ phase' # "payload"
    BY <2>1, <2>5 DEF Going
  <2> QED  BY <2>1, <2>6, DueStep
<1>3. CASE HandleOverrun
  <2>1. "payload" \in Loop /\ Complete("payload", {}) /\ phase' # "payload" /\ crashed'
    BY <1>3 DEF HandleOverrun, Overrun, Loop, Reads
  <2> QED  BY <2>1, DueStep
<1> QED  BY <1>1, <1>2, <1>3

\* Whatever goes on beside the loop.
LEMMA DueAside ==
  ASSUME ReadsWhatIsDue, \A k \in Loop : ops'[k] = ops[k], phase' = phase,
         crashed' = crashed
  PROVE  ReadsWhatIsDue'
<1>1. "payload" \in Loop /\ Reads \cup {"reply"} \subseteq Loop
  BY DEF Loop, Reads
<1>2. Pending({"payload"})' <=> Pending({"payload"})
  BY <1>1 DEF Pending
<1>3. Pending(Reads \cup {"reply"})' <=> Pending(Reads \cup {"reply"})
  BY <1>1 DEF Pending
<1> QED  BY <1>2, <1>3 DEF ReadsWhatIsDue

\* So do a pong, a broadcast and a request.
LEMMA DueBeside ==
  ASSUME SessionInv, ReadsWhatIsDue,
         \/ \E k \in {"pong", "data"} : WriteDone(k)
         \/ Write
         \/ UNCHANGED <<gatherVars, ops, crashed>>
  PROVE  ReadsWhatIsDue'
<1>1. ASSUME NEW k \in {"pong", "data"}, WriteDone(k) PROVE ReadsWhatIsDue'
  <2>1. k \in Writes \ Loop /\ Complete(k, {}) /\ phase' = phase /\ crashed' = crashed
    BY <1>1 DEF Writes, Loop, Reads, WriteDone, gatherVars
  <2>2. \A j \in Loop : ops'[j] = ops[j]
    BY <2>1, OtherStep
  <2> QED  BY <2>1, <2>2, DueAside
<1>2. CASE Write
  <2>1. /\ ops \in [Reads \cup Writes -> Nat] /\ ops' = [ops EXCEPT !["data"] = @ + 1]
        /\ phase' = phase /\ crashed' = crashed
    BY <1>2 DEF SessionInv, Write, gatherVars
  <2>2. "data" \notin Loop /\ Loop \subseteq Reads \cup Writes
    BY DEF Loop, Reads, Writes
  <2>3. \A k \in Loop : ops'[k] = ops[k]
    BY <2>1, <2>2
  <2> QED  BY <2>1, <2>3, DueAside
<1>3. CASE UNCHANGED <<gatherVars, ops, crashed>>
  <2>1. phase' = phase /\ crashed' = crashed /\ \A k \in Loop : ops'[k] = ops[k]
    BY <1>3 DEF gatherVars
  <2> QED  BY <2>1, DueAside
<1> QED  BY <1>1, <1>2, <1>3

\* The read loop reads a payload exactly while Gather waits for one, and nothing more
\* when the data path has stopped, for every number of threads.  The code's handlers do
\* not test for that, as Gather's actions do: it is so whenever they run.
THEOREM SessionReadsWhatIsDue == SessionSafety => []ReadsWhatIsDue
<1>1. SessionInit => ReadsWhatIsDue
  <2> SUFFICES ASSUME SessionInit PROVE ReadsWhatIsDue
    OBVIOUS
  <2>1. /\ ops = [k \in Reads \cup Writes |-> IF k = "request" THEN 1 ELSE 0]
        /\ phase = "header"
    BY DEF SessionInit, GatherInit
  <2>2. /\ "request" \in Reads /\ "payload" \in Reads /\ "payload" # "request"
    BY DEF Reads
  <2>3. ops["request"] = 1 /\ ops["payload"] = 0
    BY <2>1, <2>2
  <2> QED  BY <2>1, <2>2, <2>3 DEF ReadsWhatIsDue, Pending
<1>2. SessionInv /\ ReadsWhatIsDue /\ [SessionNext]_sessionVars => ReadsWhatIsDue'
  <2> SUFFICES ASSUME SessionInv, ReadsWhatIsDue, [SessionNext]_sessionVars
               PROVE  ReadsWhatIsDue'
    OBVIOUS
  <2>1. CASE Replied
    <3>1. /\ Complete("reply", {"first"}) /\ phase' = phase
          /\ "reply" \in (Reads \cup {"reply"}) \ {"payload"}
          /\ "first" \in (Reads \cup {"reply"}) \ {"payload"} /\ {"first"} \cap Loop = {"first"}
      BY <2>1 DEF Replied, gatherVars, Loop, Reads
    <3> QED  BY <3>1, DueAtHeader
  <2>2. CASE HandlePayload
    <3>1. "payload" \in Loop /\ AfterChunk("payload")
      BY <2>2 DEF HandlePayload, Loop, Reads
    <3> QED  BY <3>1, DueAfterChunk
  <2>3. CASE Broadcast \/ (\E i \in 1 .. Len(queue) : Request(i)) \/ UNCHANGED sessionVars
    <3>1. UNCHANGED <<gatherVars, ops, crashed>>
      BY <2>3 DEF Broadcast, Request, sessionVars, sessionOnly
    <3> QED  BY <3>1, DueBeside
  <2> QED  BY <2>1, <2>2, <2>3, DueFirstRequest, DueHeader, DueControl, DueAtEnd,
              DueBeside
           DEF SessionNext
<1> QED  BY <1>1, <1>2, SessionInvariant, PTL DEF SessionSafety

\* A data frame that neither half of process() refuses is one Gather has an action for:
\* of an opcode it knows, first or continuation as the message under way asks for, and
\* when it waits for a frame.
AcceptedFits ==
  /\ ~crashed /\ ops["second"] > 0
  /\ Process2(temp, newRequest) = 0 /\ temp.opcode \notin Control
  => /\ phase = "header" /\ temp.opcode \in Opcodes
     /\ newRequest <=> temp.opcode # 0

\* What Header accepts the data path can take, at whatever point of a message: but for
\* the bounds of the model nothing that the code goes on with is left out (ws_header.cpp,
\* handle_read_header, ws_session.cpp:142-175).
THEOREM AcceptedFramesFit == SessionSafety => []AcceptedFits
<1>1. SessionInv /\ ReadsWhatIsDue /\ GatherTypeOK => AcceptedFits
  <2> SUFFICES ASSUME SessionInv, ReadsWhatIsDue, GatherTypeOK, ~crashed, ops["second"] > 0,
                      Process2(temp, newRequest) = 0, temp.opcode \notin Control
               PROVE  /\ phase = "header" /\ temp.opcode \in Opcodes
                      /\ newRequest <=> temp.opcode # 0
    BY DEF AcceptedFits
  <2>1. temp.opcode \in Opcodes
    BY DataHeader DEF SessionInv
  <2>2. phase = "header"
    <3>1. "second" \in Loop /\ "payload" \in Loop /\ "second" \in Reads \cup {"reply"}
      BY DEF Loop, Reads
    <3>2. phase # "payload"
      BY <3>1 DEF SessionInv, AtMostOne, ReadsWhatIsDue, Pending
    <3>3. phase \in {"header", "payload"}
      BY <3>1 DEF ReadsWhatIsDue, Pending
    <3> QED  BY <3>2, <3>3
  <2>3. newRequest \in BOOLEAN
    BY DEF GatherTypeOK
  <2>4. newRequest => temp.opcode # 0
    BY DEF Process2
  <2>5. ~newRequest => temp.opcode = 0
    BY DEF Process2
  <2> QED  BY <2>1, <2>2, <2>3, <2>4, <2>5
<1>2. SessionSafety => GatherSafety
  BY SessionDrivesGather DEF DataPathIsGather
<1> QED  BY <1>1, <1>2, SessionInvariant, SessionReadsWhatIsDue, GatherTypes, PTL

=============================================================================
