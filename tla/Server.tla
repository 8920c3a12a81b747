------------------------------- MODULE Server -------------------------------
(***************************************************************************)
(* The server around its sessions: the accept loop, the registry unauthed_ *)
(* that sessions enter and leave, the dealer's thread, which receives a    *)
(* message and walks the registry to post Session::write to each entry,    *)
(* and the requests of the sessions (Publisher).                           *)
(*                                                                         *)
(* The registry is a std::set ordered by address and has no lock: io       *)
(* threads change it at the same time as each other, and while the         *)
(* dealer's thread walks it.  Such a change may fall between the accesses  *)
(* of the other thread and be clean; or coincide with one and leave the    *)
(* tree torn, and then an iterator may stand at any session and go to any, *)
(* or the process ends.                                                    *)
(***************************************************************************)
EXTENDS Publisher, FiniteSets

CONSTANTS Sessions,     \* addresses of Session objects
          PartCounts,   \* parts of the messages that other publishers send
          MaxPeers,     \* bound: peers that connect
          MaxIncoming   \* bound: messages that other publishers send

\* An address is left for the session that waits for a peer.
ASSUME ServerAssumption == /\ Sessions \subseteq Nat \ {0}
                           /\ PartCounts \subseteq Nat \ {0}
                           /\ MaxPeers \in Nat /\ MaxPeers < Cardinality(Sessions)
                           /\ MaxIncoming \in Nat

VARIABLES peers,        \* connections the kernel holds for the acceptor
          accepting,    \* the session given to async_accept, 0 when there is none
          live,         \* sessions whose handlers go on
          over,         \* sessions that have ended
          unauthed,     \* unauthed_
          sizes,        \* how many parts each message of the other publishers has
          inbox,        \* the part of them that the subscribing socket gives next
          dealer,       \* where the dealer's thread is
          typePart,     \* what it took for the type of a message,
          payloadPart,  \* and what for the message
          at,           \* the entry its iterator is at, 0 for end()
          visits,       \* history of the walk: sessions it posted a write to,
          throughout,   \* sessions registered ever since it began,
          sometime,     \* and sessions registered at some time of it
          torn,         \* accesses to the set have coincided, or an erased entry was used
          lost          \* the process is gone

registryVars == <<peers, accepting, live, over, unauthed>>
walkVars     == <<at, visits, throughout, sometime>>
dealerVars   == <<inbox, sizes, dealer, typePart, payloadPart, walkVars>>
serverVars   == <<publisherVars, registryVars, dealerVars, torn, lost>>

Free == Sessions \ (live \cup over)

\* The messages arrive whole and in order: a part, and the one the socket gives after it.
\* When is no matter: recv waits.
NoPart      == [message |-> 0, part |-> 0]
FirstOf(m)  == IF m <= MaxIncoming THEN [message |-> m, part |-> 1] ELSE NoPart
NextPart(p) == IF p.part < sizes[p.message] THEN [p EXCEPT !.part = @ + 1]
               ELSE FirstOf(p.message + 1)

\* begin() and ++ of the set's iterator.
FirstIn(S) == IF S = {} THEN 0 ELSE Min(S)
AfterAgain(s, S) == FirstIn({t \in S : t >= s})                        \* mutant
After(s, S) == FirstIn({t \in S : t > s})

\* With one io thread no other handler runs while a request does.
IoHandler == ~lost /\ (Threads = 1 => running = << >>)

\* Threads that may be at the registry at once: the dealer's, walking, and those that run
\* the handlers of different sessions or accept one.
Contended == \/ dealer = "walk"
             \/ /\ Threads > 1
                /\ Cardinality(live) + (IF peers > 0 THEN 1 ELSE 0) > 1

\* The registry becomes S.  If another thread is at it, it may become anything, now and for
\* good: what a torn tree holds is not followed.
ChangeCleanly(S) == /\ ~torn
                    /\ unauthed' = S
                    /\ throughout' = throughout \cap S
                    /\ sometime' = IF dealer = "walk" THEN sometime \cup S ELSE {}
                    /\ UNCHANGED <<visits, torn, lost>>

Tear == /\ torn' = TRUE
        /\ unauthed' = {} /\ visits' = << >> /\ throughout' = {} /\ sometime' = {}
        /\ lost' \in BOOLEAN

ChangeRegistry(S) == /\ \/ ChangeCleanly(S)
                        \/ (Contended \/ torn) /\ Tear
                     /\ UNCHANGED at
-----------------------------------------------------------------------------
\* A peer connects.
Connect == /\ ~lost /\ peers + Cardinality(live \cup over) < MaxPeers
           /\ peers' = peers + 1
           /\ UNCHANGED <<publisherVars, accepting, live, over, unauthed, dealerVars, torn,
                          lost>>

\* handle_accept: Session::start, with its add_unauthed, and start_accept for a new
\* session; after an error the old one is destroyed and its address free.
AcceptError == /\ IoHandler /\ accepting # 0
               /\ accepting' \in Free
               /\ UNCHANGED <<publisherVars, peers, live, over, unauthed,
                              dealerVars, torn, lost>>

HandleAcceptOnce ==                                                    \* mutant
  /\ IoHandler /\ accepting # 0 /\ peers > 0
  /\ peers' = peers - 1
  /\ live' = live \cup {accepting}
  /\ ChangeRegistry(unauthed \cup {accepting})
  /\ accepting' = 0
  /\ UNCHANGED <<publisherVars, over, inbox, sizes, dealer, typePart, payloadPart>>

HandleAccept == /\ IoHandler /\ accepting # 0 /\ peers > 0
                /\ peers' = peers - 1
                /\ live' = live \cup {accepting}
                /\ ChangeRegistry(unauthed \cup {accepting})
                /\ accepting' \in Free \ {accepting}
                /\ UNCHANGED <<publisherVars, over, inbox, sizes, dealer, typePart,
                               payloadPart>>

\* SessionManager::remove, of a session that ends or of one that goes on after a write
\* has failed; a session may do it more than once.
RemoveSessionKept(s) ==                                                \* mutant
  /\ IoHandler
  /\ live' = live \ {s} /\ over' = over \cup {s}
  /\ UNCHANGED <<publisherVars, peers, accepting, unauthed, dealerVars, torn, lost>>

RemoveSession(s) == /\ IoHandler
                    /\ \/ live' = live \ {s} /\ over' = over \cup {s}
                       \/ UNCHANGED <<live, over>>
                    /\ ChangeRegistry(unauthed \ {s})
                    /\ UNCHANGED <<publisherVars, peers, accepting, inbox, sizes, dealer,
                                   typePart, payloadPart>>

\* A session posts a request; requests run.
PostRequest == /\ IoHandler /\ live # {}
               /\ \E chunks \in ChunkCounts : Post(chunks)
               /\ UNCHANGED <<registryVars, dealerVars, torn, lost>>

RunRequest == /\ ~lost /\ Send
              /\ UNCHANGED <<registryVars, dealerVars, torn, lost>>
-----------------------------------------------------------------------------
\* Dealer::run, the two recv calls; the callback starts its walk.
RecvType == /\ ~lost /\ dealer = "type" /\ inbox # NoPart
            /\ typePart' = inbox
            /\ inbox' = NextPart(inbox)
            /\ dealer' = "payload"
            /\ UNCHANGED <<publisherVars, registryVars, sizes, payloadPart, walkVars, torn,
                           lost>>

\* The range-based for of the callback.
WalkBegins == /\ at' \in IF torn THEN {0} \cup Sessions ELSE {FirstIn(unauthed)}
              /\ visits' = << >> /\ throughout' = unauthed /\ sometime' = unauthed

RecvPayloadPeeks ==                                                    \* mutant
  /\ ~lost /\ dealer = "payload" /\ inbox # NoPart
  /\ payloadPart' = inbox
  /\ dealer' = "walk"
  /\ WalkBegins
  /\ UNCHANGED <<publisherVars, registryVars, inbox, sizes, typePart, torn, lost>>

RecvPayload == /\ ~lost /\ dealer = "payload" /\ inbox # NoPart
               /\ payloadPart' = inbox
               /\ inbox' = NextPart(inbox)
               /\ dealer' = "walk"
               /\ WalkBegins
               /\ UNCHANGED <<publisherVars, registryVars, sizes, typePart, torn, lost>>

\* The loop's body at an entry, and the step to the next one.
Visit == /\ ~lost /\ dealer = "walk" /\ at \in unauthed
         /\ visits' = Append(visits, at)
         /\ at' = After(at, unauthed)
         /\ UNCHANGED <<publisherVars, registryVars, inbox, sizes, dealer, typePart,
                        payloadPart, throughout, sometime, torn, lost>>

\* The entry has been erased, so that the body and the step use freed memory; or the tree
\* is torn.
VisitTorn == /\ ~lost /\ dealer = "walk" /\ at # 0 /\ at \notin unauthed
             /\ Tear
             /\ at' \in {0} \cup Sessions
             /\ UNCHANGED <<publisherVars, peers, accepting, live, over, inbox, sizes, dealer,
                            typePart, payloadPart>>

WalkEnds == /\ ~lost /\ dealer = "walk" /\ at = 0
            /\ dealer' = "type"
            /\ typePart' = NoPart /\ payloadPart' = NoPart
            /\ visits' = << >> /\ throughout' = {} /\ sometime' = {}
            /\ UNCHANGED <<publisherVars, registryVars, inbox, sizes, at, torn, lost>>

\* The constructor's start_accept and start().
ServerInit == /\ PublisherInit
              /\ peers = 0
              /\ accepting \in Sessions
              /\ live = {} /\ over = {} /\ unauthed = {}
              /\ sizes \in [1 .. MaxIncoming -> PartCounts]
              /\ inbox = FirstOf(1)
              /\ dealer = "type" /\ typePart = NoPart /\ payloadPart = NoPart
              /\ at = 0 /\ visits = << >> /\ throughout = {} /\ sometime = {}
              /\ torn = FALSE /\ lost = FALSE

ServerNext ==
  \/ Connect
  \/ AcceptError
  \/ HandleAccept
  \/ \E s \in live : RemoveSession(s)
  \/ PostRequest
  \/ RunRequest
  \/ RecvType
  \/ RecvPayload
  \/ Visit
  \/ VisitTorn
  \/ WalkEnds

ServerSafety == ServerInit /\ [][ServerNext]_serverVars

\* The io threads run what is due: requests in the queue, and an accept that has a peer.
ServerSpec == /\ ServerSafety
              /\ WF_serverVars(RunRequest)
              /\ WF_serverVars(HandleAccept)
-----------------------------------------------------------------------------
\* Every variable has its type, and a session has one place.
ServerTypeOK == /\ PublisherTypeOK
                /\ peers \in 0 .. MaxPeers
                /\ accepting \in Free
                /\ live \cup over \subseteq Sessions /\ live \cap over = {}
                /\ unauthed \subseteq live
                /\ sizes \in Seq(PartCounts)
                /\ dealer \in {"type", "payload", "walk"}
                /\ {inbox, typePart, payloadPart} \subseteq [message : Nat, part : Nat]
                /\ at \in Sessions \cup {0} /\ visits \in Seq(Sessions)
                /\ throughout \subseteq sometime /\ sometime \subseteq Sessions
                /\ torn \in BOOLEAN /\ lost \in BOOLEAN

\* Sessions come and go between the steps of the walk that passes a message on: no session
\* is posted it twice or without having been registered meanwhile, and every session that
\* was registered all the time is posted it by the time the iterator is past it.  Of a
\* registry whose accesses have ever coincided, or a walk whose entry was erased, nothing
\* is said (ws_server.cpp:69-72).
BroadcastOnce ==
  dealer = "walk" /\ ~torn =>
    /\ IsInjective(visits) /\ ToSet(visits) \subseteq sometime
    /\ {s \in throughout : at = 0 \/ s < at} \subseteq ToSet(visits)

\* A message is passed on with its own type as long as every message received has had
\* two parts.  One with another number of parts, such as those this server publishes,
\* shifts the roles of all that follow (zmq_dealer.cpp:45-54).
TypeOfItsMessage ==
  dealer = "walk" /\ (\A m \in 1 .. typePart.message : sizes[m] = 2) =>
    /\ typePart.part = 1
    /\ payloadPart = [message |-> typePart.message, part |-> 2]

\* A peer that connects is accepted, however many before it failed or left: each
\* accept starts the next (ws_server.cpp:41-54).
EveryPeerAccepted == peers > 0 ~> peers = 0 \/ lost

\* A request is published, whatever becomes of its session and of the dealer's walk.
EveryRequestPublished ==
  \A r \in 1 .. MaxRequests : Len(handed) >= r ~> Promise!Published(r) \/ lost
=============================================================================
