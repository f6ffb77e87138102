-------------------------- MODULE WebSocketHubProofs --------------------------
(***************************************************************************)
(* What is proved of WebSocketHub for any number of connections, tickets,  *)
(* agencies and events, and any number of losses of the Redis connection.  *)
(***************************************************************************)
EXTENDS WebSocketHub, TLAPS

-----------------------------------------------------------------------------
(* The inductive invariant.  IndexSound carries NoCrossTalk to the send of *)
(* a turn.  Of a broadcast in progress, SendSound says that its members    *)
(* are of the room and that those it found dead will never be open again,  *)
(* which RoomExact needs when they are removed; and that whoever it has    *)
(* been through has heard it or is gone, which is what it ends with.       *)

IndexSound ==
  \A t \in Tickets : byTicket[t] # None => TicketOf[byTicket[t]] = t

Over(c) == conn[c] \in {"lost", "gone", "closed"}

HasHeard(c, e) == \E i \in DOMAIN received[c] : received[c][i] = e.id

SendSound ==
  listener.pc = "send" =>
    /\ listener.event \in Event /\ listener.ws \in Conns
    /\ listener.event.to \in Agencies =>
         /\ conn[listener.ws] # "new"
         /\ \A c \in listener.todo : Room(c) = listener.event.to /\ conn[c] # "new"
         /\ \A c \in listener.dead : Over(c)
         /\ \A c \in listener.audience :
              c \in listener.todo \/ c = listener.ws \/ Over(c) \/ HasHeard(c, listener.event)

HubInv == TypeOK /\ RoomExact /\ NoCrossTalk /\ IndexSound /\ SendSound

-----------------------------------------------------------------------------
(* Small facts.                                                            *)

LEMMA RoomType == \A c \in Conns : TicketOf[c] \in Tickets /\ Room(c) \in Agencies
BY HubAssumption DEF Room

LEMMA ListeningSound == Listening \in Listener /\ Listening.pc = "listen"
BY DEF Listening, Listener

\* Nothing that was received is forgotten, and a client whose connection is open
\* when a send to it ends has received what was sent.
LEMMA HearsEffect ==
  ASSUME TypeOK, NEW c \in Conns, listener.event \in Event, Hears(c)
  PROVE  /\ received' \in [Conns -> Seq(Nat)]
         /\ \A d \in Conns : HasHeard(d, listener.event) =>
              \E i \in DOMAIN received'[d] : received'[d][i] = listener.event.id
         /\ conn[c] = "open" =>
              \E i \in DOMAIN received'[c] : received'[c][i] = listener.event.id
<1> DEFINE e == listener.event.id
<1>1. e \in Nat /\ received \in [Conns -> Seq(Nat)]
  BY HubAssumption DEF Event, TypeOK
<1>2. CASE conn[c] = "open"
  <2>1. received' = [received EXCEPT ![c] = Append(@, e)]
    BY <1>2 DEF Hears
  <2>2. /\ Append(received[c], e) \in Seq(Nat)
        /\ Len(received[c]) \in Nat
        /\ DOMAIN received[c] = 1 .. Len(received[c])
        /\ DOMAIN Append(received[c], e) = 1 .. Len(received[c]) + 1
        /\ \A i \in 1 .. Len(received[c]) : Append(received[c], e)[i] = received[c][i]
        /\ Append(received[c], e)[Len(received[c]) + 1] = e
    BY <1>1
  <2>3. received' \in [Conns -> Seq(Nat)] /\ received'[c] = Append(received[c], e)
    BY <1>1, <2>1, <2>2
  <2>4. Len(received[c]) + 1 \in DOMAIN received'[c]
    BY <2>2, <2>3
  <2>5. \A d \in Conns \ {c} : received'[d] = received[d]
    BY <1>1, <2>1
  <2>6. \A i \in DOMAIN received[c] : i \in DOMAIN received'[c] /\ received'[c][i] = received[c][i]
    BY <2>2, <2>3
  <2> QED
    BY <2>2, <2>3, <2>4, <2>5, <2>6 DEF HasHeard
<1>3. CASE conn[c] # "open"
  BY <1>1, <1>3 DEF Hears, HasHeard
<1> QED
  BY <1>2, <1>3

-----------------------------------------------------------------------------
(* Every step preserves it.                                                *)

LEMMA InitHub == Init => HubInv
BY HubAssumption, RoomType, ListeningSound
   DEF Init, HubInv, TypeOK, RoomExact, NoCrossTalk, IndexSound, SendSound, ConnState

LEMMA ConnectStep ==
  ASSUME HubInv, NEW c \in Conns, connect_client(c)
  PROVE  HubInv'
<1> USE DEF HubInv
<1>1. /\ Room(c) \in Agencies /\ TicketOf[c] \in Tickets
      /\ conn[c] = "new" /\ conn' = [conn EXCEPT ![c] = "open"]
      /\ byTicket' = [byTicket EXCEPT ![TicketOf[c]] = c]
      /\ room' = [room EXCEPT ![Room(c)] = @ \cup {c}]
      /\ UNCHANGED <<redisVars, received>>
  BY RoomType DEF connect_client
<1>2. /\ listener' \in Listener
      /\ listener'.pc = listener.pc /\ listener'.event = listener.event
      /\ listener'.ws = listener.ws /\ listener'.todo = listener.todo
      /\ listener'.dead = listener.dead /\ listener'.audience = listener.audience
  <2>1. listener \in Listener
    BY DEF TypeOK
  <2>2. CASE listener' = listener
    BY <2>1, <2>2
  <2>3. CASE listener' = [listener EXCEPT !.torn = TRUE]
    BY <2>1, <2>3 DEF Listener
  <2> QED
    BY <2>2, <2>3 DEF connect_client
<1>3. TypeOK'
  BY <1>1, <1>2 DEF TypeOK, ConnState, redisVars
<1>4. RoomExact'
  BY <1>1, RoomType DEF TypeOK, RoomExact, Room
<1>5. NoCrossTalk' /\ IndexSound'
  BY <1>1, <1>2, HubAssumption DEF TypeOK, NoCrossTalk, IndexSound, Room
<1>6. SendSound'
  BY <1>1, <1>2 DEF TypeOK, SendSound, Listener, Room, Over, HasHeard
<1> QED
  BY <1>3, <1>4, <1>5, <1>6

LEMMA PeerGoneStep ==
  ASSUME HubInv, NEW c \in Conns, PeerGone(c)
  PROVE  HubInv'
<1> USE DEF HubInv
<1>1. /\ conn[c] = "open" /\ conn' = [conn EXCEPT ![c] = "lost"]
      /\ UNCHANGED <<byTicket, room, listener, redisVars, received>>
  BY DEF PeerGone
<1>2. TypeOK'
  BY <1>1 DEF TypeOK, ConnState, redisVars
<1>3. RoomExact' /\ NoCrossTalk' /\ IndexSound'
  BY <1>1 DEF TypeOK, RoomExact, NoCrossTalk, IndexSound, Room
<1>4. SendSound'
  BY <1>1 DEF TypeOK, SendSound, Listener, Room, Over, HasHeard
<1> QED
  BY <1>2, <1>3, <1>4

LEMMA DisconnectStep ==
  ASSUME HubInv, NEW c \in Conns, disconnect_client(c)
  PROVE  HubInv'
<1> USE DEF HubInv
<1>1. PICK how \in {"closed", "gone"} : conn' = [conn EXCEPT ![c] = how]
  BY DEF disconnect_client
<1>2. /\ Room(c) \in Agencies /\ TicketOf[c] \in Tickets
      /\ conn[c] = "lost"
      /\ byTicket' = [byTicket EXCEPT ![TicketOf[c]] = None]
      /\ room' = [room EXCEPT ![Room(c)] = {d \in @ : conn'[d] # "closed"}]
      /\ UNCHANGED <<redisVars, received>>
  BY RoomType DEF disconnect_client
<1>3. /\ listener' \in Listener
      /\ listener'.pc = listener.pc /\ listener'.event = listener.event
      /\ listener'.ws = listener.ws /\ listener'.todo = listener.todo
      /\ listener'.dead = listener.dead /\ listener'.audience = listener.audience
  <2>1. listener \in Listener
    BY DEF TypeOK
  <2>2. CASE listener' = listener
    BY <2>1, <2>2
  <2>3. CASE listener' = [listener EXCEPT !.shared = FALSE]
    BY <2>1, <2>3 DEF Listener
  <2> QED
    BY <2>2, <2>3 DEF disconnect_client
<1>4. TypeOK'
  BY <1>1, <1>2, <1>3 DEF TypeOK, ConnState, redisVars
<1>5. RoomExact'
  BY <1>1, <1>2, RoomType DEF TypeOK, RoomExact, Room
<1>6. NoCrossTalk' /\ IndexSound'
  BY <1>2, <1>3 DEF TypeOK, NoCrossTalk, IndexSound, Room
<1>7. SendSound'
  BY <1>1, <1>2, <1>3 DEF TypeOK, SendSound, Listener, Room, Over, HasHeard
<1> QED
  BY <1>4, <1>5, <1>6, <1>7

\* A step that leaves the connections, the index, the rooms and the listener alone.
LEMMA RedisStep ==
  ASSUME HubInv, UNCHANGED <<conn, byTicket, room, listener, received>>,
         subscribed' \in BOOLEAN, inbox' \in Seq(Event),
         published' \in 0 .. MaxEvents, drops' \in 0 .. MaxDrops
  PROVE  HubInv'
<1> USE DEF HubInv
<1>1. TypeOK'
  BY DEF TypeOK
<1>2. RoomExact' /\ NoCrossTalk' /\ IndexSound' /\ SendSound'
  BY DEF RoomExact, NoCrossTalk, IndexSound, SendSound, Over, HasHeard
<1> QED
  BY <1>1, <1>2

LEMMA PublishStep ==
  ASSUME HubInv, NEW to \in Tickets \cup Agencies, publish_event(to)
  PROVE  HubInv'
<1>1. published \in Nat /\ published < MaxEvents /\ published' = published + 1
  BY HubAssumption DEF HubInv, TypeOK, publish_event
<1>2. [id |-> published + 1, to |-> to] \in Event
  BY <1>1, HubAssumption DEF Event
<1>3. inbox' \in Seq(Event)
  BY <1>2 DEF HubInv, TypeOK, publish_event
<1> QED
  BY <1>1, <1>3, HubAssumption, RedisStep DEF HubInv, TypeOK, publish_event

LEMMA LoseRedisStep ==
  ASSUME HubInv, LoseRedis
  PROVE  HubInv'
<1>1. inbox \in Seq(Event)
  BY DEF HubInv, TypeOK
<1>2. PICK n \in 0 .. Len(inbox) : inbox' = SubSeq(inbox, 1, n)
  BY DEF LoseRedis
<1>3. inbox' \in Seq(Event)
  BY <1>1, <1>2
<1>4. drops' \in 0 .. MaxDrops
  BY HubAssumption DEF HubInv, TypeOK, LoseRedis
<1> QED
  BY <1>3, <1>4, RedisStep DEF HubInv, TypeOK, LoseRedis

LEMMA ResubscribeStep ==
  ASSUME HubInv, Resubscribe
  PROVE  HubInv'
BY RedisStep DEF HubInv, TypeOK, Resubscribe

\* The listener is listening again, and nothing but rooms and index may have changed.
LEMMA ListenAgainStep ==
  ASSUME HubInv, UNCHANGED <<conn, subscribed, published, drops>>,
         listener' = Listening, inbox' \in Seq(Event),
         received' \in [Conns -> Seq(Nat)],
         byTicket' \in [Tickets -> Conns \cup {None}], IndexSound',
         room' \in [Agencies -> SUBSET Conns], RoomExact'
  PROVE  HubInv'
<1>1. TypeOK'
  BY ListeningSound DEF HubInv, TypeOK
<1>2. NoCrossTalk' /\ SendSound'
  BY ListeningSound DEF NoCrossTalk, SendSound
<1> QED
  BY <1>1, <1>2 DEF HubInv

LEMMA HeadOfInbox ==
  ASSUME TypeOK, inbox # <<>>
  PROVE  Head(inbox) \in Event /\ Tail(inbox) \in Seq(Event)
BY DEF TypeOK

LEMMA DispatchTurnStep ==
  ASSUME HubInv, DispatchTurn
  PROVE  HubInv'
<1> USE DEF HubInv
<1> DEFINE e == Head(inbox)
           ws == byTicket[Head(inbox).to]
<1>1. /\ e \in Event /\ e.to \in Tickets
      /\ inbox' \in Seq(Event)
      /\ UNCHANGED <<conn, byTicket, room, received, subscribed, published, drops>>
  BY HeadOfInbox DEF DispatchTurn
<1>2. IndexSound' /\ RoomExact'
  BY <1>1 DEF IndexSound, RoomExact
<1>3. CASE ws = None
  BY <1>1, <1>2, <1>3, ListenAgainStep DEF DispatchTurn, TypeOK
<1>4. CASE ws # None
  <2>1. ws \in Conns /\ TicketOf[ws] = e.to
    BY <1>1, <1>4 DEF TypeOK, IndexSound
  <2>2. listener' = [Listening EXCEPT !.pc = "send", !.event = e, !.ws = ws]
    BY <1>4 DEF DispatchTurn
  <2>3. /\ listener' \in Listener
        /\ listener'.event = e /\ listener'.ws = ws
    BY <1>1, <2>1, <2>2 DEF Listening, Listener
  <2>4. TypeOK'
    BY <1>1, <2>3 DEF TypeOK
  <2>5. NoCrossTalk' /\ SendSound'
    BY <1>1, <2>1, <2>3, HubAssumption DEF NoCrossTalk, SendSound
  <2> QED
    BY <1>2, <2>4, <2>5
<1> QED
  BY <1>3, <1>4

LEMMA DispatchCalledStep ==
  ASSUME HubInv, DispatchCalled
  PROVE  HubInv'
<1> USE DEF HubInv
<1> DEFINE e == Head(inbox)
           members == room[Head(inbox).to]
<1>1. /\ e \in Event /\ e.to \in Agencies
      /\ inbox' \in Seq(Event)
      /\ UNCHANGED <<conn, byTicket, room, received, subscribed, published, drops>>
  BY HeadOfInbox DEF DispatchCalled
<1>2. IndexSound' /\ RoomExact'
  BY <1>1 DEF IndexSound, RoomExact
<1>3. CASE listener' = Listening
  BY <1>1, <1>2, <1>3, ListenAgainStep DEF TypeOK
<1>4. ASSUME NEW c \in members,
             listener' = [Listening EXCEPT !.pc = "send", !.event = e, !.ws = c,
                            !.todo = members \ {c}, !.shared = TRUE, !.audience = members]
      PROVE  HubInv'
  <2>1. members \in SUBSET Conns
    BY <1>1 DEF TypeOK
  <2>2. /\ listener' \in Listener
        /\ listener'.event = e /\ listener'.ws = c /\ listener'.todo = members \ {c}
        /\ listener'.dead = {} /\ listener'.audience = members
    BY <1>1, <1>4, <2>1 DEF Listening, Listener
  <2>3. \A d \in members : Room(d) = e.to /\ conn[d] # "new"
    BY <1>1 DEF RoomExact
  <2>4. TypeOK'
    BY <1>1, <2>2 DEF TypeOK
  <2>5. NoCrossTalk'
    BY <1>1, <2>2, <2>3 DEF NoCrossTalk, Room
  <2>6. SendSound'
    BY <1>1, <2>1, <2>2, <2>3 DEF SendSound, Room
  <2> QED
    BY <1>2, <2>4, <2>5, <2>6
<1> QED
  BY <1>3, <1>4 DEF DispatchCalled

LEMMA TurnSentStep ==
  ASSUME HubInv, TurnSent
  PROVE  HubInv'
<1> USE DEF HubInv
<1>1. /\ listener.event \in Event /\ listener.ws \in Conns
      /\ listener.event.to \in Tickets
      /\ Hears(listener.ws) /\ listener' = Listening
      /\ UNCHANGED <<conn, room, redisVars>>
  BY DEF TurnSent, Sending, SendSound
<1>2. received' \in [Conns -> Seq(Nat)]
  BY <1>1, HearsEffect
<1>3. byTicket' = byTicket \/ byTicket' = [byTicket EXCEPT ![listener.event.to] = None]
  BY DEF TurnSent
<1>4. byTicket' \in [Tickets -> Conns \cup {None}] /\ IndexSound'
  BY <1>1, <1>3 DEF TypeOK, IndexSound
<1>5. RoomExact'
  BY <1>1 DEF RoomExact
<1> QED
  BY <1>1, <1>2, <1>4, <1>5, ListenAgainStep DEF TypeOK, redisVars

\* How the send of a broadcast leaves the members it has been through.
LEMMA SentSound ==
  ASSUME HubInv, Sending(Agencies), Hears(listener.ws), NEW outcome \in Outcomes(listener.ws)
  PROVE  /\ \A c \in DeadAfter(outcome) : Over(c)
         /\ \A c \in listener.audience :
              c \in listener.todo \/ Over(c) \/
              \E i \in DOMAIN received'[c] : received'[c][i] = listener.event.id
<1> USE DEF HubInv
<1>1. /\ listener.event \in Event /\ listener.ws \in Conns
      /\ listener.event.to \in Agencies
      /\ conn[listener.ws] # "new"
      /\ listener \in Listener /\ listener.audience \subseteq Conns
  BY DEF Sending, SendSound, TypeOK, Listener
<1>2. conn[listener.ws] \in ConnState
  BY <1>1 DEF TypeOK
<1>3. outcome = "failed" => Over(listener.ws)
  BY <1>1, <1>2 DEF Outcomes, Over, ConnState
<1>4. \A c \in DeadAfter(outcome) : Over(c)
  BY <1>3, <1>1 DEF DeadAfter, SendSound, Sending
<1>5. conn[listener.ws] = "open" \/ Over(listener.ws)
  BY <1>1, <1>2 DEF Over, ConnState
<1>6. ASSUME NEW c \in listener.audience
      PROVE  c \in listener.todo \/ Over(c) \/
             \E i \in DOMAIN received'[c] : received'[c][i] = listener.event.id
  <2>1. c \in listener.todo \/ c = listener.ws \/ Over(c) \/ HasHeard(c, listener.event)
    BY <1>1 DEF Sending, SendSound
  <2> QED
    BY <1>1, <1>5, <2>1, HearsEffect
<1> QED
  BY <1>4, <1>6

LEMMA CalledSentStep ==
  ASSUME HubInv, CalledSent
  PROVE  HubInv'
<1> USE DEF HubInv
<1>1. /\ Sending(Agencies) /\ Hears(listener.ws)
      /\ UNCHANGED <<conn, byTicket, redisVars>>
      /\ listener.event \in Event /\ listener.ws \in Conns
      /\ listener.event.to \in Agencies
      /\ listener \in Listener
  BY DEF CalledSent, Sending, SendSound, TypeOK
<1>2. received' \in [Conns -> Seq(Nat)]
  BY <1>1, HearsEffect
<1>3. IndexSound'
  BY <1>1 DEF IndexSound
<1>4. PICK outcome \in Outcomes(listener.ws) :
        \/ listener.torn /\ listener' = Listening /\ UNCHANGED room
        \/ /\ ~listener.torn /\ listener.todo = {}
           /\ CleanUp(DeadAfter(outcome)) /\ listener' = Listening
        \/ /\ ~listener.torn
           /\ \E c \in listener.todo :
                listener' = [listener EXCEPT !.ws = c, !.todo = @ \ {c},
                                             !.dead = DeadAfter(outcome)]
           /\ UNCHANGED room
  BY DEF CalledSent
<1>5. /\ \A c \in DeadAfter(outcome) : Over(c)
      /\ \A c \in listener.audience :
           c \in listener.todo \/ Over(c) \/
           \E i \in DOMAIN received'[c] : received'[c][i] = listener.event.id
  BY <1>1, <1>4, SentSound
<1>6. CASE listener' = Listening /\ UNCHANGED room
  <2>1. RoomExact'
    BY <1>1, <1>6 DEF RoomExact
  <2> QED
    BY <1>1, <1>2, <1>3, <1>6, <2>1, ListenAgainStep DEF TypeOK, redisVars
<1>7. CASE CleanUp(DeadAfter(outcome)) /\ listener' = Listening
  <2>1. room' = [room EXCEPT ![listener.event.to] = @ \ DeadAfter(outcome)]
    BY <1>7 DEF CleanUp
  <2>2. room' \in [Agencies -> SUBSET Conns]
    BY <1>1, <2>1 DEF TypeOK
  <2>3. \A a \in Agencies : \A c \in room[a] :
          c \in DeadAfter(outcome) \/ c \in room'[a]
    BY <1>1, <2>1 DEF TypeOK
  <2>4. ASSUME NEW c \in Conns, conn[c] = "open" PROVE c \in room'[Room(c)]
    BY <1>5, <2>3, <2>4, RoomType DEF RoomExact, Over
  <2>5. \A a \in Agencies : room'[a] \subseteq room[a]
    BY <1>1, <2>1 DEF TypeOK
  <2>6. RoomExact'
    BY <1>1, <2>4, <2>5 DEF RoomExact, Room
  <2> QED
    BY <1>1, <1>2, <1>3, <1>7, <2>2, <2>6, ListenAgainStep DEF TypeOK, redisVars
<1>8. ASSUME NEW c \in listener.todo, UNCHANGED room,
             listener' = [listener EXCEPT !.ws = c, !.todo = @ \ {c},
                                          !.dead = DeadAfter(outcome)]
      PROVE  HubInv'
  <2>1. c \in Conns /\ DeadAfter(outcome) \subseteq Conns
    BY <1>1 DEF Listener, DeadAfter
  <2>2. /\ listener' \in Listener /\ listener'.event = listener.event
        /\ listener'.ws = c /\ listener'.todo = listener.todo \ {c}
        /\ listener'.dead = DeadAfter(outcome) /\ listener'.audience = listener.audience
    BY <1>1, <1>8, <2>1 DEF Listener
  <2>3. \A d \in listener.todo : Room(d) = listener.event.to /\ conn[d] # "new"
    BY <1>1 DEF Sending, SendSound
  <2>4. TypeOK'
    BY <1>1, <1>2, <1>8, <2>2 DEF TypeOK, redisVars
  <2>5. RoomExact' /\ NoCrossTalk'
    BY <1>1, <1>8, <2>2, <2>3 DEF RoomExact, NoCrossTalk, Room
  <2>6. \A d \in listener.audience :
          d \in listener.todo \/ Over(d) \/ HasHeard(d, listener.event)'
    BY <1>5, <2>2 DEF HasHeard
  <2>7. SendSound'
    BY <1>1, <1>5, <2>1, <2>2, <2>3, <2>6 DEF SendSound, Room, Over
  <2> QED
    BY <1>3, <2>4, <2>5, <2>7
<1> QED
  BY <1>4, <1>6, <1>7, <1>8

LEMMA NextHub == HubInv /\ [Next]_vars => HubInv'
<1> SUFFICES ASSUME HubInv, [Next]_vars PROVE HubInv'
  OBVIOUS
<1>1. CASE UNCHANGED vars
  BY <1>1, RedisStep DEF vars, redisVars, HubInv, TypeOK
<1>2. ASSUME NEW c \in Conns, connect_client(c) \/ PeerGone(c) \/ disconnect_client(c)
      PROVE  HubInv'
  BY <1>2, ConnectStep, PeerGoneStep, DisconnectStep
<1>3. ASSUME NEW to \in Tickets \cup Agencies, publish_event(to)
      PROVE  HubInv'
  BY <1>3, PublishStep
<1>4. CASE LoseRedis \/ Resubscribe
  BY <1>4, LoseRedisStep, ResubscribeStep
<1>5. CASE Listen
  BY <1>5, DispatchTurnStep, DispatchCalledStep, TurnSentStep, CalledSentStep DEF Listen
<1> QED
  BY <1>1, <1>2, <1>3, <1>4, <1>5 DEF Next

\* Whatever connections come and go, at whichever send, the invariant holds.
THEOREM HubInvariant == Spec => []HubInv
BY InitHub, NextHub, PTL DEF Spec

\* Type correctness of the hub.
THEOREM HubTypeCorrect == Spec => []TypeOK
<1>1. HubInv => TypeOK
  BY DEF HubInv
<1> QED
  BY <1>1, HubInvariant, PTL

\* No open connection ever loses its place in its agency's room, and a room holds
\* no stranger: joining, leaving and cleaning up never undo one another.
THEOREM RoomExactAlways == Spec => []RoomExact
<1>1. HubInv => RoomExact
  BY DEF HubInv
<1> QED
  BY <1>1, HubInvariant, PTL

\* An event is only ever sent to a connection of the ticket or agency it is for.
THEOREM NoCrossTalkAlways == Spec => []NoCrossTalk
<1>1. HubInv => NoCrossTalk
  BY DEF HubInv
<1> QED
  BY <1>1, HubInvariant, PTL

\* A broadcast whose set nobody joined has reached, when it ends, everybody who
\* was in the room when it began and is still connected.
THEOREM QuietBroadcastReachesAllAlways == Spec => QuietBroadcastReachesAll
<1> DEFINE Reached == Ended /\ ~listener.torn =>
                        \A c \in listener.audience : conn[c] = "open" => Heard(c)
<1>1. HubInv /\ [Next]_vars => [Reached]_vars
  <2> SUFFICES ASSUME HubInv, Next, Ended, ~listener.torn,
                      NEW c \in listener.audience, conn[c] = "open"
               PROVE  Heard(c)
    OBVIOUS
  <2>1. listener.pc = "send" /\ listener'.pc = "listen" /\ listener.event.to \in Agencies
    BY DEF Ended
  <2>2. ~ \E d \in Conns : connect_client(d) \/ PeerGone(d) \/ disconnect_client(d)
    <3>1. ASSUME NEW d \in Conns,
                 connect_client(d) \/ PeerGone(d) \/ disconnect_client(d)
          PROVE  listener'.pc = listener.pc
      BY <3>1 DEF connect_client, PeerGone, disconnect_client, HubInv, TypeOK, Listener
    <3> QED
      BY <3>1, <2>1
  <2>3. CalledSent
    BY <2>1, <2>2, HubAssumption
       DEF Next, Listen, publish_event, LoseRedis, Resubscribe, DispatchTurn,
           DispatchCalled, TurnSent, Sending
  <2>4. PICK outcome \in Outcomes(listener.ws) :
          \/ listener.todo = {}
          \/ \E d \in listener.todo :
               listener' = [listener EXCEPT !.ws = d, !.todo = @ \ {d},
                                            !.dead = DeadAfter(outcome)]
    BY <2>3 DEF CalledSent
  <2>5. listener.todo = {}
    BY <2>1, <2>4 DEF HubInv, TypeOK, Listener
  <2>6. Over(c) \/ \E i \in DOMAIN received'[c] : received'[c][i] = listener.event.id
    BY <2>3, <2>4, <2>5, SentSound DEF CalledSent
  <2> QED
    BY <2>6 DEF Over, Heard
<1> QED
  BY <1>1, HubInvariant, PTL DEF Spec, QuietBroadcastReachesAll

-----------------------------------------------------------------------------
(* The order of delivery.  It needs to be known of what waits in the inbox *)
(* and of the send in progress too: the inbox is in order and ahead of     *)
(* whatever has been heard, and of the event being sent, which the clients *)
(* it has still to reach have not heard.                                   *)

AheadOfInbox(n) == n <= published /\ \A i \in DOMAIN inbox : n < inbox[i].id

InboxInOrder ==
  \A i \in DOMAIN inbox :
    /\ inbox[i].id <= published
    /\ \A j \in DOMAIN inbox : i < j => inbox[i].id < inbox[j].id

HeardIsPast == \A c \in Conns : \A k \in DOMAIN received[c] : AheadOfInbox(received[c][k])

SendIsNext ==
  listener.pc = "send" =>
    /\ AheadOfInbox(listener.event.id)
    /\ listener.ws \notin listener.todo
    /\ \A c \in Conns : \A k \in DOMAIN received[c] :
         /\ received[c][k] <= listener.event.id
         /\ c \in listener.todo \cup {listener.ws} => received[c][k] < listener.event.id

OrderInv == InOrder /\ InboxInOrder /\ HeardIsPast /\ SendIsNext

\* What a send leaves a client with: what it had, and the event if it is open.
LEMMA HearsOne ==
  ASSUME TypeOK, NEW c \in Conns, listener.event \in Event, Hears(c)
  PROVE  \A d \in Conns : \A k \in DOMAIN received'[d] :
           \/ k \in DOMAIN received[d] /\ received'[d][k] = received[d][k]
           \/ /\ d = c /\ k = Len(received[c]) + 1
              /\ received'[d][k] = listener.event.id
<1>1. listener.event.id \in Nat /\ received \in [Conns -> Seq(Nat)]
  BY HubAssumption DEF Event, TypeOK
<1>2. CASE conn[c] = "open"
  <2>1. received' = [received EXCEPT ![c] = Append(@, listener.event.id)]
    BY <1>2 DEF Hears
  <2>2. received'[c] = Append(received[c], listener.event.id)
    BY <1>1, <2>1
  <2>3. \A d \in Conns \ {c} : received'[d] = received[d]
    BY <1>1, <2>1
  <2>4. \A k \in DOMAIN Append(received[c], listener.event.id) :
          \/ /\ k \in DOMAIN received[c]
             /\ Append(received[c], listener.event.id)[k] = received[c][k]
          \/ /\ k = Len(received[c]) + 1
             /\ Append(received[c], listener.event.id)[k] = listener.event.id
    BY <1>1
  <2> QED
    BY <2>2, <2>3, <2>4
<1>3. CASE conn[c] # "open"
  BY <1>1, <1>3 DEF Hears
<1> QED
  BY <1>2, <1>3

\* A send that is over: everybody has heard, in order, at most up to its event.
LEMMA HearsInOrder ==
  ASSUME HubInv, OrderInv, listener.pc = "send", Hears(listener.ws),
         UNCHANGED <<inbox, published>>
  PROVE  /\ InOrder' /\ InboxInOrder' /\ HeardIsPast'
         /\ \A c \in Conns : \A k \in DOMAIN received'[c] :
              /\ received'[c][k] <= listener.event.id
              /\ c \in listener.todo => received'[c][k] < listener.event.id
<1> DEFINE e == listener.event.id
<1>1. /\ listener.event \in Event /\ listener.ws \in Conns
      /\ e \in Nat
      /\ received \in [Conns -> Seq(Nat)]
  BY HubAssumption DEF HubInv, SendSound, TypeOK, Event
<1>2. \A d \in Conns : \A k \in DOMAIN received'[d] :
        \/ k \in DOMAIN received[d] /\ received'[d][k] = received[d][k]
        \/ d = listener.ws /\ k = Len(received[d]) + 1 /\ received'[d][k] = e
  BY <1>1, HearsOne DEF HubInv
<1>3. \A d \in Conns : \A k \in DOMAIN received[d] : received[d][k] \in Nat /\ k \in 1 .. Len(received[d])
  BY <1>1
<1>4. \A k \in DOMAIN received[listener.ws] : received[listener.ws][k] < e
  BY <1>1 DEF OrderInv, SendIsNext
<1>5. InOrder'
  <2> SUFFICES ASSUME NEW c \in Conns, NEW i \in DOMAIN received'[c], NEW j \in DOMAIN received'[c],
                      i < j
               PROVE  received'[c][i] < received'[c][j]
    BY DEF InOrder
  <2>1. \/ i \in DOMAIN received[c] /\ received'[c][i] = received[c][i]
        \/ c = listener.ws /\ i = Len(received[c]) + 1 /\ received'[c][i] = e
    BY <1>2
  <2>2. \/ j \in DOMAIN received[c] /\ received'[c][j] = received[c][j]
        \/ c = listener.ws /\ j = Len(received[c]) + 1 /\ received'[c][j] = e
    BY <1>2
  <2>3. Len(received[c]) \in Nat
    BY <1>1
  <2>4. CASE i \in DOMAIN received[c] /\ j \in DOMAIN received[c]
    BY <2>1, <2>2, <2>3, <2>4, <1>3 DEF OrderInv, InOrder
  <2>5. CASE i \in DOMAIN received[c] /\ j \notin DOMAIN received[c]
    BY <2>1, <2>2, <2>3, <2>5, <1>3, <1>4
  <2>6. CASE i \notin DOMAIN received[c]
    BY <2>1, <2>2, <2>3, <2>6, <1>3
  <2> QED
    BY <2>4, <2>5, <2>6
<1>6. InboxInOrder'
  BY DEF OrderInv, InboxInOrder
<1>7. \A n \in Nat : AheadOfInbox(n)' <=> AheadOfInbox(n)
  BY DEF AheadOfInbox
<1>8. AheadOfInbox(e) /\ \A d \in Conns : \A k \in DOMAIN received[d] : AheadOfInbox(received[d][k])
  BY DEF OrderInv, SendIsNext, HeardIsPast
<1>9. HeardIsPast'
  BY <1>1, <1>2, <1>8 DEF HeardIsPast, AheadOfInbox
<1>10. ASSUME NEW c \in Conns, NEW k \in DOMAIN received'[c]
       PROVE  /\ received'[c][k] <= e
              /\ c \in listener.todo => received'[c][k] < e
  BY <1>1, <1>2, <1>3 DEF OrderInv, SendIsNext
<1> QED
  BY <1>5, <1>6, <1>9, <1>10

\* A step that leaves what was received, and the send if there is one, alone.
LEMMA OrderKept ==
  ASSUME HubInv, OrderInv, UNCHANGED received,
         published' >= published, InboxInOrder',
         \A n \in Nat : AheadOfInbox(n) => AheadOfInbox(n)',
         \/ listener'.pc = "listen"
         \/ /\ listener'.pc = listener.pc /\ listener'.event = listener.event
            /\ listener'.ws = listener.ws /\ listener'.todo = listener.todo
  PROVE  OrderInv'
<1>1. received \in [Conns -> Seq(Nat)]
  BY DEF HubInv, TypeOK
<1>2. InOrder'
  BY DEF OrderInv, InOrder
<1>3. HeardIsPast'
  BY <1>1 DEF OrderInv, HeardIsPast
<1>4. SendIsNext'
  <2> SUFFICES ASSUME listener'.pc = "send" PROVE SendIsNext'
    BY DEF SendIsNext
  <2>1. /\ listener.pc = "send" /\ listener'.event = listener.event
        /\ listener'.ws = listener.ws /\ listener'.todo = listener.todo
    OBVIOUS
  <2>2. listener.event.id \in Nat
    BY <2>1, HubAssumption DEF HubInv, SendSound, Event
  <2> QED
    BY <2>1, <2>2 DEF OrderInv, SendIsNext
<1> QED
  BY <1>2, <1>3, <1>4 DEF OrderInv

LEMMA ConnectionOrder ==
  ASSUME HubInv, OrderInv, NEW c \in Conns,
         connect_client(c) \/ PeerGone(c) \/ disconnect_client(c)
  PROVE  OrderInv'
<1>1. UNCHANGED <<inbox, published, received>>
  BY DEF connect_client, PeerGone, disconnect_client, redisVars
<1>2. /\ listener'.pc = listener.pc /\ listener'.event = listener.event
      /\ listener'.ws = listener.ws /\ listener'.todo = listener.todo
  BY DEF connect_client, PeerGone, disconnect_client, HubInv, TypeOK, Listener
<1>3. InboxInOrder' /\ \A n \in Nat : AheadOfInbox(n) => AheadOfInbox(n)'
  BY <1>1 DEF OrderInv, InboxInOrder, AheadOfInbox
<1>4. published' >= published
  BY <1>1, HubAssumption DEF HubInv, TypeOK
<1> QED
  BY <1>1, <1>2, <1>3, <1>4, OrderKept

LEMMA PublishOrder ==
  ASSUME HubInv, OrderInv, NEW to \in Tickets \cup Agencies, publish_event(to)
  PROVE  OrderInv'
<1>1. /\ published \in Nat /\ published < MaxEvents /\ published' = published + 1
      /\ inbox \in Seq(Event)
      /\ UNCHANGED <<listener, received>>
  BY HubAssumption DEF HubInv, TypeOK, publish_event
<1> DEFINE e == [id |-> published + 1, to |-> to]
<1>2. e \in Event
  BY <1>1, HubAssumption DEF Event
<1>3. \A i \in DOMAIN inbox : inbox[i].id \in Nat /\ inbox[i].id <= published
  <2>1. \A x \in Event : x.id \in Nat
    BY HubAssumption DEF Event
  <2>2. \A i \in DOMAIN inbox : inbox[i] \in Event
    BY <1>1
  <2> QED
    BY <2>1, <2>2 DEF OrderInv, InboxInOrder
<1>4. /\ Len(inbox) \in Nat /\ DOMAIN inbox = 1 .. Len(inbox)
      /\ DOMAIN Append(inbox, e) = 1 .. Len(inbox) + 1
      /\ \A i \in 1 .. Len(inbox) : Append(inbox, e)[i] = inbox[i]
      /\ Append(inbox, e)[Len(inbox) + 1] = e
  BY <1>1, <1>2
<1>5. \A i \in DOMAIN inbox' :
        \/ i \in DOMAIN inbox /\ inbox'[i] = inbox[i]
        \/ i = Len(inbox) + 1 /\ inbox'[i] = e
  BY <1>4 DEF publish_event
<1>6. InboxInOrder'
  <2> SUFFICES ASSUME NEW i \in DOMAIN inbox'
               PROVE  /\ inbox'[i].id <= published'
                      /\ \A j \in DOMAIN inbox' : i < j => inbox'[i].id < inbox'[j].id
    BY DEF InboxInOrder
  <2>1. CASE i \in DOMAIN inbox /\ inbox'[i] = inbox[i]
    BY <1>1, <1>3, <1>5, <2>1 DEF OrderInv, InboxInOrder
  <2>2. CASE i = Len(inbox) + 1 /\ inbox'[i] = e
    BY <1>1, <1>4, <1>5, <2>2
  <2> QED
    BY <1>5, <2>1, <2>2
<1>7. ASSUME NEW n \in Nat, AheadOfInbox(n) PROVE AheadOfInbox(n)'
  BY <1>1, <1>5, <1>7 DEF AheadOfInbox
<1> QED
  BY <1>1, <1>6, <1>7, OrderKept

LEMMA RedisOrder ==
  ASSUME HubInv, OrderInv, LoseRedis \/ Resubscribe
  PROVE  OrderInv'
<1>1. inbox \in Seq(Event) /\ published \in Nat
  BY HubAssumption DEF HubInv, TypeOK
<1>2. UNCHANGED <<listener, received, published>>
  BY DEF LoseRedis, Resubscribe
<1>3. \A i \in DOMAIN inbox' : i \in DOMAIN inbox /\ inbox'[i] = inbox[i]
  <2>1. CASE LoseRedis
    <3>1. PICK n \in 0 .. Len(inbox) : inbox' = SubSeq(inbox, 1, n)
      BY <2>1 DEF LoseRedis
    <3> QED
      BY <1>1, <3>1
  <2>2. CASE Resubscribe
    BY <2>2 DEF Resubscribe
  <2> QED
    BY <2>1, <2>2
<1>4. InboxInOrder' /\ \A n \in Nat : AheadOfInbox(n) => AheadOfInbox(n)'
  BY <1>1, <1>2, <1>3 DEF OrderInv, InboxInOrder, AheadOfInbox
<1> QED
  BY <1>1, <1>2, <1>4, OrderKept

\* The event at the head is newer than anything heard and older than the rest.
LEMMA NextEvent ==
  ASSUME HubInv, OrderInv, inbox # <<>>, inbox' = Tail(inbox), UNCHANGED published
  PROVE  /\ InboxInOrder'
         /\ \A n \in Nat : AheadOfInbox(n) => AheadOfInbox(n)' /\ n < Head(inbox).id
         /\ \A n \in Nat : n = Head(inbox).id => AheadOfInbox(n)'
<1>1. inbox \in Seq(Event) /\ published \in Nat
  BY HubAssumption DEF HubInv, TypeOK
<1>2. /\ Len(inbox) \in Nat \ {0} /\ DOMAIN inbox = 1 .. Len(inbox)
      /\ Head(inbox) = inbox[1]
      /\ DOMAIN Tail(inbox) = 1 .. Len(inbox) - 1
      /\ \A i \in 1 .. Len(inbox) - 1 : Tail(inbox)[i] = inbox[i + 1]
  BY <1>1
<1>3. \A i \in DOMAIN inbox' : i \in Nat /\ i >= 1 /\ i + 1 \in DOMAIN inbox /\ inbox'[i] = inbox[i + 1]
  BY <1>2
<1>4. 1 \in DOMAIN inbox
  BY <1>2
<1> QED
  BY <1>2, <1>3, <1>4 DEF OrderInv, InboxInOrder, AheadOfInbox

LEMMA DispatchOrder ==
  ASSUME HubInv, OrderInv, DispatchTurn \/ DispatchCalled
  PROVE  OrderInv'
<1> DEFINE e == Head(inbox)
<1>1. /\ inbox # <<>> /\ inbox' = Tail(inbox)
      /\ UNCHANGED <<received, published>>
      /\ e \in Event
  BY HeadOfInbox DEF DispatchTurn, DispatchCalled, HubInv
<1>2. /\ InboxInOrder'
      /\ \A n \in Nat : AheadOfInbox(n) => AheadOfInbox(n)' /\ n < e.id
      /\ \A n \in Nat : n = e.id => AheadOfInbox(n)'
  BY <1>1, NextEvent
<1>3. published' >= published
  BY <1>1, HubAssumption DEF HubInv, TypeOK
<1>4. CASE listener' = Listening
  BY <1>1, <1>2, <1>3, <1>4, OrderKept, ListeningSound
<1>5. CASE listener' # Listening
  <2>1. listener'.event = e /\ listener'.ws \notin listener'.todo
    <3>1. CASE DispatchTurn
      BY <1>5, <3>1 DEF DispatchTurn, Listening
    <3>2. CASE DispatchCalled
      <4>1. PICK c \in room[e.to] :
              listener' = [Listening EXCEPT !.pc = "send", !.event = e, !.ws = c,
                             !.todo = room[e.to] \ {c}, !.shared = TRUE,
                             !.audience = room[e.to]]
        BY <1>5, <3>2 DEF DispatchCalled
      <4> QED
        BY <4>1 DEF Listening
    <3> QED
      BY <3>1, <3>2
  <2>2. /\ received' = received /\ received \in [Conns -> Seq(Nat)]
        /\ e.id \in Nat
    BY <1>1, HubAssumption DEF HubInv, TypeOK, Event
  <2>3. \A c \in Conns : \A k \in DOMAIN received[c] :
          received[c][k] \in Nat /\ AheadOfInbox(received[c][k])
    BY <2>2 DEF OrderInv, HeardIsPast
  <2>4. \A c \in Conns : \A k \in DOMAIN received'[c] :
          received'[c][k] \in Nat /\ received'[c][k] < e.id
          /\ \A n \in Nat : n = received'[c][k] => AheadOfInbox(n)'
    BY <1>2, <2>2, <2>3
  <2>5. InOrder'
    BY <2>2 DEF OrderInv, InOrder
  <2>6. HeardIsPast'
    BY <2>4 DEF HeardIsPast
  <2>7. SendIsNext'
    BY <1>2, <2>1, <2>2, <2>4 DEF SendIsNext
  <2> QED
    BY <1>2, <2>5, <2>6, <2>7 DEF OrderInv
<1> QED
  BY <1>4, <1>5

LEMMA SentOrder ==
  ASSUME HubInv, OrderInv, TurnSent \/ CalledSent
  PROVE  OrderInv'
<1>1. /\ listener.pc = "send" /\ Hears(listener.ws)
      /\ UNCHANGED <<inbox, published>>
      /\ listener \in Listener
  BY DEF TurnSent, CalledSent, Sending, redisVars, HubInv, TypeOK
<1>2. /\ InOrder' /\ InboxInOrder' /\ HeardIsPast'
      /\ \A c \in Conns : \A k \in DOMAIN received'[c] :
           /\ received'[c][k] <= listener.event.id
           /\ c \in listener.todo => received'[c][k] < listener.event.id
  BY <1>1, HearsInOrder
<1>3. \/ listener' = Listening
      \/ \E c \in listener.todo :
           /\ listener'.event = listener.event /\ listener'.ws = c
           /\ listener'.todo = listener.todo \ {c}
  BY <1>1 DEF TurnSent, CalledSent, Listener
<1>4. \A n \in Nat : n = listener.event.id => AheadOfInbox(n)'
  BY <1>1 DEF OrderInv, SendIsNext, AheadOfInbox
<1>5. listener.event.id \in Nat
  BY <1>1, HubAssumption DEF HubInv, SendSound, Event
<1>6. ASSUME listener' = Listening PROVE SendIsNext'
  BY <1>6, ListeningSound DEF SendIsNext
<1>7. ASSUME NEW c \in listener.todo,
             listener'.event = listener.event, listener'.ws = c,
             listener'.todo = listener.todo \ {c}
      PROVE  SendIsNext'
  BY <1>2, <1>4, <1>5, <1>7 DEF SendIsNext
<1> QED
  BY <1>2, <1>3, <1>6, <1>7 DEF OrderInv

\* Events reach a client in the order of their publication and at most once,
\* whatever is lost with a Redis connection and whoever comes and goes.
THEOREM InOrderAlways == Spec => []InOrder
<1>1. Init => OrderInv
  BY ListeningSound DEF Init, OrderInv, InOrder, InboxInOrder, HeardIsPast, SendIsNext
<1>2. HubInv /\ OrderInv /\ [Next]_vars => OrderInv'
  <2> SUFFICES ASSUME HubInv, OrderInv, [Next]_vars PROVE OrderInv'
    OBVIOUS
  <2>1. CASE UNCHANGED vars
    BY <2>1 DEF vars, redisVars, OrderInv, InOrder, InboxInOrder, HeardIsPast, SendIsNext,
                AheadOfInbox
  <2>2. CASE Next
    BY <2>2, ConnectionOrder, PublishOrder, RedisOrder, DispatchOrder, SentOrder
       DEF Next, Listen
  <2> QED
    BY <2>1, <2>2
<1>3. OrderInv => InOrder
  BY DEF OrderInv
<1> QED
  BY <1>1, <1>2, <1>3, HubInvariant, PTL DEF Spec

-----------------------------------------------------------------------------
(* The index.  A connection that a ticket is indexed with, or that a send  *)
(* is on its way to, has been opened: a send that fails, or the end of a   *)
(* connection, is then of another connection that the ticket has had.      *)

KnownWereOpened ==
  /\ \A t \in Tickets : byTicket[t] # None => conn[byTicket[t]] # "new"
  /\ listener.pc = "send" => conn[listener.ws] # "new"

IndexInv == KnownWereOpened /\ OnlyConnectionIsIndexed

LEMMA ConnectIndex ==
  ASSUME HubInv, IndexInv, NEW c \in Conns, connect_client(c)
  PROVE  IndexInv'
<1>1. /\ TicketOf \in [Conns -> Tickets]
      /\ conn \in [Conns -> ConnState] /\ byTicket \in [Tickets -> Conns \cup {None}]
      /\ conn' = [conn EXCEPT ![c] = "open"]
      /\ byTicket' = [byTicket EXCEPT ![TicketOf[c]] = c]
      /\ listener'.pc = listener.pc /\ listener'.ws = listener.ws
  BY HubAssumption DEF connect_client, HubInv, TypeOK, Listener
<1>2. KnownWereOpened'
  BY <1>1, HubAssumption DEF IndexInv, KnownWereOpened, HubInv, SendSound
<1>3. OnlyConnectionIsIndexed'
  BY <1>1 DEF IndexInv, OnlyConnectionIsIndexed
<1> QED
  BY <1>2, <1>3 DEF IndexInv

LEMMA LeaveIndex ==
  ASSUME HubInv, IndexInv, NEW c \in Conns, PeerGone(c) \/ disconnect_client(c)
  PROVE  IndexInv'
<1>1. /\ TicketOf \in [Conns -> Tickets]
      /\ conn \in [Conns -> ConnState] /\ byTicket \in [Tickets -> Conns \cup {None}]
      /\ listener'.pc = listener.pc /\ listener'.ws = listener.ws
  BY HubAssumption DEF PeerGone, disconnect_client, HubInv, TypeOK, Listener
<1>2. \E how \in {"lost", "closed", "gone"} : conn' = [conn EXCEPT ![c] = how]
  BY DEF PeerGone, disconnect_client
<1>3. \/ byTicket' = byTicket
      \/ byTicket' = [byTicket EXCEPT ![TicketOf[c]] = None]
  BY DEF PeerGone, disconnect_client
<1>4. byTicket' # byTicket => conn[c] = "lost"
  BY DEF PeerGone, disconnect_client
<1>5. KnownWereOpened'
  BY <1>1, <1>2, <1>3, HubAssumption DEF IndexInv, KnownWereOpened, HubInv, SendSound
<1>6. OnlyConnectionIsIndexed'
  <2> SUFFICES ASSUME NEW d \in Conns, conn'[d] = "open",
                      \A x \in Conns \ {d} : TicketOf[x] = TicketOf[d] => conn'[x] = "new"
               PROVE  byTicket'[TicketOf[d]] = d
    BY DEF OnlyConnectionIsIndexed
  <2>1. d # c /\ TicketOf[d] # TicketOf[c] /\ conn[d] = "open"
    BY <1>1, <1>2
  <2>2. \A x \in Conns \ {d} : TicketOf[x] = TicketOf[d] => conn[x] = "new"
    BY <1>1, <1>2, <2>1
  <2>3. byTicket[TicketOf[d]] = d
    BY <2>1, <2>2 DEF IndexInv, OnlyConnectionIsIndexed
  <2> QED
    BY <1>1, <1>3, <2>1, <2>3
<1> QED
  BY <1>5, <1>6 DEF IndexInv

LEMMA TurnSentIndex ==
  ASSUME HubInv, IndexInv, TurnSent
  PROVE  IndexInv'
<1>1. /\ TicketOf \in [Conns -> Tickets] /\ AgencyOf \in [Tickets -> Agencies]
      /\ Tickets \cap Agencies = {}
      /\ conn \in [Conns -> ConnState] /\ byTicket \in [Tickets -> Conns \cup {None}]
      /\ listener.ws \in Conns /\ listener.event.to \in Tickets
      /\ listener' = Listening /\ UNCHANGED conn
  BY HubAssumption DEF TurnSent, Sending, HubInv, TypeOK, SendSound
<1>2. TicketOf[listener.ws] = listener.event.to
  BY <1>1 DEF HubInv, NoCrossTalk, TurnSent, Sending, Room
<1>3. conn[listener.ws] # "new"
  BY DEF IndexInv, KnownWereOpened, TurnSent, Sending
<1>4. \/ byTicket' = byTicket
      \/ /\ byTicket' = [byTicket EXCEPT ![listener.event.to] = None]
         /\ conn[listener.ws] # "open"
  BY DEF TurnSent, Outcomes
<1>5. KnownWereOpened'
  BY <1>1, <1>4, ListeningSound DEF IndexInv, KnownWereOpened
<1>6. OnlyConnectionIsIndexed'
  BY <1>1, <1>2, <1>3, <1>4 DEF IndexInv, OnlyConnectionIsIndexed
<1> QED
  BY <1>5, <1>6 DEF IndexInv

LEMMA DispatchIndex ==
  ASSUME HubInv, IndexInv, DispatchTurn \/ DispatchCalled \/ CalledSent
  PROVE  IndexInv'
<1>1. UNCHANGED <<conn, byTicket>>
  BY DEF DispatchTurn, DispatchCalled, CalledSent
<1>2. listener'.pc = "send" => conn[listener'.ws] # "new"
  <2>1. CASE DispatchTurn
    BY <2>1, ListeningSound DEF DispatchTurn, IndexInv, KnownWereOpened, Listening
  <2>2. CASE DispatchCalled
    BY <2>2, ListeningSound DEF DispatchCalled, HubInv, RoomExact, Listening
  <2>3. CASE CalledSent
    <3>1. \A c \in listener.todo : conn[c] # "new"
      BY <2>3 DEF CalledSent, Sending, HubInv, SendSound
    <3> QED
      BY <2>3, <3>1, ListeningSound DEF CalledSent, HubInv, TypeOK, Listener
  <2> QED
    BY <2>1, <2>2, <2>3
<1> QED
  BY <1>1, <1>2 DEF IndexInv, KnownWereOpened, OnlyConnectionIsIndexed

\* The only connection a ticket ever had keeps its place in the index while it is
\* open: neither another ticket's end nor a failed send takes it away.
THEOREM OnlyConnectionIsIndexedAlways == Spec => []OnlyConnectionIsIndexed
<1>1. Init => IndexInv
  BY ListeningSound DEF Init, IndexInv, KnownWereOpened, OnlyConnectionIsIndexed
<1>2. HubInv /\ IndexInv /\ [Next]_vars => IndexInv'
  <2> SUFFICES ASSUME HubInv, IndexInv, [Next]_vars PROVE IndexInv'
    OBVIOUS
  <2>1. CASE UNCHANGED <<conn, byTicket, listener>>
    BY <2>1 DEF IndexInv, KnownWereOpened, OnlyConnectionIsIndexed
  <2>2. CASE Next
    BY <2>1, <2>2, ConnectIndex, LeaveIndex, TurnSentIndex, DispatchIndex
       DEF Next, Listen, publish_event, LoseRedis, Resubscribe
  <2> QED
    BY <2>1, <2>2 DEF vars
<1>3. IndexInv => OnlyConnectionIsIndexed
  BY DEF IndexInv
<1> QED
  BY <1>1, <1>2, <1>3, HubInvariant, PTL DEF Spec

=============================================================================
