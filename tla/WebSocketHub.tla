----------------------------- MODULE WebSocketHub -----------------------------
(***************************************************************************)
(* One server process's QueueWebSocketManager (app/websocket/queue_ws.py)  *)
(* and the endpoint /ws/queue/{ticket_id} that feeds it: the index of      *)
(* connections by ticket, the set of connections of each agency, and the   *)
(* task that listens to Redis Pub/Sub and dispatches one event at a time.  *)
(*                                                                         *)
(* Everything runs on one event loop.  Connections come and go at the      *)
(* awaits of the listener, which are the sends: `listener.ws' is the       *)
(* connection whose send is awaited.  broadcast_to_agency iterates over    *)
(* the agency's set object itself; Python raises RuntimeError when a set   *)
(* has changed size since the last step of an iteration over it.           *)
(***************************************************************************)
EXTENDS Naturals, Sequences

CONSTANTS
  Conns,       \* WebSocket connections that clients may open
  Tickets,
  Agencies,
  TicketOf,    \* the ticket a connection follows
  AgencyOf,    \* the agency of a ticket, which websocket_queue checks
  MaxEvents,   \* bound on published events
  MaxDrops,    \* bound on losses of the Redis connection
  None

ASSUME HubAssumption ==
  /\ TicketOf \in [Conns -> Tickets]
  /\ AgencyOf \in [Tickets -> Agencies]
  /\ MaxEvents \in Nat /\ MaxDrops \in Nat
  /\ Tickets \cap Agencies = {}
  /\ None \notin Conns

VARIABLES
  conn,        \* where each connection stands
  byTicket,    \* connections_by_ticket
  room,        \* connections_by_agency; {} for an agency that has no entry
  listener,    \* start_redis_listener, at the await where it is suspended
  subscribed,  \* whether psubscribe is in force
  inbox,       \* messages of the subscription not yet read
  received,    \* the events each client has received, in order
  published,   \* events published so far: the last one's number
  drops        \* losses of the Redis connection, for the bound

redisVars == <<subscribed, inbox, published, drops>>
vars == <<conn, byTicket, room, listener, redisVars, received>>

-----------------------------------------------------------------------------
\* "lost": the peer is gone and the server has not noticed.  The handler ends
\* when receive_text reports it ("closed": client_state is DISCONNECTED) or when
\* a send of its own fails ("gone": client_state still reads CONNECTED).
ConnState == {"new", "open", "lost", "gone", "closed"}

Room(c) == AgencyOf[TicketOf[c]]

\* your_turn (and queue_update) is sent to a ticket, ticket_called (and
\* broadcast_message) to an agency: `to' tells the kind.
Event == [id : 1 .. MaxEvents, to : Tickets \cup Agencies]

Listening ==
  [ pc |-> "listen", event |-> None, ws |-> None, todo |-> {}, dead |-> {},
    shared |-> FALSE, torn |-> FALSE, audience |-> {} ]

\* A send in progress.  todo: members of the set not yet sent to; dead: sends that
\* failed; shared: the room's set is still the object iterated over; torn: it has
\* changed size; audience: its members when the broadcast began.
Listener ==
  [ pc : {"listen", "send"}, event : Event \cup {None}, ws : Conns \cup {None},
    todo : SUBSET Conns, dead : SUBSET Conns, shared : BOOLEAN, torn : BOOLEAN,
    audience : SUBSET Conns ]

TypeOK ==
  /\ conn \in [Conns -> ConnState]
  /\ byTicket \in [Tickets -> Conns \cup {None}]
  /\ room \in [Agencies -> SUBSET Conns]
  /\ listener \in Listener
  /\ subscribed \in BOOLEAN
  /\ inbox \in Seq(Event)
  /\ received \in [Conns -> Seq(Nat)]
  /\ published \in 0 .. MaxEvents
  /\ drops \in 0 .. MaxDrops

Init ==
  /\ conn = [c \in Conns |-> "new"]
  /\ byTicket = [t \in Tickets |-> None]
  /\ room = [a \in Agencies |-> {}]
  /\ listener = Listening
  /\ subscribed = TRUE
  /\ inbox = <<>>
  /\ received = [c \in Conns |-> <<>>]
  /\ published = 0
  /\ drops = 0

Broadcasting(a) ==
  /\ listener.pc = "send"
  /\ listener.event.to = a

-----------------------------------------------------------------------------
(* Connections.                                                            *)

\* Mutant: ticket_id and agency_id are swapped in the call.
connect_client_swapped(c) ==
  LET a == Room(c)  t == TicketOf[c] IN
  /\ conn[c] = "new"
  /\ conn' = [conn EXCEPT ![c] = "open"]
  /\ byTicket' = [k \in Tickets \cup {a} |-> IF k = a THEN c ELSE byTicket[k]]
  /\ room' = [k \in Agencies \cup {t} |-> IF k = t THEN {c} ELSE room[k]]
  /\ UNCHANGED <<listener, redisVars, received>>

\* connect_client: the index of the ticket moves to the new connection; it joins
\* the agency's set, under the feet of a broadcast that iterates over it.
connect_client(c) ==
  /\ conn[c] = "new"
  /\ conn' = [conn EXCEPT ![c] = "open"]
  /\ byTicket' = [byTicket EXCEPT ![TicketOf[c]] = c]
  /\ room' = [room EXCEPT ![Room(c)] = @ \cup {c}]
  /\ listener' = IF Broadcasting(Room(c)) /\ listener.shared
                   THEN [listener EXCEPT !.torn = TRUE] ELSE listener
  /\ UNCHANGED <<redisVars, received>>

\* The network or the client drops the connection.
PeerGone(c) ==
  /\ conn[c] = "open"
  /\ conn' = [conn EXCEPT ![c] = "lost"]
  /\ UNCHANGED <<byTicket, room, listener, redisVars, received>>

\* websocket_queue's handler catches WebSocketDisconnect, from receive_text or
\* from the send of a pong, and calls disconnect_client: the ticket leaves the
\* index, whichever connection it leads to, and the agency gets a new set.
disconnect_client(c) ==
  LET a == Room(c) IN
  /\ conn[c] = "lost"
  /\ \E how \in {"closed", "gone"} : conn' = [conn EXCEPT ![c] = how]
  /\ byTicket' = [byTicket EXCEPT ![TicketOf[c]] = None]
  /\ room' = [room EXCEPT ![a] = {d \in @ : conn'[d] # "closed"}]
  /\ listener' = IF Broadcasting(a) THEN [listener EXCEPT !.shared = FALSE] ELSE listener
  /\ UNCHANGED <<redisVars, received>>

-----------------------------------------------------------------------------
(* Redis Pub/Sub: what is published while nobody is subscribed is lost.    *)

publish_event(to) ==
  /\ published < MaxEvents
  /\ published' = published + 1
  /\ inbox' = IF subscribed
                THEN Append(inbox, [id |-> published + 1, to |-> to])
                ELSE inbox
  /\ UNCHANGED <<conn, byTicket, room, listener, received, subscribed, drops>>

\* The connection to Redis breaks; what the socket had already delivered may
\* still be read.
LoseRedis ==
  /\ subscribed /\ drops < MaxDrops
  /\ subscribed' = FALSE
  /\ drops' = drops + 1
  /\ \E n \in 0 .. Len(inbox) : inbox' = SubSeq(inbox, 1, n)
  /\ UNCHANGED <<conn, byTicket, room, listener, received, published>>

\* listen() raises; five seconds later the listener subscribes again.
Resubscribe ==
  /\ listener.pc = "listen" /\ ~subscribed /\ inbox = <<>>
  /\ subscribed' = TRUE
  /\ UNCHANGED <<conn, byTicket, room, listener, received, inbox, published, drops>>

-----------------------------------------------------------------------------
(* The listener.                                                           *)

\* Mutant: a ticket's event goes to any member of its room.
DispatchTurnToRoom ==
  /\ listener.pc = "listen" /\ inbox # <<>>
  /\ Head(inbox).to \in Tickets
  /\ \E ws \in room[AgencyOf[Head(inbox).to]] :
       listener' = [Listening EXCEPT !.pc = "send", !.event = Head(inbox), !.ws = ws]
  /\ inbox' = Tail(inbox)
  /\ UNCHANGED <<conn, byTicket, room, received, subscribed, published, drops>>

\* _dispatch_event: send_to_ticket finds the connection of the ticket, or
\* broadcast_to_agency starts to iterate, up to the first send.
DispatchTurn ==
  /\ listener.pc = "listen" /\ inbox # <<>>
  /\ Head(inbox).to \in Tickets
  /\ LET ws == byTicket[Head(inbox).to] IN
     listener' = IF ws = None THEN Listening
                 ELSE [Listening EXCEPT !.pc = "send", !.event = Head(inbox), !.ws = ws]
  /\ inbox' = Tail(inbox)
  /\ UNCHANGED <<conn, byTicket, room, received, subscribed, published, drops>>

DispatchCalled ==
  /\ listener.pc = "listen" /\ inbox # <<>>
  /\ Head(inbox).to \in Agencies
  /\ LET members == room[Head(inbox).to] IN
     \/ members = {} /\ listener' = Listening
     \/ \E c \in members :
          listener' = [Listening EXCEPT !.pc = "send", !.event = Head(inbox), !.ws = c,
                         !.todo = members \ {c}, !.shared = TRUE, !.audience = members]
  /\ inbox' = Tail(inbox)
  /\ UNCHANGED <<conn, byTicket, room, received, subscribed, published, drops>>

\* How a send may end: a peer the server still believes in swallows it or fails.
Outcomes(c) ==
  CASE conn[c] = "open" -> {"ok"}
    [] conn[c] = "lost" -> {"ok", "failed"}
    [] OTHER            -> {"failed"}

Hears(c) ==
  received' = IF conn[c] = "open"
                THEN [received EXCEPT ![c] = Append(@, listener.event.id)] ELSE received

Sending(to) == listener.pc = "send" /\ listener.event.to \in to

\* Mutant: the ticket is popped whether or not the send failed.
TurnSentPopped ==
  /\ Sending(Tickets)
  /\ Hears(listener.ws)
  /\ byTicket' = [byTicket EXCEPT ![listener.event.to] = None]
  /\ listener' = Listening
  /\ UNCHANGED <<conn, room, redisVars>>

\* Mutant: an event whose send failed is put back, after those that came since.
TurnSentRetried ==
  /\ Sending(Tickets)
  /\ Hears(listener.ws)
  /\ \E outcome \in Outcomes(listener.ws) :
       inbox' = IF outcome = "failed" THEN Append(inbox, listener.event) ELSE inbox
  /\ byTicket' = [byTicket EXCEPT ![listener.event.to] = None]
  /\ listener' = Listening
  /\ UNCHANGED <<conn, room, subscribed, published, drops>>

\* Mutant: a failed send is not caught and ends the listener.
TurnSentUncaught ==
  /\ Sending(Tickets)
  /\ Hears(listener.ws)
  /\ "ok" \in Outcomes(listener.ws)
  /\ listener' = Listening
  /\ UNCHANGED <<conn, byTicket, room, redisVars>>

\* send_to_ticket: a failed send pops the ticket, whichever connection it now has.
TurnSent ==
  /\ Sending(Tickets)
  /\ Hears(listener.ws)
  /\ \E outcome \in Outcomes(listener.ws) :
       byTicket' = IF outcome = "failed"
                     THEN [byTicket EXCEPT ![listener.event.to] = None] ELSE byTicket
  /\ listener' = Listening
  /\ UNCHANGED <<conn, room, redisVars>>

\* Mutant: the members of the set when the broadcast began are written back.
CleanUpToAudience(dead) ==
  room' = [room EXCEPT ![listener.event.to] = listener.audience \ dead]

\* The failed sends leave whatever set the agency now has.
CleanUp(dead) == room' = [room EXCEPT ![listener.event.to] = @ \ dead]

DeadAfter(outcome) == listener.dead \cup (IF outcome = "failed" THEN {listener.ws} ELSE {})

\* Mutant: the first failed send ends the iteration.
CalledSentStops ==
  /\ Sending(Agencies)
  /\ Hears(listener.ws)
  /\ \E outcome \in Outcomes(listener.ws) :
       \/ listener.torn /\ listener' = Listening /\ UNCHANGED room
       \/ /\ ~listener.torn
          /\ listener.todo = {} \/ outcome = "failed"
          /\ CleanUp(DeadAfter(outcome)) /\ listener' = Listening
       \/ /\ ~listener.torn /\ outcome = "ok"
          /\ \E c \in listener.todo : listener' = [listener EXCEPT !.ws = c, !.todo = @ \ {c}]
          /\ UNCHANGED room
  /\ UNCHANGED <<conn, byTicket, redisVars>>

\* broadcast_to_agency, from one send to the next: RuntimeError if the set has
\* changed size, else the next member, else the failed ones leave the room.
CalledSent ==
  /\ Sending(Agencies)
  /\ Hears(listener.ws)
  /\ \E outcome \in Outcomes(listener.ws) :
       \/ listener.torn /\ listener' = Listening /\ UNCHANGED room
       \/ /\ ~listener.torn /\ listener.todo = {}
          /\ CleanUp(DeadAfter(outcome)) /\ listener' = Listening
       \/ /\ ~listener.torn
          /\ \E c \in listener.todo :
               listener' = [listener EXCEPT !.ws = c, !.todo = @ \ {c},
                                            !.dead = DeadAfter(outcome)]
          /\ UNCHANGED room
  /\ UNCHANGED <<conn, byTicket, redisVars>>

Listen == DispatchTurn \/ DispatchCalled \/ TurnSent \/ CalledSent

-----------------------------------------------------------------------------
Next ==
  \/ \E c \in Conns : connect_client(c) \/ PeerGone(c) \/ disconnect_client(c)
  \/ \E to \in Tickets \cup Agencies : publish_event(to)
  \/ LoseRedis \/ Resubscribe \/ Listen

Spec == Init /\ [][Next]_vars

\* The event loop runs the listener again when its send is over, and its retry.
FairSpec == Spec /\ WF_vars(Listen) /\ WF_vars(Resubscribe)

-----------------------------------------------------------------------------
(* What the hub keeps.                                                     *)

\* Connections that come, go and are cleaned up during a broadcast never cost
\* another its place: every open connection is in its agency's room, and a room
\* holds only connections of its agency, none whose end was received.
RoomExact ==
  /\ \A c \in Conns : conn[c] = "open" => c \in room[Room(c)]
  /\ \A a \in Agencies : \A c \in room[a] :
       Room(c) = a /\ conn[c] \in {"open", "lost", "gone"}

\* A client hears only of its own turn: an event sent to one ticket is on its way
\* to a connection that follows that ticket, and a room's call to the room's.
NoCrossTalk ==
  listener.pc = "send" =>
    listener.event.to \in {TicketOf[listener.ws], Room(listener.ws)}

\* Events reach a client in the order of their publication and at most once, over
\* reconnections to Redis too.
InOrder ==
  \A c \in Conns : \A i, j \in DOMAIN received[c] : i < j => received[c][i] < received[c][j]

\* The only connection a ticket ever had stays in the index while it is open.
OnlyConnectionIsIndexed ==
  \A c \in Conns :
    /\ conn[c] = "open"
    /\ \A d \in Conns \ {c} : TicketOf[d] = TicketOf[c] => conn[d] = "new"
    => byTicket[TicketOf[c]] = c

Ended == listener.pc = "send" /\ listener'.pc = "listen" /\ listener.event.to \in Agencies

Heard(c) == \E i \in DOMAIN received'[c] : received'[c][i] = listener.event.id

\* A broadcast during which nobody joined the room has reached everybody who was
\* in it when it began and is still connected.
QuietBroadcastReachesAll ==
  [][Ended /\ ~listener.torn =>
       \A c \in listener.audience : conn[c] = "open" => Heard(c)]_vars

\* "Diffuse un message a TOUS les clients connectes dans cette agence"
\* (broadcast_to_agency): whoever was there when it began and still is.
BroadcastReachesAll ==
  [][Ended => \A c \in listener.audience : conn[c] = "open" => Heard(c)]_vars

\* connections_by_ticket leads to the mobile that follows the ticket: a ticket
\* that an open connection follows has an entry.
FollowedTicketIsIndexed ==
  \A c \in Conns : conn[c] = "open" => byTicket[TicketOf[c]] # None

\* A turn announced to an indexed, open connection is heard, unless meanwhile the
\* connection goes, the ticket is followed elsewhere or Redis is lost.
TurnIsHeard ==
  \A c \in Conns, n \in 1 .. MaxEvents :
    /\ \E i \in DOMAIN inbox :
         inbox[i].id = n /\ inbox[i].to = TicketOf[c]
    /\ byTicket[TicketOf[c]] = c /\ conn[c] = "open"
    ~> \/ \E i \in DOMAIN received[c] : received[c][i] = n
       \/ conn[c] # "open" \/ byTicket[TicketOf[c]] # c \/ ~subscribed

=============================================================================
