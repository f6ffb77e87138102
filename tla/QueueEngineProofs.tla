-------------------------- MODULE QueueEngineProofs --------------------------
(***************************************************************************)
(* What is proved of QueueEngine for every value of its constants: any     *)
(* number of tickets, users, services and requests in flight, and any      *)
(* number of requests that die.                                            *)
(***************************************************************************)
EXTENDS QueueEngine, TLAPS

-----------------------------------------------------------------------------
(* Facts about the vocabulary.                                             *)

LEMMA MayMoveStatus ==
  ASSUME NEW from, NEW to, MayMove(from, to)
  PROVE  from \in TicketStatus /\ to \in TicketStatus /\ from # to
BY DEF MayMove, ALLOWED_TRANSITIONS, TicketStatus

LEMMA MayMoveActive ==
  ASSUME NEW from, NEW to, MayMove(from, to), to \in ACTIVE_STATUSES
  PROVE  from \in ACTIVE_STATUSES
BY DEF MayMove, ALLOWED_TRANSITIONS, TicketStatus, ACTIVE_STATUSES

LEMMA UnbornIsNoStatus == UNBORN \notin TicketStatus
BY DEF UNBORN, TicketStatus

LEMMA IdleIsRequest == Idle \in Request
BY DEF Idle, Request, PC, TicketPriority

\* What Append does to the rows of a ticket.
LEMMA AppendEffect ==
  ASSUME NEW S, NEW rows \in Seq(S), NEW e \in S
  PROVE  /\ Append(rows, e) \in Seq(S)
         /\ Append(rows, e) # <<>>
         /\ Len(rows) \in Nat
         /\ rows = <<>> <=> Len(rows) = 0
         /\ Len(Append(rows, e)) = Len(rows) + 1
         /\ DOMAIN rows = 1 .. Len(rows)
         /\ DOMAIN Append(rows, e) = 1 .. Len(rows) + 1
         /\ Append(rows, e)[Len(rows) + 1] = e
         /\ \A i \in 1 .. Len(rows) : Append(rows, e)[i] = rows[i]
OBVIOUS

-----------------------------------------------------------------------------
(* How the three ways of moving a request on change `req'.                 *)

LEMMA GoToEffect ==
  ASSUME req \in [Requests -> Request], NEW r \in Requests, NEW pc \in PC, GoTo(r, pc)
  PROVE  /\ req' \in [Requests -> Request]
         /\ req'[r].pc = pc
         /\ req'[r].user = req[r].user
         /\ req'[r].service = req[r].service
         /\ req'[r].priority = req[r].priority
         /\ req'[r].ticket = req[r].ticket
         /\ req'[r].from = req[r].from
         /\ req'[r].to = req[r].to
         /\ \A q \in Requests \ {r} : req'[q] = req[q]
<1>1. [req[r] EXCEPT !.pc = pc] \in Request
  BY DEF Request
<1>2. req' \in [Requests -> Request]
  BY <1>1 DEF GoTo
<1>3. QED
  BY <1>2 DEF GoTo, Request

LEMMA FinishEffect ==
  ASSUME req \in [Requests -> Request], NEW r \in Requests, Finish(r)
  PROVE  /\ req' \in [Requests -> Request]
         /\ req'[r] = Idle
         /\ \A q \in Requests \ {r} : req'[q] = req[q]
BY IdleIsRequest DEF Finish

LEMMA StartEffect ==
  ASSUME req \in [Requests -> Request], NEW r \in Requests,
         NEW record \in Request, Start(r, record)
  PROVE  /\ req' \in [Requests -> Request]
         /\ req[r].pc = "idle"
         /\ req'[r] = record
         /\ \A q \in Requests \ {r} : req'[q] = req[q]
BY DEF Start, Free

-----------------------------------------------------------------------------
(* The inductive invariant.  TypeOK does not say that a request works on a *)
(* ticket that exists, that a uuid is drawn once, or that a transition was *)
(* checked before it is committed: RequestSound does, and with RowSound it *)
(* carries QueueSound and AuditTruthful through every step.                *)

NewTicketPC == {"checkActive", "insert"}
OldTicketPC == PC \ {"idle", "checkActive", "insert"}
MovingPC == {"dequeue", "requeue", "commit"}

DrawnOnce(r) == \A q \in Requests \ {r} : req[q].ticket # req[r].ticket

SoundRequest(r) ==
  /\ req[r].pc # "idle" => req[r].ticket \in Tickets /\ req[r].service \in Services
  /\ req[r].pc \in NewTicketPC =>
       status[req[r].ticket] = UNBORN /\ req[r].user \in Users /\ DrawnOnce(r)
  /\ req[r].pc \in OldTicketPC =>
       status[req[r].ticket] # UNBORN /\ service[req[r].ticket] = req[r].service
  /\ req[r].pc \in MovingPC => MayMove(req[r].from, req[r].to)

RequestSound == \A r \in Requests : SoundRequest(r)

RowSound ==
  \A t \in Tickets :
    /\ status[t] = UNBORN => audit[t] = <<>>
    /\ status[t] # UNBORN => service[t] \in Services /\ owner[t] \in Users

IInv == TypeOK /\ RequestSound /\ RowSound /\ QueueSound /\ AuditTruthful

-----------------------------------------------------------------------------
(* Every step preserves it.                                                *)

LEMMA InitInvariant == Init => IInv
<1> SUFFICES ASSUME Init PROVE IInv
  OBVIOUS
<1>1. TypeOK
  BY IdleIsRequest DEF Init, TypeOK, TicketPriority, NoEntry
<1>2. RequestSound
  BY DEF Init, RequestSound, SoundRequest, Idle, NewTicketPC, OldTicketPC, MovingPC
<1>3. RowSound /\ QueueSound /\ AuditTruthful
  BY DEF Init, RowSound, QueueSound, AuditTruthful
<1> QED
  BY <1>1, <1>2, <1>3 DEF IInv

\* A step that writes no store and moves one request to a sound position.
LEMMA RequestStep ==
  ASSUME IInv, NEW r \in Requests,
         UNCHANGED <<dbVars, queueVars>>, open' \in BOOLEAN, crashes' \in Nat,
         req' \in [Requests -> Request],
         \A q \in Requests \ {r} : req'[q] = req[q],
         SoundRequest(r)',
         \A q \in Requests \ {r} :
           req[q].pc \in NewTicketPC => req'[r].ticket # req[q].ticket
  PROVE  IInv'
<1>1. TypeOK'
  BY DEF IInv, TypeOK, dbVars, queueVars
<1>2. ASSUME NEW q \in Requests PROVE SoundRequest(q)'
  <2>1. CASE q = r
    BY <2>1
  <2>2. CASE q # r
    <3>1. SoundRequest(q)
      BY DEF IInv, RequestSound
    <3>2. req[q].pc \in NewTicketPC => DrawnOnce(q)'
      BY <2>2, <3>1 DEF SoundRequest, DrawnOnce
    <3> QED
      BY <2>2, <3>1, <3>2 DEF SoundRequest, dbVars
  <2> QED
    BY <2>1, <2>2
<1>3. RowSound' /\ QueueSound' /\ AuditTruthful'
  BY DEF IInv, RowSound, QueueSound, AuditTruthful, dbVars, queueVars
<1> QED
  BY <1>1, <1>2, <1>3 DEF IInv, RequestSound

\* A request that ends without writing anything.
LEMMA FinishStep ==
  ASSUME IInv, NEW r \in Requests, Finish(r),
         UNCHANGED <<dbVars, queueVars>>, open' \in BOOLEAN, crashes' \in Nat
  PROVE  IInv'
<1>1. req \in [Requests -> Request]
  BY DEF IInv, TypeOK
<1>2. /\ req' \in [Requests -> Request]
      /\ req'[r] = Idle
      /\ \A q \in Requests \ {r} : req'[q] = req[q]
  BY <1>1, FinishEffect
<1>3. SoundRequest(r)'
  BY <1>2 DEF SoundRequest, Idle, NewTicketPC, OldTicketPC, MovingPC
<1>4. \A q \in Requests \ {r} : req[q].pc \in NewTicketPC => req'[r].ticket # req[q].ticket
  BY <1>2, EngineAssumption DEF IInv, RequestSound, SoundRequest, NewTicketPC, Idle
<1> QED
  BY <1>2, <1>3, <1>4, RequestStep

LEMMA CreateStep ==
  ASSUME IInv, NEW r \in Requests, NEW u \in Users, NEW s \in Services,
         NEW p \in Priorities, create_ticket(r, u, s, p)
  PROVE  IInv'
<1> PICK t \in FreshTickets :
      Start(r, [Idle EXCEPT !.pc = "checkActive", !.user = u, !.service = s,
                            !.priority = p, !.ticket = t, !.to = "WAITING"])
  BY DEF create_ticket
<1> DEFINE record == [Idle EXCEPT !.pc = "checkActive", !.user = u, !.service = s,
                                  !.priority = p, !.ticket = t, !.to = "WAITING"]
<1>1. record \in Request
  BY EngineAssumption DEF Idle, Request, PC, FreshTickets, TicketStatus
<1>2. req \in [Requests -> Request] /\ open \in BOOLEAN /\ crashes \in Nat
  BY DEF IInv, TypeOK
<1>3. /\ req' \in [Requests -> Request]
      /\ req'[r] = record
      /\ \A q \in Requests \ {r} : req'[q] = req[q]
  BY <1>1, <1>2, StartEffect
<1>4. UNCHANGED <<dbVars, queueVars, open, crashes>>
  BY DEF create_ticket
<1>5. SoundRequest(r)'
  <2>1. status[t] = UNBORN /\ \A q \in Requests : req[q].ticket # t
    BY DEF FreshTickets
  <2>2. DrawnOnce(r)'
    BY <1>3, <2>1 DEF DrawnOnce, Idle
  <2> QED
    BY <1>3, <1>4, <2>1, <2>2
    DEF SoundRequest, Idle, NewTicketPC, OldTicketPC, MovingPC, FreshTickets, dbVars
<1>6. \A q \in Requests : req'[r].ticket # req[q].ticket
  BY <1>3 DEF FreshTickets, Idle
<1> QED
  BY <1>2, <1>3, <1>4, <1>5, <1>6, RequestStep

LEMMA CheckActiveStep ==
  ASSUME IInv, NEW r \in Requests, CheckActive(r)
  PROVE  IInv'
<1>1. req \in [Requests -> Request] /\ open \in BOOLEAN /\ crashes \in Nat
  BY DEF IInv, TypeOK
<1>2. UNCHANGED <<dbVars, queueVars, open, crashes>>
  BY DEF CheckActive
<1>3. CASE Finish(r)
  BY <1>1, <1>2, <1>3, FinishStep
<1>4. CASE GoTo(r, "insert")
  <2>1. "insert" \in PC
    BY DEF PC
  <2>2. /\ req' \in [Requests -> Request]
        /\ req'[r].pc = "insert"
        /\ req'[r].user = req[r].user
        /\ req'[r].service = req[r].service
        /\ req'[r].ticket = req[r].ticket
        /\ \A q \in Requests \ {r} : req'[q] = req[q]
    BY <1>1, <1>4, <2>1, GoToEffect
  <2>3. req[r].pc = "checkActive" /\ SoundRequest(r)
    BY DEF CheckActive, IInv, RequestSound
  <2>4. SoundRequest(r)'
    BY <1>2, <2>2, <2>3
    DEF SoundRequest, DrawnOnce, NewTicketPC, OldTicketPC, MovingPC, dbVars
  <2>5. \A q \in Requests \ {r} : req'[r].ticket # req[q].ticket
    BY <2>2, <2>3 DEF SoundRequest, NewTicketPC, DrawnOnce
  <2> QED
    BY <1>1, <1>2, <2>2, <2>4, <2>5, RequestStep
<1> QED
  BY <1>3, <1>4 DEF CheckActive

\* A request that starts on, or moves on with, a ticket whose row exists: no
\* request that is about to insert a ticket has drawn that one.
LEMMA BornIsNotDrawn ==
  ASSUME IInv, NEW t \in Tickets, status[t] # UNBORN,
         NEW q \in Requests, req[q].pc \in NewTicketPC
  PROVE  req[q].ticket # t
BY DEF IInv, RequestSound, SoundRequest

LEMMA CallNextStep ==
  ASSUME IInv, NEW r \in Requests, NEW s \in Services, call_next(r, s)
  PROVE  IInv'
<1> PICK t \in Heads(s) : Start(r, [Idle EXCEPT !.pc = "load", !.service = s, !.ticket = t])
  BY DEF call_next
<1> DEFINE record == [Idle EXCEPT !.pc = "load", !.service = s, !.ticket = t]
<1>1. t \in Tickets /\ status[t] # UNBORN /\ service[t] = s
  BY DEF Heads, IInv, TypeOK, QueueSound
<1>2. record \in Request
  BY <1>1 DEF Idle, Request, PC, TicketPriority
<1>3. req \in [Requests -> Request] /\ open \in BOOLEAN /\ crashes \in Nat
  BY DEF IInv, TypeOK
<1>4. /\ req' \in [Requests -> Request]
      /\ req'[r] = record
      /\ \A q \in Requests \ {r} : req'[q] = req[q]
  BY <1>2, <1>3, StartEffect
<1>5. UNCHANGED <<dbVars, queueVars, open, crashes>>
  BY DEF call_next
<1>6. SoundRequest(r)'
  BY <1>1, <1>4, <1>5
  DEF SoundRequest, Idle, NewTicketPC, OldTicketPC, MovingPC, dbVars
<1>7. \A q \in Requests \ {r} : req[q].pc \in NewTicketPC => req'[r].ticket # req[q].ticket
  BY <1>1, <1>4, BornIsNotDrawn DEF Idle
<1> QED
  BY <1>3, <1>4, <1>5, <1>6, <1>7, RequestStep

LEMMA LoadHeadStep ==
  ASSUME IInv, NEW r \in Requests, LoadHead(r)
  PROVE  IInv'
<1> DEFINE t == req[r].ticket
<1>1. req \in [Requests -> Request] /\ open \in BOOLEAN /\ crashes \in Nat
  BY DEF IInv, TypeOK
<1>2. UNCHANGED <<dbVars, queueVars, open, crashes>>
  BY DEF LoadHead
<1>3. CASE Finish(r)
  BY <1>1, <1>2, <1>3, FinishStep
<1>4. CASE /\ MayMove(status[t], "CALLED")
           /\ req' = [req EXCEPT ![r] = [@ EXCEPT !.pc = "dequeue",
                                                  !.from = status[t], !.to = "CALLED"]]
  <2> DEFINE record == [req[r] EXCEPT !.pc = "dequeue", !.from = status[t], !.to = "CALLED"]
  <2>1. status[t] \in TicketStatus /\ "CALLED" \in TicketStatus
    BY <1>4, MayMoveStatus
  <2>2. record \in Request
    <3>1. req[r] \in Request
      BY <1>1
    <3> QED
      BY <2>1, <3>1 DEF Request, PC
  <2>3. /\ req' \in [Requests -> Request]
        /\ req'[r] = record
        /\ \A q \in Requests \ {r} : req'[q] = req[q]
    BY <1>1, <1>4, <2>2
  <2>4. /\ record.pc = "dequeue" /\ record.ticket = t /\ record.service = req[r].service
        /\ record.from = status[t] /\ record.to = "CALLED"
    <3>1. req[r] \in Request
      BY <1>1
    <3> QED
      BY <3>1 DEF Request
  <2>5. req[r].pc = "load" /\ SoundRequest(r)
    BY DEF LoadHead, IInv, RequestSound
  <2>6. t \in Tickets /\ status[t] # UNBORN /\ service[t] = req[r].service
        /\ req[r].service \in Services
    BY <2>5 DEF SoundRequest, OldTicketPC, PC
  <2>7. SoundRequest(r)'
    BY <1>2, <1>4, <2>3, <2>4, <2>6
    DEF SoundRequest, NewTicketPC, OldTicketPC, MovingPC, dbVars
  <2>8. \A q \in Requests \ {r} : req[q].pc \in NewTicketPC => req'[r].ticket # req[q].ticket
    BY <2>3, <2>4, <2>6, BornIsNotDrawn
  <2> QED
    BY <1>1, <1>2, <2>3, <2>7, <2>8, RequestStep
<1> QED
  BY <1>3, <1>4 DEF LoadHead

\* A request that starts a transition _transition allows on an existing row.
LEMMA TransitionStep ==
  ASSUME IInv, NEW r \in Requests, NEW t \in Tickets, NEW to, NEW pc \in MovingPC,
         MayMove(status[t], to), Start(r, [Transition(t, to) EXCEPT !.pc = pc]),
         UNCHANGED <<dbVars, queueVars, open, crashes>>
  PROVE  IInv'
<1> DEFINE record == [Transition(t, to) EXCEPT !.pc = pc]
<1>1. status[t] \in TicketStatus /\ to \in TicketStatus
  BY MayMoveStatus
<1>2. status[t] # UNBORN /\ service[t] \in Services
  BY <1>1, UnbornIsNoStatus DEF IInv, RowSound
<1>3. record \in Request
  BY <1>1, <1>2 DEF Transition, Idle, Request, PC, MovingPC, TicketPriority
<1>4. /\ record.pc = pc /\ record.ticket = t /\ record.service = service[t]
      /\ record.from = status[t] /\ record.to = to
  BY DEF Transition, Idle
<1>5. req \in [Requests -> Request] /\ open \in BOOLEAN /\ crashes \in Nat
  BY DEF IInv, TypeOK
<1>6. /\ req' \in [Requests -> Request]
      /\ req'[r] = record
      /\ \A q \in Requests \ {r} : req'[q] = req[q]
  BY <1>3, <1>5, StartEffect
<1>7. SoundRequest(r)'
  BY <1>2, <1>4, <1>6 DEF SoundRequest, NewTicketPC, OldTicketPC, MovingPC, dbVars
<1>8. \A q \in Requests \ {r} : req[q].pc \in NewTicketPC => req'[r].ticket # req[q].ticket
  BY <1>2, <1>4, <1>6, BornIsNotDrawn
<1> QED
  BY <1>5, <1>6, <1>7, <1>8, RequestStep

LEMMA CancelStep ==
  ASSUME IInv, NEW r \in Requests, NEW u \in Users, NEW t \in Tickets, cancel_ticket(r, u, t)
  PROVE  IInv'
<1>1. "dequeue" \in MovingPC
  BY DEF MovingPC
<1> QED
  BY <1>1, TransitionStep DEF cancel_ticket

LEMMA AgentStep ==
  ASSUME IInv, NEW r \in Requests, NEW t \in Tickets, NEW to, AgentMove(r, t, to)
  PROVE  IInv'
<1>1. "commit" \in MovingPC
  BY DEF MovingPC
<1> QED
  BY <1>1, TransitionStep DEF AgentMove

LEMMA ReturnStep ==
  ASSUME IInv, NEW r \in Requests, NEW t \in Tickets, return_to_queue(r, t)
  PROVE  IInv'
<1>1. "requeue" \in MovingPC
  BY DEF MovingPC
<1> QED
  BY <1>1, TransitionStep DEF return_to_queue

\* The row of a new ticket: no other request about to insert has drawn its uuid.
LEMMA InsertStep ==
  ASSUME IInv, NEW r \in Requests, InsertTicket(r)
  PROVE  IInv'
<1> DEFINE t == req[r].ticket
<1>1. req \in [Requests -> Request]
  BY DEF IInv, TypeOK
<1>2. req[r].pc = "insert" /\ SoundRequest(r)
  BY DEF InsertTicket, IInv, RequestSound
<1>3. /\ t \in Tickets /\ req[r].service \in Services /\ req[r].user \in Users
      /\ status[t] = UNBORN /\ DrawnOnce(r)
  BY <1>2 DEF SoundRequest, NewTicketPC
<1>4. "logCreated" \in PC
  BY DEF PC
<1>5. /\ req' \in [Requests -> Request]
      /\ req'[r].pc = "logCreated"
      /\ req'[r].service = req[r].service
      /\ req'[r].ticket = t
      /\ \A q \in Requests \ {r} : req'[q] = req[q]
  BY <1>1, <1>4, GoToEffect DEF InsertTicket
<1>6. /\ status' = [status EXCEPT ![t] = "WAITING"]
      /\ owner' = [owner EXCEPT ![t] = req[r].user]
      /\ service' = [service EXCEPT ![t] = req[r].service]
      /\ UNCHANGED <<created, audit, queueVars, open, crashes>>
  BY DEF InsertTicket
<1>7. TypeOK'
  <2>1. "WAITING" \in TicketStatus
    BY DEF TicketStatus
  <2> QED
    BY <1>3, <1>5, <1>6, <2>1 DEF IInv, TypeOK, queueVars
<1>8. /\ status'[t] = "WAITING" /\ owner'[t] = req[r].user
      /\ service'[t] = req[r].service /\ "WAITING" # UNBORN
      /\ \A v \in Tickets \ {t} :
           status'[v] = status[v] /\ owner'[v] = owner[v] /\ service'[v] = service[v]
  BY <1>3, <1>6 DEF IInv, TypeOK, UNBORN
<1>9. RequestSound'
  <2> SUFFICES ASSUME NEW q \in Requests PROVE SoundRequest(q)'
    BY DEF RequestSound
  <2>1. CASE q = r
    BY <1>3, <1>5, <1>8, <2>1 DEF SoundRequest, NewTicketPC, OldTicketPC, MovingPC
  <2>2. CASE q # r
    <3>1. SoundRequest(q) /\ req'[q] = req[q] /\ req[q].ticket # t
      BY <1>3, <1>5, <2>2 DEF IInv, RequestSound, DrawnOnce
    <3>2. DrawnOnce(q) => DrawnOnce(q)'
      BY <1>5, <2>2 DEF DrawnOnce
    <3>3. req[q].pc = "idle" \/ req[q].pc \in NewTicketPC \/ req[q].pc \in OldTicketPC
      BY <1>1 DEF Request, NewTicketPC, OldTicketPC
    <3>4. req[q].pc # "idle" => req[q].ticket \in Tickets \ {t}
      BY <3>1 DEF SoundRequest
    <3>5. MovingPC \cap {"idle"} = {} /\ NewTicketPC \cap {"idle"} = {}
          /\ OldTicketPC \cap {"idle"} = {}
      BY DEF MovingPC, NewTicketPC, OldTicketPC
    <3> QED
      BY <1>8, <3>1, <3>2, <3>3, <3>4, <3>5 DEF SoundRequest
  <2> QED
    BY <2>1, <2>2
<1>10. RowSound' /\ QueueSound' /\ AuditTruthful'
  <2>1. audit[t] = <<>> /\ audit' = audit
    BY <1>3, <1>6 DEF IInv, RowSound
  <2>2. RowSound'
    BY <1>3, <1>8, <2>1 DEF IInv, RowSound
  <2>3. QueueSound'
    BY <1>3, <1>6, <1>8 DEF IInv, QueueSound, TypeOK, queueVars
  <2>4. AuditTruthful'
    BY <1>8, <2>1 DEF IInv, AuditTruthful
  <2> QED
    BY <2>2, <2>3, <2>4
<1> QED
  BY <1>7, <1>9, <1>10 DEF IInv

LEMMA LogStep ==
  ASSUME IInv, NEW r \in Requests, LogCreated(r)
  PROVE  IInv'
<1>1. req \in [Requests -> Request]
  BY DEF IInv, TypeOK
<1>2. req[r].pc = "logCreated" /\ SoundRequest(r)
  BY DEF LogCreated, IInv, RequestSound
<1>3. "enqueue" \in PC
  BY DEF PC
<1>4. /\ req' \in [Requests -> Request]
      /\ req'[r].pc = "enqueue"
      /\ req'[r].service = req[r].service
      /\ req'[r].ticket = req[r].ticket
      /\ \A q \in Requests \ {r} : req'[q] = req[q]
  BY <1>1, <1>3, GoToEffect DEF LogCreated
<1>5. /\ created' = created \cup {req[r].ticket}
      /\ UNCHANGED <<status, owner, service, audit, queueVars, open, crashes>>
  BY DEF LogCreated
<1>6. req[r].ticket \in Tickets
  BY <1>2 DEF SoundRequest
<1>7. TypeOK'
  BY <1>4, <1>5, <1>6 DEF IInv, TypeOK, queueVars
<1>8. RequestSound'
  <2> SUFFICES ASSUME NEW q \in Requests PROVE SoundRequest(q)'
    BY DEF RequestSound
  <2>1. CASE q = r
    BY <1>2, <1>4, <1>5, <2>1 DEF SoundRequest, NewTicketPC, OldTicketPC, MovingPC, PC
  <2>2. CASE q # r
    <3>1. SoundRequest(q) /\ req'[q] = req[q]
      BY <1>4, <2>2 DEF IInv, RequestSound
    <3>2. DrawnOnce(q) => DrawnOnce(q)'
      BY <1>4, <2>2 DEF DrawnOnce
    <3> QED
      BY <1>5, <3>1, <3>2 DEF SoundRequest
  <2> QED
    BY <2>1, <2>2
<1>9. RowSound' /\ QueueSound' /\ AuditTruthful'
  BY <1>5 DEF IInv, RowSound, QueueSound, AuditTruthful, queueVars
<1> QED
  BY <1>7, <1>8, <1>9 DEF IInv


\* A step that writes Redis only: the queues still hold existing tickets of
\* their service, and one request moves to a sound position on its ticket.
LEMMA QueueStep ==
  ASSUME IInv, NEW r \in Requests,
         UNCHANGED <<dbVars, open, crashes>>,
         queue' \in [Services -> SUBSET Tickets],
         entry' \in [Tickets -> [priority : TicketPriority, at : Nat]],
         now' \in Nat,
         QueueSound',
         req' \in [Requests -> Request],
         \A q \in Requests \ {r} : req'[q] = req[q],
         SoundRequest(r)',
         \A q \in Requests \ {r} :
           req[q].pc \in NewTicketPC => req'[r].ticket # req[q].ticket
  PROVE  IInv'
<1>1. TypeOK'
  BY DEF IInv, TypeOK, dbVars
<1>2. ASSUME NEW q \in Requests PROVE SoundRequest(q)'
  <2>1. CASE q = r
    BY <2>1
  <2>2. CASE q # r
    <3>1. SoundRequest(q)
      BY DEF IInv, RequestSound
    <3>2. req[q].pc \in NewTicketPC => DrawnOnce(q)'
      BY <2>2, <3>1 DEF SoundRequest, DrawnOnce
    <3> QED
      BY <2>2, <3>1, <3>2 DEF SoundRequest, dbVars
  <2> QED
    BY <2>1, <2>2
<1>3. RowSound' /\ AuditTruthful'
  BY DEF IInv, RowSound, AuditTruthful, dbVars
<1> QED
  BY <1>1, <1>2, <1>3 DEF IInv, RequestSound

\* zadd and zrem on a service's queue, with a ticket of that service.
LEMMA AddEffect ==
  ASSUME IInv, NEW s \in Services, NEW t \in Tickets, NEW p \in TicketPriority,
         status[t] # UNBORN, service[t] = s, UNCHANGED dbVars, AddToQueue(s, t, p)
  PROVE  /\ queue' \in [Services -> SUBSET Tickets]
         /\ entry' \in [Tickets -> [priority : TicketPriority, at : Nat]]
         /\ now' \in Nat
         /\ QueueSound'
<1>1. /\ queue \in [Services -> SUBSET Tickets]
      /\ entry \in [Tickets -> [priority : TicketPriority, at : Nat]]
      /\ now \in Nat
  BY DEF IInv, TypeOK
<1>2. now + 1 \in Nat
  BY <1>1
<1>3. entry' \in [Tickets -> [priority : TicketPriority, at : Nat]]
  BY <1>1, <1>2 DEF AddToQueue
<1>4. QueueSound'
  BY <1>1 DEF IInv, QueueSound, AddToQueue, dbVars
<1> QED
  BY <1>1, <1>2, <1>3, <1>4 DEF AddToQueue

LEMMA RemoveEffect ==
  ASSUME IInv, NEW s \in Services, NEW t \in Tickets,
         UNCHANGED dbVars, RemoveFromQueue(s, t)
  PROVE  /\ queue' \in [Services -> SUBSET Tickets]
         /\ entry' \in [Tickets -> [priority : TicketPriority, at : Nat]]
         /\ now' \in Nat
         /\ QueueSound'
<1>1. /\ queue \in [Services -> SUBSET Tickets]
      /\ entry \in [Tickets -> [priority : TicketPriority, at : Nat]]
      /\ now \in Nat
  BY DEF IInv, TypeOK
<1>2. NoEntry \in [priority : TicketPriority, at : Nat]
  BY DEF NoEntry, TicketPriority
<1>3. QueueSound'
  BY <1>1 DEF IInv, QueueSound, RemoveFromQueue, dbVars
<1> QED
  BY <1>1, <1>2, <1>3 DEF RemoveFromQueue

LEMMA EnqueueStep ==
  ASSUME IInv, NEW r \in Requests, EnqueueCreated(r)
  PROVE  IInv'
<1>1. req \in [Requests -> Request] /\ req[r].pc = "enqueue" /\ SoundRequest(r)
  BY DEF EnqueueCreated, IInv, TypeOK, RequestSound
<1>2. /\ req[r].ticket \in Tickets /\ req[r].service \in Services
      /\ status[req[r].ticket] # UNBORN /\ service[req[r].ticket] = req[r].service
  BY <1>1 DEF SoundRequest, OldTicketPC, PC
<1>3. req[r].priority \in TicketPriority
  BY <1>1 DEF Request
<1>4. /\ UNCHANGED <<dbVars, open, crashes>>
      /\ AddToQueue(req[r].service, req[r].ticket, req[r].priority)
      /\ Finish(r)
  BY DEF EnqueueCreated
<1>5. /\ queue' \in [Services -> SUBSET Tickets]
      /\ entry' \in [Tickets -> [priority : TicketPriority, at : Nat]]
      /\ now' \in Nat
      /\ QueueSound'
  BY <1>2, <1>3, <1>4, AddEffect
<1>6. /\ req' \in [Requests -> Request]
      /\ req'[r] = Idle
      /\ \A q \in Requests \ {r} : req'[q] = req[q]
  BY <1>1, <1>4, FinishEffect
<1>7. SoundRequest(r)'
  BY <1>6 DEF SoundRequest, Idle, NewTicketPC, OldTicketPC, MovingPC
<1>8. \A q \in Requests \ {r} : req[q].pc \in NewTicketPC => req'[r].ticket # req[q].ticket
  BY <1>6, EngineAssumption DEF IInv, RequestSound, SoundRequest, NewTicketPC, Idle
<1> QED
  BY <1>4, <1>5, <1>6, <1>7, <1>8, QueueStep

\* Dequeue and Requeue leave the request about to commit the same transition.
LEMMA ToCommitEffect ==
  ASSUME IInv, NEW r \in Requests, req[r].pc \in {"dequeue", "requeue"},
         GoTo(r, "commit"), UNCHANGED dbVars
  PROVE  /\ req[r].ticket \in Tickets /\ req[r].service \in Services
         /\ status[req[r].ticket] # UNBORN /\ service[req[r].ticket] = req[r].service
         /\ req' \in [Requests -> Request]
         /\ \A q \in Requests \ {r} : req'[q] = req[q]
         /\ SoundRequest(r)'
         /\ \A q \in Requests \ {r} :
              req[q].pc \in NewTicketPC => req'[r].ticket # req[q].ticket
<1>1. req \in [Requests -> Request] /\ SoundRequest(r)
  BY DEF IInv, TypeOK, RequestSound
<1>2. /\ req[r].ticket \in Tickets /\ req[r].service \in Services
      /\ status[req[r].ticket] # UNBORN /\ service[req[r].ticket] = req[r].service
      /\ MayMove(req[r].from, req[r].to)
  BY <1>1 DEF SoundRequest, OldTicketPC, MovingPC, PC
<1>3. "commit" \in PC
  BY DEF PC
<1>4. /\ req' \in [Requests -> Request]
      /\ req'[r].pc = "commit"
      /\ req'[r].service = req[r].service
      /\ req'[r].ticket = req[r].ticket
      /\ req'[r].from = req[r].from
      /\ req'[r].to = req[r].to
      /\ \A q \in Requests \ {r} : req'[q] = req[q]
  BY <1>1, <1>3, GoToEffect
<1>5. SoundRequest(r)'
  BY <1>2, <1>4 DEF SoundRequest, NewTicketPC, OldTicketPC, MovingPC, dbVars
<1>6. \A q \in Requests \ {r} : req[q].pc \in NewTicketPC => req'[r].ticket # req[q].ticket
  BY <1>2, <1>4, BornIsNotDrawn
<1> QED
  BY <1>2, <1>4, <1>5, <1>6

LEMMA DequeueStep ==
  ASSUME IInv, NEW r \in Requests, Dequeue(r)
  PROVE  IInv'
<1>1. /\ req[r].pc \in {"dequeue", "requeue"} /\ GoTo(r, "commit")
      /\ RemoveFromQueue(req[r].service, req[r].ticket)
      /\ UNCHANGED dbVars /\ UNCHANGED <<dbVars, open, crashes>>
  BY DEF Dequeue
<1>2. /\ req[r].ticket \in Tickets /\ req[r].service \in Services
      /\ req' \in [Requests -> Request]
      /\ \A q \in Requests \ {r} : req'[q] = req[q]
      /\ SoundRequest(r)'
      /\ \A q \in Requests \ {r} :
           req[q].pc \in NewTicketPC => req'[r].ticket # req[q].ticket
  BY <1>1, ToCommitEffect
<1>3. /\ queue' \in [Services -> SUBSET Tickets]
      /\ entry' \in [Tickets -> [priority : TicketPriority, at : Nat]]
      /\ now' \in Nat
      /\ QueueSound'
  BY <1>1, <1>2, RemoveEffect
<1> QED
  BY <1>1, <1>2, <1>3, QueueStep

LEMMA RequeueStep ==
  ASSUME IInv, NEW r \in Requests, Requeue(r)
  PROVE  IInv'
<1>1. /\ req[r].pc \in {"dequeue", "requeue"} /\ GoTo(r, "commit")
      /\ AddToQueue(req[r].service, req[r].ticket, "STANDARD")
      /\ UNCHANGED dbVars /\ UNCHANGED <<dbVars, open, crashes>>
  BY DEF Requeue
<1>2. /\ req[r].ticket \in Tickets /\ req[r].service \in Services
      /\ status[req[r].ticket] # UNBORN /\ service[req[r].ticket] = req[r].service
      /\ req' \in [Requests -> Request]
      /\ \A q \in Requests \ {r} : req'[q] = req[q]
      /\ SoundRequest(r)'
      /\ \A q \in Requests \ {r} :
           req[q].pc \in NewTicketPC => req'[r].ticket # req[q].ticket
  BY <1>1, ToCommitEffect
<1>3. "STANDARD" \in TicketPriority
  BY DEF TicketPriority
<1>4. /\ queue' \in [Services -> SUBSET Tickets]
      /\ entry' \in [Tickets -> [priority : TicketPriority, at : Nat]]
      /\ now' \in Nat
      /\ QueueSound'
  BY <1>1, <1>2, <1>3, AddEffect
<1> QED
  BY <1>1, <1>2, <1>4, QueueStep


\* The commit of a transition: it was checked on what the request had read, and
\* whatever the row held meanwhile, the log row it appends is the last one.
LEMMA CommitStep ==
  ASSUME IInv, NEW r \in Requests, CommitMove(r)
  PROVE  IInv'
<1> DEFINE t == req[r].ticket
           to == req[r].to
           row == [from |-> req[r].from, to |-> to]
<1>1. req \in [Requests -> Request] /\ req[r].pc = "commit" /\ SoundRequest(r)
  BY DEF CommitMove, IInv, TypeOK, RequestSound
<1>2. /\ t \in Tickets /\ req[r].service \in Services
      /\ status[t] # UNBORN /\ service[t] = req[r].service
      /\ MayMove(req[r].from, to)
  BY <1>1 DEF SoundRequest, OldTicketPC, MovingPC, PC
<1>3. req[r].from \in TicketStatus /\ to \in TicketStatus /\ to # UNBORN
  BY <1>2, MayMoveStatus, UnbornIsNoStatus
<1>4. /\ status' = [status EXCEPT ![t] = to]
      /\ audit' = [audit EXCEPT ![t] = Append(@, row)]
      /\ UNCHANGED <<owner, service, created, queueVars, open, crashes>>
  BY DEF CommitMove
<1>5. /\ req' \in [Requests -> Request]
      /\ \A q \in Requests \ {r} : req'[q] = req[q]
      /\ \/ req'[r] = Idle
         \/ /\ req'[r].pc = "tell" /\ req'[r].ticket = t
            /\ req'[r].service = req[r].service
  <2>1. CASE Finish(r)
    BY <1>1, <2>1, FinishEffect
  <2>2. CASE GoTo(r, "tell")
    <3>1. "tell" \in PC
      BY DEF PC
    <3> QED
      BY <1>1, <2>2, <3>1, GoToEffect
  <2> QED
    BY <2>1, <2>2 DEF CommitMove
<1>6. /\ status'[t] = to /\ audit'[t] = Append(audit[t], row)
      /\ \A v \in Tickets \ {t} : status'[v] = status[v] /\ audit'[v] = audit[v]
      /\ audit[t] \in Seq([from : TicketStatus, to : TicketStatus])
  BY <1>2, <1>4 DEF IInv, TypeOK
<1>7. row \in [from : TicketStatus, to : TicketStatus]
  BY <1>3
<1>8. TypeOK'
  <2>1. audit'[t] \in Seq([from : TicketStatus, to : TicketStatus])
    <3> HIDE DEF t, row
    <3> QED
      BY <1>6, <1>7, AppendEffect
  <2>2. audit' \in [Tickets -> Seq([from : TicketStatus, to : TicketStatus])]
    BY <1>2, <1>4, <1>6, <2>1 DEF IInv, TypeOK
  <2>3. status' \in [Tickets -> TicketStatus \cup {UNBORN}]
    BY <1>2, <1>3, <1>4 DEF IInv, TypeOK
  <2> QED
    BY <1>4, <1>5, <2>2, <2>3 DEF IInv, TypeOK, queueVars
<1>9. RequestSound'
  <2> SUFFICES ASSUME NEW q \in Requests PROVE SoundRequest(q)'
    BY DEF RequestSound
  <2>1. CASE q = r
    BY <1>2, <1>3, <1>4, <1>5, <1>6, <2>1
    DEF SoundRequest, Idle, NewTicketPC, OldTicketPC, MovingPC
  <2>2. CASE q # r
    <3>1. SoundRequest(q) /\ req'[q] = req[q]
      BY <1>5, <2>2 DEF IInv, RequestSound
    <3>2. req[q].pc \in NewTicketPC => req[q].ticket # t
      BY <1>2, BornIsNotDrawn
    <3>3. req[q].pc \in NewTicketPC => DrawnOnce(q)'
      <4>1. t # None
        BY <1>2, EngineAssumption
      <4>2. req[q].pc \in NewTicketPC => req[q].ticket # None
        BY <3>1, EngineAssumption DEF SoundRequest, NewTicketPC
      <4> QED
        BY <1>5, <2>2, <3>1, <3>2, <4>2 DEF SoundRequest, DrawnOnce, Idle
    <3>4. status'[req[q].ticket] = UNBORN <=> status[req[q].ticket] = UNBORN
      BY <1>2, <1>3, <1>4, <1>6 DEF IInv, TypeOK
    <3> QED
      BY <1>4, <3>1, <3>3, <3>4 DEF SoundRequest
  <2> QED
    BY <2>1, <2>2
<1>10. RowSound'
  BY <1>2, <1>4, <1>6, <1>3 DEF IInv, RowSound
<1>11. QueueSound'
  BY <1>2, <1>3, <1>4, <1>6 DEF IInv, QueueSound, TypeOK, queueVars
<1>12. AuditTruthful'
  <2> SUFFICES ASSUME NEW v \in Tickets
      PROVE  /\ \A i \in DOMAIN audit'[v] : MayMove(audit'[v][i].from, audit'[v][i].to)
             /\ audit'[v] = <<>> => status'[v] \in {UNBORN, "WAITING"}
             /\ audit'[v] # <<>> => status'[v] = audit'[v][Len(audit'[v])].to
    BY DEF AuditTruthful
  <2>1. CASE v # t
    BY <1>6, <2>1 DEF IInv, AuditTruthful
  <2>2. CASE v = t
    <3>1. /\ Len(audit'[t]) = Len(audit[t]) + 1
          /\ audit'[t] # <<>>
          /\ audit'[t][Len(audit'[t])] = row
          /\ DOMAIN audit'[t] = 1 .. Len(audit[t]) + 1
          /\ DOMAIN audit[t] = 1 .. Len(audit[t])
          /\ Len(audit[t]) \in Nat
          /\ \A i \in 1 .. Len(audit[t]) : audit'[t][i] = audit[t][i]
      <4> HIDE DEF t, row
      <4> QED
        BY <1>6, <1>7, AppendEffect
    <3>2. \A i \in DOMAIN audit[t] : MayMove(audit[t][i].from, audit[t][i].to)
      BY <1>2 DEF IInv, AuditTruthful
    <3>3. \A i \in DOMAIN audit'[t] : MayMove(audit'[t][i].from, audit'[t][i].to)
      <4> SUFFICES ASSUME NEW i \in DOMAIN audit'[t]
                   PROVE  MayMove(audit'[t][i].from, audit'[t][i].to)
        OBVIOUS
      <4>1. CASE i \in 1 .. Len(audit[t])
        BY <3>1, <3>2, <4>1
      <4>2. CASE i = Len(audit[t]) + 1
        BY <1>2, <3>1, <4>2
      <4> QED
        BY <3>1, <4>1, <4>2
    <3>4. status'[t] = audit'[t][Len(audit'[t])].to
      BY <1>6, <3>1
    <3> HIDE DEF t, row, to
    <3> QED
      BY <2>2, <3>1, <3>3, <3>4
  <2> QED
    BY <2>1, <2>2
<1> QED
  BY <1>8, <1>9, <1>10, <1>11, <1>12 DEF IInv


LEMMA TellStep ==
  ASSUME IInv, NEW r \in Requests, Tell(r)
  PROVE  IInv'
<1>1. open \in BOOLEAN /\ crashes \in Nat
  BY DEF IInv, TypeOK
<1> QED
  BY <1>1, FinishStep DEF Tell

LEMMA FailStep ==
  ASSUME IInv, NEW r \in Requests, Fail(r)
  PROVE  IInv'
<1>1. open \in BOOLEAN /\ crashes + 1 \in Nat
  BY DEF IInv, TypeOK
<1> QED
  BY <1>1, FinishStep DEF Fail

\* A step that leaves the stores and the requests alone.
LEMMA IdleStep ==
  ASSUME IInv, UNCHANGED <<dbVars, queueVars, req, crashes>>, open' \in BOOLEAN
  PROVE  IInv'
<1>1. TypeOK'
  BY DEF IInv, TypeOK, dbVars, queueVars
<1>2. RequestSound'
  BY DEF IInv, RequestSound, SoundRequest, DrawnOnce, dbVars
<1>3. RowSound' /\ QueueSound' /\ AuditTruthful'
  BY DEF IInv, RowSound, QueueSound, AuditTruthful, dbVars, queueVars
<1> QED
  BY <1>1, <1>2, <1>3 DEF IInv

LEMMA SetOpenStep ==
  ASSUME IInv, SetOpen
  PROVE  IInv'
<1>1. open' \in BOOLEAN /\ UNCHANGED <<dbVars, queueVars, req, crashes>>
  BY EngineAssumption DEF SetOpen
<1> QED
  BY <1>1, IdleStep

LEMMA NextInvariant == IInv /\ [Next]_vars => IInv'
<1> SUFFICES ASSUME IInv, [Next]_vars PROVE IInv'
  OBVIOUS
<1>1. CASE UNCHANGED vars
  <2>1. open' \in BOOLEAN /\ UNCHANGED <<dbVars, queueVars, req, crashes>>
    BY <1>1 DEF vars, IInv, TypeOK
  <2> QED
    BY <2>1, IdleStep
<1>2. CASE SetOpen
  BY <1>2, SetOpenStep
<1>3. ASSUME NEW r \in Requests, Begin(r)
      PROVE  IInv'
  <2>1. CASE \E u \in Users, s \in Services, p \in Priorities : create_ticket(r, u, s, p)
    BY <2>1, CreateStep
  <2>2. CASE \E s \in Services : call_next(r, s)
    BY <2>2, CallNextStep
  <2>3. ASSUME NEW t \in Tickets, NEW u \in Users, cancel_ticket(r, u, t)
        PROVE  IInv'
    BY <2>3, CancelStep
  <2>4. ASSUME NEW t \in Tickets,
               start_serving(r, t) \/ complete_ticket(r, t) \/ mark_absent(r, t)
        PROVE  IInv'
    BY <2>4, AgentStep DEF start_serving, complete_ticket, mark_absent
  <2>5. ASSUME NEW t \in Tickets, return_to_queue(r, t)
        PROVE  IInv'
    BY <2>5, ReturnStep
  <2> QED
    BY <1>3, <2>1, <2>2, <2>3, <2>4, <2>5 DEF Begin
<1>4. ASSUME NEW r \in Requests, Continue(r)
      PROVE  IInv'
  BY <1>4, CheckActiveStep, InsertStep, LogStep, EnqueueStep, LoadHeadStep,
     DequeueStep, RequeueStep, CommitStep, TellStep DEF Continue
<1>5. ASSUME NEW r \in Requests, Fail(r)
      PROVE  IInv'
  BY <1>5, FailStep
<1> QED
  BY <1>1, <1>2, <1>3, <1>4, <1>5 DEF Next

\* Whatever requests interleave and die, the invariant holds in every state.
THEOREM EngineInvariant == Spec => []IInv
BY InitInvariant, NextInvariant, PTL DEF Spec

\* Type correctness of the queue engine.
THEOREM TypeCorrect == Spec => []TypeOK
<1>1. IInv => TypeOK
  BY DEF IInv
<1> QED
  BY <1>1, EngineInvariant, PTL

\* A queue of Redis names only tickets of PostgreSQL, and of its own service, so
\* the ticket call_next reads after zrange always exists.
THEOREM QueueSoundAlways == Spec => []QueueSound
<1>1. IInv => QueueSound
  BY DEF IInv
<1> QED
  BY <1>1, EngineInvariant, PTL

\* The last row of queue_logs states the status of the ticket, and every row is
\* an allowed transition, even when requests commit over one another.
THEOREM AuditTruthfulAlways == Spec => []AuditTruthful
<1>1. IInv => AuditTruthful
  BY DEF IInv
<1> QED
  BY <1>1, EngineInvariant, PTL

-----------------------------------------------------------------------------
(* The two facts that EngineConcurrent checks beside the invariant.        *)

\* A request keeps its record until a step of its own.
LEMMA OthersStay ==
  ASSUME IInv, Next, NEW q \in Requests, req[q].pc \in {"logCreated", "tell"},
         ~LogCreated(q), ~Tell(q), ~Fail(q)
  PROVE  req'[q] = req[q]
<1>1. req \in [Requests -> Request]
  BY DEF IInv, TypeOK
<1>2. CASE SetOpen
  BY <1>2 DEF SetOpen
<1>3. ASSUME NEW r \in Requests, Begin(r)
      PROVE  req'[q] = req[q]
  <2>1. \E record : Start(r, record)
    BY <1>3 DEF Begin, create_ticket, call_next, cancel_ticket, start_serving,
               complete_ticket, mark_absent, AgentMove, return_to_queue
  <2> QED
    BY <1>1, <2>1 DEF Start, Free
<1>4. ASSUME NEW r \in Requests, Continue(r) \/ Fail(r)
      PROVE  req'[q] = req[q]
  <2>1. CASE r = q
    BY <1>4, <2>1 DEF Continue, CheckActive, InsertTicket, EnqueueCreated, LoadHead,
                      Dequeue, Requeue, CommitMove
  <2>2. CASE r # q
    BY <1>1, <1>4, <2>2
    DEF Continue, CheckActive, InsertTicket, LogCreated, EnqueueCreated, LoadHead, Dequeue,
        Requeue, CommitMove, Tell, Fail, GoTo, Finish
  <2> QED
    BY <2>1, <2>2
<1> QED
  BY <1>2, <1>3, <1>4 DEF Next

\* What a step can do to the rows: insert a ticket, log its creation, or commit
\* a transition.
LEMMA RowsChange ==
  ASSUME Next
  PROVE  \/ UNCHANGED <<status, created, audit>>
         \/ \E r \in Requests : InsertTicket(r) \/ LogCreated(r) \/ CommitMove(r)
BY DEF Next, SetOpen, Begin, create_ticket, call_next, cancel_ticket, start_serving,
       complete_ticket, mark_absent, AgentMove, return_to_queue, Continue, CheckActive,
       EnqueueCreated, LoadHead, Dequeue, Requeue, Tell, Fail, dbVars

LEMMA CrashesGrow ==
  ASSUME IInv, Next
  PROVE  crashes \in Nat /\ (crashes' = crashes \/ crashes' = crashes + 1)
<1>1. crashes \in Nat
  BY DEF IInv, TypeOK
<1> QED
  BY <1>1
  DEF Next, SetOpen, Begin, create_ticket, call_next, cancel_ticket, start_serving,
      complete_ticket, mark_absent, AgentMove, return_to_queue, Continue, CheckActive,
      InsertTicket, LogCreated, EnqueueCreated, LoadHead, Dequeue, Requeue, CommitMove,
      Tell, Fail

LEMMA CreationStep ==
  ASSUME IInv, CreationLogged, Next
  PROVE  CreationLogged'
<1> SUFFICES ASSUME NEW t \in Tickets, status'[t] # UNBORN, t \notin created', ~(crashes' > 0)
    PROVE  \E r \in Requests : req'[r].pc = "logCreated" /\ req'[r].ticket = t
  BY DEF CreationLogged
<1>1. req \in [Requests -> Request] /\ status \in [Tickets -> TicketStatus \cup {UNBORN}]
  BY DEF IInv, TypeOK
<1>2. ~(crashes > 0) /\ \A r \in Requests : ~Fail(r)
  <2>1. ~(crashes > 0) /\ crashes' = crashes
    BY CrashesGrow
  <2> QED
    BY <2>1, CrashesGrow DEF Fail
<1>3. CASE status[t] # UNBORN
  <2>1. created \subseteq created'
    <3>1. CASE UNCHANGED created
      BY <3>1
    <3>2. CASE \E r \in Requests : LogCreated(r)
      BY <3>2 DEF LogCreated
    <3> QED
      BY <3>1, <3>2, RowsChange DEF InsertTicket, CommitMove
  <2>2. PICK q \in Requests : req[q].pc = "logCreated" /\ req[q].ticket = t
    BY <1>2, <1>3, <2>1 DEF CreationLogged
  <2>3. ~LogCreated(q) /\ ~Tell(q)
    BY <2>2 DEF LogCreated, Tell
  <2>4. req'[q] = req[q]
    BY <1>2, <2>2, <2>3, OthersStay
  <2> QED
    BY <2>2, <2>4
<1>4. CASE status[t] = UNBORN
  <2>1. PICK r \in Requests : InsertTicket(r) \/ CommitMove(r)
    BY <1>4, RowsChange DEF LogCreated
  <2>2. req[r].ticket = t
    BY <1>1, <1>4, <2>1 DEF InsertTicket, CommitMove
  <2>3. ~CommitMove(r)
    <3>1. SoundRequest(r)
      BY DEF IInv, RequestSound
    <3> QED
      BY <1>4, <2>2, <3>1 DEF CommitMove, SoundRequest, OldTicketPC, PC
  <2>4. req'[r].pc = "logCreated" /\ req'[r].ticket = req[r].ticket
    BY <1>1, <2>1, <2>3, GoToEffect DEF InsertTicket, PC
  <2> QED
    BY <2>2, <2>4
<1> QED
  BY <1>3, <1>4

\* A ticket without its TICKET_CREATED row is being created, or its request died
\* between its two commits, however many requests interleave.
THEOREM CreationLoggedAlways == Spec => []CreationLogged
<1>1. Init => CreationLogged
  BY DEF Init, CreationLogged
<1>2. IInv /\ CreationLogged /\ [Next]_vars => CreationLogged'
  <2>1. CASE UNCHANGED vars
    BY <2>1 DEF CreationLogged, vars, dbVars
  <2> QED
    BY <2>1, CreationStep
<1> QED
  BY <1>1, <1>2, EngineInvariant, PTL DEF Spec

Told(r) ==
  \E i \in DOMAIN audit[req[r].ticket] : audit[req[r].ticket][i].to = req[r].to

LEMMA BeginRecord ==
  ASSUME NEW r \in Requests, Begin(r)
  PROVE  \E record : Start(r, record) /\ record.pc # "tell"
<1>1. \A t, to, p : [Transition(t, to) EXCEPT !.pc = p].pc = p
  BY DEF Transition, Idle
<1>2. ASSUME NEW u, NEW s, NEW p, create_ticket(r, u, s, p)
      PROVE  \E record : Start(r, record) /\ record.pc # "tell"
  <2>1. PICK t : Start(r, [Idle EXCEPT !.pc = "checkActive", !.user = u, !.service = s,
                                       !.priority = p, !.ticket = t, !.to = "WAITING"])
    BY <1>2 DEF create_ticket
  <2>2. [Idle EXCEPT !.pc = "checkActive", !.user = u, !.service = s,
                     !.priority = p, !.ticket = t, !.to = "WAITING"].pc # "tell"
    BY DEF Idle
  <2> QED
    BY <2>1, <2>2
<1>3. ASSUME NEW s, call_next(r, s)
      PROVE  \E record : Start(r, record) /\ record.pc # "tell"
  <2>1. PICK t : Start(r, [Idle EXCEPT !.pc = "load", !.service = s, !.ticket = t])
    BY <1>3 DEF call_next
  <2>2. [Idle EXCEPT !.pc = "load", !.service = s, !.ticket = t].pc # "tell"
    BY DEF Idle
  <2> QED
    BY <2>1, <2>2
<1>4. ASSUME NEW t, NEW u, cancel_ticket(r, u, t)
      PROVE  \E record : Start(r, record) /\ record.pc # "tell"
  <2>1. Start(r, [Transition(t, "CANCELLED") EXCEPT !.pc = "dequeue"])
    BY <1>4 DEF cancel_ticket
  <2>2. [Transition(t, "CANCELLED") EXCEPT !.pc = "dequeue"].pc # "tell"
    BY <1>1
  <2> QED
    BY <2>1, <2>2
<1>5. ASSUME NEW t, NEW to, AgentMove(r, t, to)
      PROVE  \E record : Start(r, record) /\ record.pc # "tell"
  <2>1. Start(r, [Transition(t, to) EXCEPT !.pc = "commit"])
    BY <1>5 DEF AgentMove
  <2>2. [Transition(t, to) EXCEPT !.pc = "commit"].pc # "tell"
    BY <1>1
  <2> QED
    BY <2>1, <2>2
<1>6. ASSUME NEW t, return_to_queue(r, t)
      PROVE  \E record : Start(r, record) /\ record.pc # "tell"
  <2>1. Start(r, [Transition(t, "WAITING") EXCEPT !.pc = "requeue"])
    BY <1>6 DEF return_to_queue
  <2>2. [Transition(t, "WAITING") EXCEPT !.pc = "requeue"].pc # "tell"
    BY <1>1
  <2> QED
    BY <2>1, <2>2
<1> QED
  BY <1>2, <1>3, <1>4, <1>5, <1>6 DEF Begin, start_serving, complete_ticket, mark_absent

LEMMA NoticeStep ==
  ASSUME IInv, NoPhantomNotice, Next, NEW q \in Requests, req'[q].pc = "tell"
  PROVE  Told(q)'
<1>1. /\ req \in [Requests -> Request]
      /\ audit \in [Tickets -> Seq([from : TicketStatus, to : TicketStatus])]
  BY DEF IInv, TypeOK
<1>2. CASE CommitMove(q)
  <2> DEFINE t == req[q].ticket
             row == [from |-> req[q].from, to |-> req[q].to]
  <2>1. t \in Tickets /\ row \in [from : TicketStatus, to : TicketStatus]
    <3>1. SoundRequest(q) /\ req[q].pc = "commit"
      BY <1>2 DEF IInv, RequestSound, CommitMove
    <3>2. t \in Tickets /\ MayMove(req[q].from, req[q].to)
      BY <3>1 DEF SoundRequest, MovingPC
    <3> QED
      BY <3>2, MayMoveStatus
  <2>2. audit'[t] = Append(audit[t], row)
    BY <1>1, <1>2, <2>1 DEF CommitMove
  <2>3. audit[t] \in Seq([from : TicketStatus, to : TicketStatus])
    BY <1>1, <2>1
  <2>4. \E i \in DOMAIN audit'[t] : audit'[t][i] = row
    <3> HIDE DEF t, row
    <3>1. Len(audit[t]) + 1 \in DOMAIN audit'[t] /\ audit'[t][Len(audit[t]) + 1] = row
      BY <2>1, <2>2, <2>3, AppendEffect
    <3> QED
      BY <3>1
  <2>5. req'[q].ticket = t /\ req'[q].to = req[q].to
    <3>1. GoTo(q, "tell")
      BY <1>1, <1>2 DEF CommitMove, Finish, Idle
    <3> QED
      BY <1>1, <3>1, GoToEffect DEF PC
  <2> QED
    BY <2>4, <2>5 DEF Told
<1>3. CASE ~CommitMove(q)
  <2>1. req[q].pc = "tell"
    <3>1. CASE SetOpen
      BY <3>1 DEF SetOpen
    <3>2. ASSUME NEW r \in Requests, Begin(r) PROVE req[q].pc = "tell"
      <4>1. PICK record : Start(r, record) /\ record.pc # "tell"
        BY <3>2, BeginRecord
      <4>2. req' = [req EXCEPT ![r] = record]
        BY <4>1 DEF Start
      <4>3. r # q
        BY <1>1, <4>1, <4>2
      <4> QED
        BY <1>1, <4>2, <4>3
    <3>3. ASSUME NEW r \in Requests, Continue(r) \/ Fail(r) PROVE req[q].pc = "tell"
      <4>1. CASE r # q
        <5>1. req'[q] = req[q]
          BY <1>1, <3>3, <4>1
          DEF Continue, CheckActive, InsertTicket, LogCreated, EnqueueCreated, LoadHead,
              Dequeue, Requeue, CommitMove, Tell, Fail, GoTo, Finish
        <5> QED
          BY <5>1
      <4>2. CASE r = q
        <5>1. ~Finish(q)
          BY <1>1 DEF Finish, Idle
        <5>2. /\ ~GoTo(q, "insert") /\ ~GoTo(q, "logCreated")
              /\ ~GoTo(q, "enqueue") /\ ~GoTo(q, "commit")
          BY <1>1, GoToEffect DEF PC
        <5>3. CASE CheckActive(q)
          BY <5>1, <5>2, <5>3 DEF CheckActive
        <5>4. CASE InsertTicket(q) \/ LogCreated(q) \/ EnqueueCreated(q)
          BY <5>1, <5>2, <5>4 DEF InsertTicket, LogCreated, EnqueueCreated
        <5>5. CASE LoadHead(q)
          <6>1. [req[q] EXCEPT !.pc = "dequeue", !.from = status[req[q].ticket],
                               !.to = "CALLED"].pc = "dequeue"
            BY <1>1 DEF Request
          <6>2. req' = [req EXCEPT ![q] = [@ EXCEPT !.pc = "dequeue",
                          !.from = status[req[q].ticket], !.to = "CALLED"]]
            BY <5>1, <5>5 DEF LoadHead
          <6> QED
            BY <1>1, <6>1, <6>2
        <5>6. CASE Dequeue(q) \/ Requeue(q)
          BY <5>1, <5>2, <5>6 DEF Dequeue, Requeue
        <5>7. CASE Tell(q) \/ Fail(q)
          BY <5>1, <5>7 DEF Tell, Fail
        <5> QED
          BY <1>3, <3>3, <4>2, <5>3, <5>4, <5>5, <5>6, <5>7 DEF Continue
      <4> QED
        BY <4>1, <4>2
    <3> QED
      BY <3>1, <3>2, <3>3 DEF Next
  <2>2. ~LogCreated(q) /\ ~Tell(q) /\ ~Fail(q)
    BY <1>1, <2>1 DEF LogCreated, Tell, Fail, Finish, Idle
  <2>3. req'[q] = req[q]
    BY <2>1, <2>2, OthersStay
  <2> DEFINE t == req[q].ticket
  <2>4. PICK i \in DOMAIN audit[t] : audit[t][i].to = req[q].to
    BY <2>1 DEF NoPhantomNotice
  <2>5. t \in Tickets
    BY <2>1 DEF IInv, RequestSound, SoundRequest
  <2>6. i \in DOMAIN audit'[t] /\ audit'[t][i] = audit[t][i]
    <3>1. CASE UNCHANGED audit
      BY <2>4, <3>1
    <3>2. ASSUME NEW r \in Requests, CommitMove(r)
          PROVE  i \in DOMAIN audit'[t] /\ audit'[t][i] = audit[t][i]
      <4>1. CASE req[r].ticket # t
        BY <1>1, <2>4, <2>5, <3>2, <4>1 DEF CommitMove
      <4>2. CASE req[r].ticket = t
        <5> DEFINE row == [from |-> req[r].from, to |-> req[r].to]
        <5>1. row \in [from : TicketStatus, to : TicketStatus]
          <6>1. SoundRequest(r) /\ req[r].pc = "commit"
            BY <3>2 DEF IInv, RequestSound, CommitMove
          <6>2. MayMove(req[r].from, req[r].to)
            BY <6>1 DEF SoundRequest, MovingPC
          <6> QED
            BY <6>2, MayMoveStatus
        <5>2. audit'[t] = Append(audit[t], row)
          BY <1>1, <2>5, <3>2, <4>2 DEF CommitMove
        <5>3. audit[t] \in Seq([from : TicketStatus, to : TicketStatus])
          BY <1>1, <2>5
        <5> HIDE DEF t, row
        <5> QED
          BY <2>4, <5>1, <5>2, <5>3, AppendEffect
      <4> QED
        BY <4>1, <4>2
    <3> QED
      BY <3>1, <3>2, RowsChange DEF InsertTicket, LogCreated
  <2> QED
    BY <2>3, <2>4, <2>6 DEF Told
<1> QED
  BY <1>2, <1>3

\* Nobody is notified of a transition before it is committed, whichever requests
\* commit in between.
THEOREM NoPhantomNoticeAlways == Spec => []NoPhantomNotice
<1>1. Init => NoPhantomNotice
  BY DEF Init, NoPhantomNotice, Idle
<1>2. IInv /\ NoPhantomNotice /\ [Next]_vars => NoPhantomNotice'
  <2>1. CASE UNCHANGED vars
    BY <2>1 DEF NoPhantomNotice, vars, dbVars
  <2>2. CASE Next
    BY <2>2, NoticeStep DEF NoPhantomNotice, Told
  <2> QED
    BY <2>1, <2>2
<1> QED
  BY <1>1, <1>2, EngineInvariant, PTL DEF Spec

=============================================================================
