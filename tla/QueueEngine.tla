----------------------------- MODULE QueueEngine -----------------------------
(***************************************************************************)
(* The queue engine: TicketService (app/services/ticket_service.py) over   *)
(* its two stores, the tickets and queue_logs tables of PostgreSQL and one *)
(* Redis sorted set per service (app/core/redis.py).                       *)
(*                                                                         *)
(* A request is a coroutine: it keeps what it has read in its session and  *)
(* other requests run at each of its awaits.  So every handler is split at *)
(* the awaits that read or write a store, and `req' holds, per request,    *)
(* where it stands and what it read.  The two stores share no transaction: *)
(* a request that dies (Fail) loses what it has not committed to           *)
(* PostgreSQL and keeps what it wrote to Redis.  UPDATE is by primary key  *)
(* with no version column: CommitMove writes whatever the row now holds.   *)
(***************************************************************************)
EXTENDS TicketStates, Sequences, FiniteSets

CONSTANTS
  Tickets,        \* ticket ids (uuids) that may be drawn
  Users,          \* clients
  Members,        \* the clients whose org_id is the branch's organisation
  Services,       \* the services of the branch: each has a queue of its own
  Requests,       \* requests that may be in flight together
  Priorities,     \* priorities that clients ask for
  BranchStates,   \* values the branch's is_active /\ is_open may take
  ScoreUnit,      \* 1_000_000_000 in add_to_queue
  MaxEnqueues,    \* bound: no return to the queue is asked for after that many zadds
  MaxCrashes,     \* bound on requests that die
  None

ASSUME EngineAssumption ==
  /\ Members \subseteq Users
  /\ Priorities \subseteq TicketPriority
  /\ BranchStates \subseteq BOOLEAN
  /\ ScoreUnit \in Nat \ {0}
  /\ MaxEnqueues \in Nat /\ MaxCrashes \in Nat
  /\ None \notin Tickets \cup Users \cup Services

VARIABLES
  status,    \* tickets.status, UNBORN before the row exists
  owner,     \* tickets.user_id
  service,   \* tickets.service_id
  created,   \* tickets with a TICKET_CREATED row in queue_logs
  audit,     \* the other rows of queue_logs, per ticket, in commit order
  queue,     \* Redis: the members of each service's sorted set
  entry,     \* Redis: what a member's score was computed from
  now,       \* milliseconds, as seen by add_to_queue
  open,      \* branch.is_active and branch.is_open
  req,       \* the requests in flight
  crashes    \* requests that died, for the bound

dbVars == <<status, owner, service, created, audit>>
queueVars == <<queue, entry, now>>
vars == <<dbVars, queueVars, open, req, crashes>>

-----------------------------------------------------------------------------
PC == {"idle", "checkActive", "insert", "logCreated", "enqueue",
       "load", "dequeue", "requeue", "commit", "tell"}

Request == [ pc       : PC,
             user     : Users \cup {None},
             service  : Services \cup {None},
             priority : TicketPriority,
             ticket   : Tickets \cup {None},
             from     : TicketStatus \cup {UNBORN},
             to       : TicketStatus \cup {UNBORN} ]

Idle == [ pc |-> "idle", user |-> None, service |-> None,
          priority |-> "STANDARD", ticket |-> None,
          from |-> UNBORN, to |-> UNBORN ]

NoEntry == [priority |-> "STANDARD", at |-> 0]

TypeOK ==
  /\ status \in [Tickets -> TicketStatus \cup {UNBORN}]
  /\ owner \in [Tickets -> Users \cup {None}]
  /\ service \in [Tickets -> Services \cup {None}]
  /\ created \in SUBSET Tickets
  /\ audit \in [Tickets -> Seq([from : TicketStatus, to : TicketStatus])]
  /\ queue \in [Services -> SUBSET Tickets]
  /\ entry \in [Tickets -> [priority : TicketPriority, at : Nat]]
  /\ now \in Nat
  /\ open \in BOOLEAN
  /\ req \in [Requests -> Request]
  /\ crashes \in Nat

Init ==
  /\ status = [t \in Tickets |-> UNBORN]
  /\ owner = [t \in Tickets |-> None]
  /\ service = [t \in Tickets |-> None]
  /\ created = {}
  /\ audit = [t \in Tickets |-> <<>>]
  /\ queue = [s \in Services |-> {}]
  /\ entry = [t \in Tickets |-> NoEntry]
  /\ now = 0
  /\ open = TRUE
  /\ req = [r \in Requests |-> Idle]
  /\ crashes = 0

-----------------------------------------------------------------------------
(* Redis: the sorted set of a service.                                     *)

\* Mutant: the priority is added, not subtracted.
ScoreReversed(t) == PRIORITY_SCORES[entry[t].priority] * ScoreUnit + entry[t].at

\* add_to_queue's score; zrange reads the set by ascending score.
Score(t) == (10 - PRIORITY_SCORES[entry[t].priority]) * ScoreUnit + entry[t].at

\* zrange(key, 0, 0): the member called next.
Heads(s) == {t \in queue[s] : \A u \in queue[s] : Score(t) <= Score(u)}

\* zadd: a new member, or a new score for a member.  Two calls never fall in
\* the same millisecond here, so no two members have equal arrival times.
AddToQueue(s, t, p) ==
  /\ now' = now + 1
  /\ entry' = [entry EXCEPT ![t] = [priority |-> p, at |-> now + 1]]
  /\ queue' = [queue EXCEPT ![s] = @ \cup {t}]

\* Mutant: zrem of another key.
RemoveFromQueueMissed(s, t) == UNCHANGED queueVars

\* zrem: the score goes with the member.
RemoveFromQueue(s, t) ==
  /\ queue' = [queue EXCEPT ![s] = @ \ {t}]
  /\ entry' = [entry EXCEPT ![t] = NoEntry]
  /\ UNCHANGED now

-----------------------------------------------------------------------------
(* Requests.                                                               *)

Free(r) == req[r].pc = "idle"

Start(r, record) == Free(r) /\ req' = [req EXCEPT ![r] = record]

GoTo(r, pc) == req' = [req EXCEPT ![r].pc = pc]

Finish(r) == req' = [req EXCEPT ![r] = Idle]

\* A uuid that no row and no request in flight has.
FreshTickets == {t \in Tickets : status[t] = UNBORN /\ \A r \in Requests : req[r].ticket # t}

\* Mutant: from_status is read after ticket.status has been assigned.
TransitionLoggedLate(t, to) ==
  [Idle EXCEPT !.ticket = t, !.service = service[t], !.from = to, !.to = to]

\* _transition on the row as the request has just read it.
Transition(t, to) ==
  [Idle EXCEPT !.ticket = t, !.service = service[t], !.from = status[t], !.to = to]

(***************************************************************************)
(* create_ticket: branch and service are read and checked; then the active *)
(* ticket is looked up; the row is inserted and committed; its log row is  *)
(* committed; only then does the ticket enter the queue.  The number, the  *)
(* position and the ETA it returns are left to other modules.              *)
(***************************************************************************)
create_ticket(r, u, s, p) ==
  /\ open
  /\ \E t \in FreshTickets :
       Start(r, [Idle EXCEPT !.pc = "checkActive", !.user = u, !.service = s,
                             !.priority = p, !.ticket = t, !.to = "WAITING"])
  /\ UNCHANGED <<dbVars, queueVars, open, crashes>>

\* Mutant: an absent client's ticket is not counted as active.
HasActiveTicketButAbsent(u) ==
  \E t \in Tickets : owner[t] = u /\ status[t] \in {"WAITING", "CALLED", "SERVING"}

HasActiveTicket(u) == \E t \in Tickets : owner[t] = u /\ status[t] \in ACTIVE_STATUSES

\* Mutant: the 409 is not raised.
CheckActiveSkipped(r) ==
  /\ req[r].pc = "checkActive"
  /\ GoTo(r, "insert")
  /\ UNCHANGED <<dbVars, queueVars, open, crashes>>

\* _get_active_ticket: 409 (or 500, when it finds several) ends the request.
CheckActive(r) ==
  /\ req[r].pc = "checkActive"
  /\ IF HasActiveTicket(req[r].user) THEN Finish(r) ELSE GoTo(r, "insert")
  /\ UNCHANGED <<dbVars, queueVars, open, crashes>>

\* Mutant: zadd comes before the commit of the row.
InsertTicketQueued(r) ==
  /\ req[r].pc = "insert"
  /\ AddToQueue(req[r].service, req[r].ticket, req[r].priority)
  /\ GoTo(r, "logCreated")
  /\ UNCHANGED <<dbVars, open, crashes>>

\* Mutant: the log row is never written.
InsertTicketUnlogged(r) ==
  LET t == req[r].ticket IN
  /\ req[r].pc = "insert"
  /\ status' = [status EXCEPT ![t] = "WAITING"]
  /\ owner' = [owner EXCEPT ![t] = req[r].user]
  /\ service' = [service EXCEPT ![t] = req[r].service]
  /\ GoTo(r, "enqueue")
  /\ UNCHANGED <<created, audit, queueVars, open, crashes>>

InsertTicket(r) ==
  LET t == req[r].ticket IN
  /\ req[r].pc = "insert"
  /\ status' = [status EXCEPT ![t] = "WAITING"]
  /\ owner' = [owner EXCEPT ![t] = req[r].user]
  /\ service' = [service EXCEPT ![t] = req[r].service]
  /\ GoTo(r, "logCreated")
  /\ UNCHANGED <<created, audit, queueVars, open, crashes>>

LogCreated(r) ==
  /\ req[r].pc = "logCreated"
  /\ created' = created \cup {req[r].ticket}
  /\ GoTo(r, "enqueue")
  /\ UNCHANGED <<status, owner, service, audit, queueVars, open, crashes>>

EnqueueCreated(r) ==
  /\ req[r].pc = "enqueue"
  /\ AddToQueue(req[r].service, req[r].ticket, req[r].priority)
  /\ Finish(r)
  /\ UNCHANGED <<dbVars, open, crashes>>

(***************************************************************************)
(* call_next: the head of the queue is read, not removed; its row is read  *)
(* and checked (400 otherwise); it leaves the queue; the row is committed. *)
(***************************************************************************)
call_next(r, s) ==
  /\ \E t \in Heads(s) : Start(r, [Idle EXCEPT !.pc = "load", !.service = s, !.ticket = t])
  /\ UNCHANGED <<dbVars, queueVars, open, crashes>>

\* Mutant: the status of the head is not checked.
LoadHeadUnchecked(r) ==
  LET t == req[r].ticket IN
  /\ req[r].pc = "load"
  /\ req' = [req EXCEPT ![r] = [@ EXCEPT !.pc = "dequeue",
                                          !.from = status[t], !.to = "CALLED"]]
  /\ UNCHANGED <<dbVars, queueVars, open, crashes>>

LoadHead(r) ==
  LET t == req[r].ticket IN
  /\ req[r].pc = "load"
  /\ IF MayMove(status[t], "CALLED")
       THEN req' = [req EXCEPT ![r] = [@ EXCEPT !.pc = "dequeue",
                                                !.from = status[t], !.to = "CALLED"]]
       ELSE Finish(r)
  /\ UNCHANGED <<dbVars, queueVars, open, crashes>>

\* Mutant: the client is notified before the commit.
DequeueThenTell(r) ==
  /\ req[r].pc = "dequeue"
  /\ RemoveFromQueue(req[r].service, req[r].ticket)
  /\ GoTo(r, IF req[r].to = "CALLED" THEN "tell" ELSE "commit")
  /\ UNCHANGED <<dbVars, open, crashes>>

\* remove_from_queue, of call_next and of cancel_ticket.
Dequeue(r) ==
  /\ req[r].pc = "dequeue"
  /\ RemoveFromQueue(req[r].service, req[r].ticket)
  /\ GoTo(r, "commit")
  /\ UNCHANGED <<dbVars, open, crashes>>

\* Mutant: a cancelled ticket stays in the queue.
cancel_ticket_queued(r, u, t) ==
  /\ u \in Members /\ owner[t] = u
  /\ MayMove(status[t], "CANCELLED")
  /\ Start(r, [Transition(t, "CANCELLED") EXCEPT !.pc = "commit"])
  /\ UNCHANGED <<dbVars, queueVars, open, crashes>>

\* cancel_ticket: 404 unless the client's org_id is the ticket's, 403 unless
\* the ticket is theirs, 400 unless it is WAITING.
cancel_ticket(r, u, t) ==
  /\ u \in Members /\ owner[t] = u
  /\ MayMove(status[t], "CANCELLED")
  /\ Start(r, [Transition(t, "CANCELLED") EXCEPT !.pc = "dequeue"])
  /\ UNCHANGED <<dbVars, queueVars, open, crashes>>

\* Mutant: ALLOWED_TRANSITIONS is not consulted.
AgentMoveUnchecked(r, t, to) ==
  /\ Start(r, [Transition(t, to) EXCEPT !.pc = "commit"])
  /\ UNCHANGED <<dbVars, queueVars, open, crashes>>

\* start_serving, complete_ticket, mark_absent: read, check, commit.
AgentMove(r, t, to) ==
  /\ MayMove(status[t], to)
  /\ Start(r, [Transition(t, to) EXCEPT !.pc = "commit"])
  /\ UNCHANGED <<dbVars, queueVars, open, crashes>>

start_serving(r, t) == AgentMove(r, t, "SERVING")
complete_ticket(r, t) == AgentMove(r, t, "DONE")
mark_absent(r, t) == AgentMove(r, t, "ABSENT")

\* Mutant: the ticket is WAITING again and in no queue.
return_to_queue_unqueued(r, t) ==
  /\ MayMove(status[t], "WAITING")
  /\ now < MaxEnqueues
  /\ Start(r, [Transition(t, "WAITING") EXCEPT !.pc = "commit"])
  /\ UNCHANGED <<dbVars, queueVars, open, crashes>>

\* return_to_queue: any user of the organisation may ask.  The ticket enters
\* the queue, with STANDARD priority, before its row is committed.
return_to_queue(r, t) ==
  /\ MayMove(status[t], "WAITING")
  /\ now < MaxEnqueues
  /\ Start(r, [Transition(t, "WAITING") EXCEPT !.pc = "requeue"])
  /\ UNCHANGED <<dbVars, queueVars, open, crashes>>

Requeue(r) ==
  /\ req[r].pc = "requeue"
  /\ AddToQueue(req[r].service, req[r].ticket, "STANDARD")
  /\ GoTo(r, "commit")
  /\ UNCHANGED <<dbVars, open, crashes>>

\* Mutant: the log row is left out of the transaction.
CommitMoveUnlogged(r) ==
  LET t == req[r].ticket  to == req[r].to IN
  /\ req[r].pc = "commit"
  /\ status' = [status EXCEPT ![t] = to]
  /\ IF to \in {"CALLED", "DONE"} THEN GoTo(r, "tell") ELSE Finish(r)
  /\ UNCHANGED <<audit, owner, service, created, queueVars, open, crashes>>

\* The commit that ends a transition: UPDATE tickets ... WHERE id = t and the
\* queue_logs row _transition prepared, in one transaction.
CommitMove(r) ==
  LET t == req[r].ticket  to == req[r].to IN
  /\ req[r].pc = "commit"
  /\ status' = [status EXCEPT ![t] = to]
  /\ audit' = [audit EXCEPT ![t] = Append(@, [from |-> req[r].from, to |-> to])]
  /\ IF to \in {"CALLED", "DONE"} THEN GoTo(r, "tell") ELSE Finish(r)
  /\ UNCHANGED <<owner, service, created, queueVars, open, crashes>>

\* notify_ticket_called, notify_ticket_done and the events call_next publishes
\* go out; a notification that fails is swallowed.  The inbox of the client is
\* outside this module: what matters here is when a request gets to tell.
Tell(r) ==
  /\ req[r].pc = "tell"
  /\ Finish(r)
  /\ UNCHANGED <<dbVars, queueVars, open, crashes>>

\* The worker stops, or Redis or PostgreSQL raises: get_db rolls back.
Fail(r) ==
  /\ ~Free(r)
  /\ crashes < MaxCrashes
  /\ crashes' = crashes + 1
  /\ Finish(r)
  /\ UNCHANGED <<dbVars, queueVars, open>>

\* PATCH on the branch, by an administrator.
SetOpen ==
  /\ open' \in BranchStates \ {open}
  /\ UNCHANGED <<dbVars, queueVars, req, crashes>>

-----------------------------------------------------------------------------
Begin(r) ==
  \/ \E u \in Users, s \in Services, p \in Priorities : create_ticket(r, u, s, p)
  \/ \E s \in Services : call_next(r, s)
  \/ \E t \in Tickets :
       \/ \E u \in Users : cancel_ticket(r, u, t)
       \/ start_serving(r, t)
       \/ complete_ticket(r, t)
       \/ mark_absent(r, t)
       \/ return_to_queue(r, t)

Continue(r) ==
  \/ CheckActive(r) \/ InsertTicket(r) \/ LogCreated(r) \/ EnqueueCreated(r)
  \/ LoadHead(r) \/ Dequeue(r) \/ Requeue(r) \/ CommitMove(r) \/ Tell(r)

Next == SetOpen \/ \E r \in Requests : Begin(r) \/ Continue(r) \/ Fail(r)

Spec == Init /\ [][Next]_vars

-----------------------------------------------------------------------------
(* What holds however requests interleave and wherever they die.           *)

\* Redis never names a ticket PostgreSQL does not have, nor one of another
\* service: the row is committed before zadd and keeps its service.  So the 404
\* of _get_ticket_by_id never ends a call_next.
QueueSound ==
  \A s \in Services : \A t \in queue[s] : status[t] # UNBORN /\ service[t] = s

\* queue_logs tells the truth of the tickets table: the last row's to_status is
\* the ticket's status, whatever stale write put it there, and every row is a
\* transition that _transition allowed.
AuditTruthful ==
  \A t \in Tickets :
    /\ \A i \in DOMAIN audit[t] : MayMove(audit[t][i].from, audit[t][i].to)
    /\ audit[t] = <<>> => status[t] \in {UNBORN, "WAITING"}
    /\ audit[t] # <<>> => status[t] = audit[t][Len(audit[t])].to

\* A ticket without its TICKET_CREATED row is one whose creation is still
\* running, or died between its first two commits.
CreationLogged ==
  \A t \in Tickets :
    status[t] # UNBORN /\ t \notin created =>
      crashes > 0 \/ \E r \in Requests : req[r].pc = "logCreated" /\ req[r].ticket = t

\* Nobody is told of a call or of an end of service that was not committed.
NoPhantomNotice ==
  \A r \in Requests : req[r].pc = "tell" =>
    \E i \in DOMAIN audit[req[r].ticket] : audit[req[r].ticket][i].to = req[r].to

-----------------------------------------------------------------------------
(* What requests that do not overlap preserve.  Nothing in the code keeps  *)
(* two requests from working on one ticket, or one user from creating two  *)
(* tickets at once: the disciplined specification assumes it, and says     *)
(* what the engine then guarantees.  Requests on different tickets still   *)
(* interleave freely.                                                      *)

Holds(r) == IF req[r].pc = "tell" THEN None ELSE req[r].ticket

Creating(r) == req[r].pc \in {"checkActive", "insert", "logCreated", "enqueue"}

Discipline ==
  \A r1, r2 \in Requests : r1 # r2 =>
    /\ Holds(r1) # None => Holds(r1) # Holds(r2)
    /\ Creating(r1) /\ Creating(r2) => req[r1].user # req[r2].user

DisciplinedNext == Next /\ Discipline'

DisciplinedSpec == Init /\ [][DisciplinedNext]_vars

Lifecycle == INSTANCE TicketLifecycle WITH status <- status, owner <- owner

\* The engine implements the lifecycle it promises.
ImplementsLifecycle == Lifecycle!Spec

\* "Toute transition absente de ce dict est INTERDITE" (app/models/ticket.py):
\* of the committed status, not only of the one a request has read.
OnlyAllowedTransitions ==
  [][\A t \in Tickets : status'[t] # status[t] =>
       \/ status[t] = UNBORN /\ status'[t] = "WAITING"
       \/ MayMove(status[t], status'[t])]_vars

\* DECISION 1: one active ticket per user over the whole platform.
OneActivePerUser == Lifecycle!OneActivePerUser

\* The rows of a ticket follow on: each starts at the status the previous one
\* ended at, the first at WAITING.  get_agency_summary and the others read them so.
AuditChain ==
  \A t \in Tickets : \A i \in DOMAIN audit[t] :
    audit[t][i].from = IF i = 1 THEN "WAITING" ELSE audit[t][i - 1].to

InQueue(t) == \E s \in Services : t \in queue[s]

Busy(t) == \E r \in Requests : Holds(r) = t

\* "WAITING: en attente dans la file" (app/models/ticket.py): a ticket no
\* request is working on is WAITING exactly when it is in its queue.
WaitingIsQueued ==
  \A t \in Tickets : ~Busy(t) => (status[t] = "WAITING" <=> InQueue(t))

\* The same, unless a request died.
WaitingIsQueuedUnlessCrash == crashes = 0 => WaitingIsQueued

\* Whatever dies, the queue holds no ticket that has been called, cancelled or
\* served: at worst an ABSENT one whose return died before its commit.
NoServedTicketInQueue ==
  \A t \in Tickets : InQueue(t) => status[t] \in {"WAITING", "ABSENT"}

\* FIFO: the head is chosen an await before its row is read and two before it
\* leaves the queue; until then no queued ticket of the service has waited longer
\* with a priority at least as high, whatever else was queued meanwhile.
Outranks(u, t) ==
  /\ entry[u].at < entry[t].at
  /\ PRIORITY_SCORES[entry[u].priority] >= PRIORITY_SCORES[entry[t].priority]

Calling(r) ==
  \/ req[r].pc = "load"
  \/ req[r].pc = "dequeue" /\ req[r].to = "CALLED"

NoOvertaking ==
  \A r \in Requests : Calling(r) =>
    /\ req[r].ticket \in queue[req[r].service]
    /\ \A u \in queue[req[r].service] : ~Outranks(u, req[r].ticket)

-----------------------------------------------------------------------------
(* Progress.  A started coroutine is resumed (weak fairness of its steps);  *)
(* a service's agents keep calling as long as its queue is not empty       *)
(* (strong fairness: the slots are shared with other requests).  Clients   *)
(* need do nothing, and agents need not finish a service they started.     *)

Fairness ==
  /\ \A r \in Requests : WF_vars(Continue(r) /\ Discipline')
  /\ \A s \in Services : SF_vars((\E r \in Requests : call_next(r, s)) /\ Discipline')

FairDisciplinedSpec == DisciplinedSpec /\ Fairness

\* The same scheduling without the discipline.
FairSpec ==
  /\ Spec
  /\ \A r \in Requests : WF_vars(Continue(r))
  /\ \A s \in Services : SF_vars(\E r \in Requests : call_next(r, s))

\* A ticket that waits is eventually called, or cancelled by its owner.
WaitingIsServed ==
  \A t \in Tickets : status[t] = "WAITING" ~> status[t] # "WAITING"

=============================================================================
