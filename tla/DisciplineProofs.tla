--------------------------- MODULE DisciplineProofs ---------------------------
(***************************************************************************)
(* What is proved of the disciplined queue engine, for every value of the  *)
(* constants: when no two requests in flight work on one ticket and no     *)
(* user creates two tickets at once, what a request has read is still true *)
(* when it commits.  So the engine implements TicketLifecycle, moves       *)
(* tickets only along ALLOWED_TRANSITIONS and keeps DECISION 1.            *)
(***************************************************************************)
EXTENDS QueueEngineProofs

\* What a request has checked still holds when it writes.
FreshRequest(r) ==
  /\ req[r].pc = "insert" => ~HasActiveTicket(req[r].user)
  /\ req[r].pc \in MovingPC => status[req[r].ticket] = req[r].from

DInv == IInv /\ Discipline /\ \A r \in Requests : FreshRequest(r)

-----------------------------------------------------------------------------
(* The steps that write neither status nor owner.                          *)

Quiet(r) ==
  /\ UNCHANGED <<status, owner, audit>>
  /\ \A q \in Requests \ {r} : req'[q] = req[q]

LEMMA QuietStart ==
  ASSUME IInv, NEW r \in Requests, NEW record \in Request, Start(r, record),
         UNCHANGED dbVars,
         record.pc # "insert",
         record.pc \in MovingPC => status[record.ticket] = record.from
  PROVE  Quiet(r) /\ FreshRequest(r)'
<1>1. req \in [Requests -> Request]
  BY DEF IInv, TypeOK
<1>2. /\ req'[r] = record
      /\ \A q \in Requests \ {r} : req'[q] = req[q]
  BY <1>1, StartEffect
<1> QED
  BY <1>2 DEF Quiet, FreshRequest, dbVars

LEMMA QuietFinish ==
  ASSUME IInv, NEW r \in Requests, Finish(r), UNCHANGED dbVars
  PROVE  Quiet(r) /\ FreshRequest(r)'
<1>1. req \in [Requests -> Request]
  BY DEF IInv, TypeOK
<1>2. /\ req'[r] = Idle
      /\ \A q \in Requests \ {r} : req'[q] = req[q]
  BY <1>1, FinishEffect
<1> QED
  BY <1>2 DEF Quiet, FreshRequest, dbVars, Idle, MovingPC

LEMMA QuietTransition ==
  ASSUME IInv, NEW r \in Requests, NEW t \in Tickets, NEW to, NEW pc \in MovingPC,
         MayMove(status[t], to), Start(r, [Transition(t, to) EXCEPT !.pc = pc]),
         UNCHANGED dbVars
  PROVE  Quiet(r) /\ FreshRequest(r)'
<1> DEFINE record == [Transition(t, to) EXCEPT !.pc = pc]
<1>1. status[t] \in TicketStatus /\ to \in TicketStatus
  BY MayMoveStatus
<1>2. service[t] \in Services
  BY <1>1, UnbornIsNoStatus DEF IInv, RowSound
<1>3. record \in Request
  BY <1>1, <1>2 DEF Transition, Idle, Request, PC, MovingPC, TicketPriority
<1>4. record.pc = pc /\ record.ticket = t /\ record.from = status[t] /\ pc # "insert"
  BY DEF Transition, Idle, MovingPC
<1> QED
  BY <1>3, <1>4, QuietStart

LEMMA QuietGoTo ==
  ASSUME IInv, NEW r \in Requests, NEW pc \in PC \ {"insert"}, GoTo(r, pc),
         pc \in MovingPC => FreshRequest(r) /\ req[r].pc \in MovingPC,
         UNCHANGED <<status, owner, audit>>
  PROVE  Quiet(r) /\ FreshRequest(r)'
<1>1. req \in [Requests -> Request]
  BY DEF IInv, TypeOK
<1>2. /\ req'[r].pc = pc
      /\ req'[r].ticket = req[r].ticket
      /\ req'[r].from = req[r].from
      /\ \A q \in Requests \ {r} : req'[q] = req[q]
  BY <1>1, GoToEffect
<1> QED
  BY <1>2 DEF Quiet, FreshRequest

LEMMA QuietBegin ==
  ASSUME IInv, NEW r \in Requests, Begin(r)
  PROVE  Quiet(r) /\ FreshRequest(r)'
<1>1. ASSUME NEW u \in Users, NEW s \in Services, NEW p \in Priorities, create_ticket(r, u, s, p)
      PROVE  Quiet(r) /\ FreshRequest(r)'
  <2> PICK t \in FreshTickets :
        Start(r, [Idle EXCEPT !.pc = "checkActive", !.user = u, !.service = s,
                              !.priority = p, !.ticket = t, !.to = "WAITING"])
    BY <1>1 DEF create_ticket
  <2> DEFINE record == [Idle EXCEPT !.pc = "checkActive", !.user = u, !.service = s,
                                    !.priority = p, !.ticket = t, !.to = "WAITING"]
  <2>1. record \in Request
    BY EngineAssumption DEF Idle, Request, PC, FreshTickets, TicketStatus
  <2>2. record.pc = "checkActive"
    BY DEF Idle
  <2>3. UNCHANGED dbVars
    BY <1>1 DEF create_ticket
  <2> QED
    BY <2>1, <2>2, <2>3, QuietStart DEF MovingPC
<1>2. ASSUME NEW s \in Services, call_next(r, s)
      PROVE  Quiet(r) /\ FreshRequest(r)'
  <2> PICK t \in Heads(s) : Start(r, [Idle EXCEPT !.pc = "load", !.service = s, !.ticket = t])
    BY <1>2 DEF call_next
  <2> DEFINE record == [Idle EXCEPT !.pc = "load", !.service = s, !.ticket = t]
  <2>1. t \in Tickets
    BY DEF Heads, IInv, TypeOK
  <2>2. record \in Request
    BY <2>1 DEF Idle, Request, PC, TicketPriority
  <2>3. record.pc = "load"
    BY DEF Idle
  <2>4. UNCHANGED dbVars
    BY <1>2 DEF call_next
  <2> QED
    BY <2>2, <2>3, <2>4, QuietStart DEF MovingPC
<1>3. ASSUME NEW t \in Tickets, NEW u \in Users, cancel_ticket(r, u, t)
      PROVE  Quiet(r) /\ FreshRequest(r)'
  <2>1. "dequeue" \in MovingPC
    BY DEF MovingPC
  <2> QED
    BY <1>3, <2>1, QuietTransition DEF cancel_ticket
<1>4. ASSUME NEW t \in Tickets, NEW to, AgentMove(r, t, to)
      PROVE  Quiet(r) /\ FreshRequest(r)'
  <2>1. "commit" \in MovingPC
    BY DEF MovingPC
  <2> QED
    BY <1>4, <2>1, QuietTransition DEF AgentMove
<1>5. ASSUME NEW t \in Tickets, return_to_queue(r, t)
      PROVE  Quiet(r) /\ FreshRequest(r)'
  <2>1. "requeue" \in MovingPC
    BY DEF MovingPC
  <2> QED
    BY <1>5, <2>1, QuietTransition DEF return_to_queue
<1> QED
  BY <1>1, <1>2, <1>3, <1>4, <1>5 DEF Begin, start_serving, complete_ticket, mark_absent

Writes(r) == InsertTicket(r) \/ CommitMove(r)

LEMMA QuietContinue ==
  ASSUME DInv, NEW r \in Requests, Continue(r), ~Writes(r)
  PROVE  Quiet(r) /\ FreshRequest(r)'
<1>1. IInv /\ FreshRequest(r) /\ req \in [Requests -> Request]
  BY DEF DInv, IInv, TypeOK
<1>2. CASE CheckActive(r)
  <2>1. CASE Finish(r)
    BY <1>1, <1>2, <2>1, QuietFinish DEF CheckActive
  <2>2. CASE ~HasActiveTicket(req[r].user) /\ GoTo(r, "insert")
    <3>1. "insert" \in PC
      BY DEF PC
    <3>2. /\ req'[r].pc = "insert"
          /\ req'[r].user = req[r].user
          /\ \A q \in Requests \ {r} : req'[q] = req[q]
      BY <1>1, <2>2, <3>1, GoToEffect
    <3>3. UNCHANGED <<status, owner, audit>>
      BY <1>2 DEF CheckActive, dbVars
    <3> QED
      BY <2>2, <3>2, <3>3 DEF Quiet, FreshRequest, HasActiveTicket, MovingPC
  <2> QED
    BY <1>2, <2>1, <2>2 DEF CheckActive
<1>3. CASE LogCreated(r)
  <2>1. "enqueue" \in PC \ {"insert"} /\ "enqueue" \notin MovingPC
    BY DEF PC, MovingPC
  <2> QED
    BY <1>1, <1>3, <2>1, QuietGoTo DEF LogCreated
<1>4. CASE EnqueueCreated(r) \/ Tell(r)
  BY <1>1, <1>4, QuietFinish DEF EnqueueCreated, Tell
<1>5. CASE LoadHead(r)
  <2>1. CASE Finish(r)
    BY <1>1, <1>5, <2>1, QuietFinish DEF LoadHead
  <2>2. CASE req' = [req EXCEPT ![r] = [@ EXCEPT !.pc = "dequeue",
                                                 !.from = status[req[r].ticket],
                                                 !.to = "CALLED"]]
    <3>1. req[r] \in Request
      BY <1>1
    <3>2. /\ req'[r].pc = "dequeue"
          /\ req'[r].ticket = req[r].ticket
          /\ req'[r].from = status[req[r].ticket]
          /\ \A q \in Requests \ {r} : req'[q] = req[q]
      BY <1>1, <2>2, <3>1 DEF Request
    <3>3. UNCHANGED <<status, owner, audit>>
      BY <1>5 DEF LoadHead, dbVars
    <3> QED
      BY <3>2, <3>3 DEF Quiet, FreshRequest
  <2> QED
    BY <1>5, <2>1, <2>2 DEF LoadHead
<1>6. CASE Dequeue(r) \/ Requeue(r)
  <2>1. "commit" \in PC \ {"insert"}
    BY DEF PC
  <2>2. req[r].pc \in MovingPC /\ GoTo(r, "commit") /\ UNCHANGED <<status, owner, audit>>
    BY <1>6 DEF Dequeue, Requeue, MovingPC, dbVars
  <2> QED
    BY <1>1, <2>1, <2>2, QuietGoTo
<1> QED
  BY <1>2, <1>3, <1>4, <1>5, <1>6 DEF Continue, Writes

LEMMA QuietKeepsFresh ==
  ASSUME DInv, NEW r \in Requests, Quiet(r), FreshRequest(r)'
  PROVE  \A q \in Requests : FreshRequest(q)'
<1> SUFFICES ASSUME NEW q \in Requests \ {r} PROVE FreshRequest(q)'
  OBVIOUS
<1>1. FreshRequest(q) /\ req'[q] = req[q] /\ UNCHANGED <<status, owner>>
  BY DEF DInv, Quiet
<1> QED
  BY <1>1 DEF FreshRequest, HasActiveTicket

-----------------------------------------------------------------------------
(* The two steps that write a row are the two steps of the lifecycle.      *)

\* The instance carries a copy of the vocabulary.
LEMMA SameVocabulary ==
  /\ Lifecycle!UNBORN = UNBORN
  /\ Lifecycle!TicketStatus = TicketStatus
  /\ Lifecycle!ACTIVE_STATUSES = ACTIVE_STATUSES
  /\ Lifecycle!ALLOWED_TRANSITIONS = ALLOWED_TRANSITIONS
BY DEF Lifecycle!UNBORN, UNBORN, Lifecycle!TicketStatus, TicketStatus,
       Lifecycle!ACTIVE_STATUSES, ACTIVE_STATUSES,
       Lifecycle!ALLOWED_TRANSITIONS, ALLOWED_TRANSITIONS

LEMMA InsertTakes ==
  ASSUME DInv, NEW r \in Requests, InsertTicket(r)
  PROVE  /\ req[r].ticket \in Tickets /\ req[r].user \in Users
         /\ Lifecycle!Take(req[r].ticket, req[r].user)
         /\ audit' = audit
         /\ \A q \in Requests : FreshRequest(q)'
<1> DEFINE t == req[r].ticket
<1>1. IInv /\ Discipline /\ req \in [Requests -> Request] /\ SoundRequest(r) /\ FreshRequest(r)
  BY DEF DInv, IInv, TypeOK, RequestSound
<1>2. /\ req[r].pc = "insert"
      /\ status' = [status EXCEPT ![t] = "WAITING"]
      /\ owner' = [owner EXCEPT ![t] = req[r].user]
      /\ audit' = audit
      /\ GoTo(r, "logCreated")
  BY DEF InsertTicket
<1>3. t \in Tickets /\ req[r].user \in Users /\ status[t] = UNBORN
  BY <1>1, <1>2 DEF SoundRequest, NewTicketPC
<1>4. ~HasActiveTicket(req[r].user)
  BY <1>1, <1>2 DEF FreshRequest
<1>5. Lifecycle!Take(t, req[r].user)
  BY <1>2, <1>3, <1>4, SameVocabulary DEF Lifecycle!Take, Lifecycle!HasActive, HasActiveTicket
<1>6. /\ status'[t] = "WAITING" /\ owner'[t] = req[r].user
      /\ \A v \in Tickets \ {t} : status'[v] = status[v] /\ owner'[v] = owner[v]
  BY <1>1, <1>2, <1>3 DEF IInv, TypeOK
<1>7. /\ req'[r].pc = "logCreated"
      /\ \A q \in Requests \ {r} : req'[q] = req[q]
  <2>1. "logCreated" \in PC
    BY DEF PC
  <2> QED
    BY <1>1, <1>2, <2>1, GoToEffect
<1>8. ASSUME NEW q \in Requests PROVE FreshRequest(q)'
  <2>1. CASE q = r
    BY <1>7, <2>1 DEF FreshRequest, MovingPC
  <2>2. CASE q # r
    <3>1. FreshRequest(q) /\ SoundRequest(q) /\ req'[q] = req[q]
      BY <1>1, <1>7, <2>2 DEF DInv, IInv, RequestSound
    <3>2. CASE req[q].pc = "insert"
      <4>1. req[q].user # req[r].user
        BY <1>1, <1>2, <2>2, <3>2 DEF Discipline, Creating
      <4>2. ~HasActiveTicket(req[q].user)
        BY <3>1, <3>2 DEF FreshRequest
      <4>3. ~HasActiveTicket(req[q].user)'
        BY <1>6, <3>1, <4>1, <4>2 DEF HasActiveTicket
      <4> QED
        BY <3>1, <3>2, <4>3 DEF FreshRequest, MovingPC
    <3>3. CASE req[q].pc \in MovingPC
      <4>1. req[q].ticket \in Tickets \ {t}
        BY <1>3, <3>1, <3>3 DEF SoundRequest, MovingPC, OldTicketPC, PC
      <4> QED
        BY <1>6, <3>1, <3>3, <4>1 DEF FreshRequest, MovingPC
    <3>4. CASE req[q].pc # "insert" /\ req[q].pc \notin MovingPC
      BY <3>1, <3>4 DEF FreshRequest
    <3> QED
      BY <3>2, <3>3, <3>4
  <2> QED
    BY <2>1, <2>2
<1> QED
  BY <1>2, <1>3, <1>5, <1>8

LEMMA CommitMoves ==
  ASSUME DInv, NEW r \in Requests, CommitMove(r)
  PROVE  /\ req[r].ticket \in Tickets /\ req[r].to \in TicketStatus
         /\ status[req[r].ticket] = req[r].from
         /\ Lifecycle!Move(req[r].ticket, req[r].to)
         /\ \A q \in Requests : FreshRequest(q)'
<1> DEFINE t == req[r].ticket
           to == req[r].to
<1>1. IInv /\ Discipline /\ req \in [Requests -> Request] /\ SoundRequest(r) /\ FreshRequest(r)
  BY DEF DInv, IInv, TypeOK, RequestSound
<1>2. /\ req[r].pc = "commit"
      /\ status' = [status EXCEPT ![t] = to]
      /\ owner' = owner
      /\ Finish(r) \/ GoTo(r, "tell")
  BY DEF CommitMove
<1>3. t \in Tickets /\ MayMove(req[r].from, to)
  BY <1>1, <1>2 DEF SoundRequest, MovingPC
<1>4. status[t] = req[r].from
  BY <1>1, <1>2 DEF FreshRequest, MovingPC
<1>5. to \in TicketStatus
  BY <1>3, MayMoveStatus
<1>6. Lifecycle!Move(t, to)
  BY <1>2, <1>3, <1>4, SameVocabulary DEF Lifecycle!Move, Lifecycle!MayMove, MayMove
<1>7. /\ status'[t] = to
      /\ \A v \in Tickets \ {t} : status'[v] = status[v]
  BY <1>1, <1>2, <1>3 DEF IInv, TypeOK
<1>8. /\ req'[r].pc = "idle" \/ req'[r].pc = "tell"
      /\ \A q \in Requests \ {r} : req'[q] = req[q]
  <2>1. CASE Finish(r)
    BY <1>1, <2>1, FinishEffect DEF Idle
  <2>2. CASE GoTo(r, "tell")
    <3>1. "tell" \in PC
      BY DEF PC
    <3> QED
      BY <1>1, <2>2, <3>1, GoToEffect
  <2> QED
    BY <1>2, <2>1, <2>2
<1>9. ASSUME NEW q \in Requests PROVE FreshRequest(q)'
  <2>1. CASE q = r
    BY <1>8, <2>1 DEF FreshRequest, MovingPC
  <2>2. CASE q # r
    <3>1. FreshRequest(q) /\ SoundRequest(q) /\ req'[q] = req[q]
      BY <1>1, <1>8, <2>2 DEF DInv, IInv, RequestSound
    <3>2. CASE req[q].pc = "insert"
      <4>1. ~HasActiveTicket(req[q].user)
        BY <3>1, <3>2 DEF FreshRequest
      <4>2. to \in ACTIVE_STATUSES => status[t] \in ACTIVE_STATUSES
        BY <1>3, <1>4, MayMoveActive
      <4>3. ~HasActiveTicket(req[q].user)'
        BY <1>2, <1>7, <3>1, <4>1, <4>2 DEF HasActiveTicket
      <4> QED
        BY <3>1, <3>2, <4>3 DEF FreshRequest, MovingPC
    <3>3. CASE req[q].pc \in MovingPC
      <4>1. req[q].ticket # None /\ t # None
        BY <1>3, <3>1, <3>3, EngineAssumption DEF SoundRequest, MovingPC
      <4>2. req[q].ticket \in Tickets /\ req[q].ticket # t
        BY <1>1, <1>2, <2>2, <3>1, <3>3, <4>1 DEF Discipline, Holds, MovingPC, SoundRequest
      <4> QED
        BY <1>7, <3>1, <3>3, <4>2 DEF FreshRequest, MovingPC
    <3>4. CASE req[q].pc # "insert" /\ req[q].pc \notin MovingPC
      BY <3>1, <3>4 DEF FreshRequest
    <3> QED
      BY <3>2, <3>3, <3>4
  <2> QED
    BY <2>1, <2>2
<1> QED
  BY <1>3, <1>4, <1>5, <1>6, <1>9


LEMMA StepShape ==
  ASSUME DInv, [Next]_vars
  PROVE  \/ UNCHANGED <<status, owner, audit>> /\ \A q \in Requests : FreshRequest(q)'
         \/ \E r \in Requests : Writes(r)
<1>1. CASE UNCHANGED vars \/ SetOpen
  BY <1>1 DEF DInv, FreshRequest, HasActiveTicket, SetOpen, vars, dbVars
<1>2. ASSUME NEW r \in Requests, Quiet(r), FreshRequest(r)'
      PROVE  UNCHANGED <<status, owner, audit>> /\ \A q \in Requests : FreshRequest(q)'
  BY <1>2, QuietKeepsFresh DEF Quiet
<1>3. ASSUME NEW r \in Requests, Begin(r)
      PROVE  Quiet(r) /\ FreshRequest(r)'
  BY <1>3, QuietBegin DEF DInv
<1>4. ASSUME NEW r \in Requests, Continue(r), ~Writes(r)
      PROVE  Quiet(r) /\ FreshRequest(r)'
  BY <1>4, QuietContinue
<1>5. ASSUME NEW r \in Requests, Fail(r)
      PROVE  Quiet(r) /\ FreshRequest(r)'
  BY <1>5, QuietFinish DEF DInv, Fail
<1> QED
  BY <1>1, <1>2, <1>3, <1>4, <1>5 DEF Next

-----------------------------------------------------------------------------
(* The disciplined specification implements the lifecycle.                 *)

LEMMA DInvInit == Init => DInv
<1> SUFFICES ASSUME Init PROVE DInv
  OBVIOUS
<1>1. IInv
  BY InitInvariant
<1>2. Discipline /\ \A r \in Requests : FreshRequest(r)
  BY DEF Init, Idle, Discipline, Holds, Creating, FreshRequest, MovingPC
<1> QED
  BY <1>1, <1>2 DEF DInv

LEMMA DInvNext == DInv /\ [DisciplinedNext]_vars => DInv'
<1> SUFFICES ASSUME DInv, [DisciplinedNext]_vars PROVE DInv'
  OBVIOUS
<1>1. [Next]_vars
  BY DEF DisciplinedNext
<1>2. IInv'
  BY <1>1, NextInvariant DEF DInv
<1>3. Discipline'
  BY DEF DisciplinedNext, DInv, Discipline, Holds, Creating, vars
<1>4. \A q \in Requests : FreshRequest(q)'
  BY <1>1, StepShape, InsertTakes, CommitMoves DEF Writes
<1> QED
  BY <1>2, <1>3, <1>4 DEF DInv

LEMMA LifecycleInit == Init => Lifecycle!Init
BY SameVocabulary DEF Init, Lifecycle!Init

LEMMA LifecycleStep ==
  DInv /\ [Next]_vars => [Lifecycle!Next]_Lifecycle!vars
<1> SUFFICES ASSUME DInv, [Next]_vars PROVE [Lifecycle!Next]_Lifecycle!vars
  OBVIOUS
<1>1. CASE UNCHANGED <<status, owner, audit>>
  BY <1>1 DEF Lifecycle!vars
<1>2. ASSUME NEW r \in Requests, InsertTicket(r)
      PROVE  Lifecycle!Next
  BY <1>2, InsertTakes DEF Lifecycle!Next
<1>3. ASSUME NEW r \in Requests, CommitMove(r)
      PROVE  Lifecycle!Next
  BY <1>3, CommitMoves, SameVocabulary DEF Lifecycle!Next
<1> QED
  BY <1>1, <1>2, <1>3, StepShape DEF Writes

\* With requests that do not overlap, the engine implements the lifecycle: it
\* gives a ticket only to a user with no active one, and moves tickets only
\* along ALLOWED_TRANSITIONS.
THEOREM EngineImplementsLifecycle == DisciplinedSpec => ImplementsLifecycle
<1>1. Init => DInv /\ Lifecycle!Init
  BY DInvInit, LifecycleInit
<1>2. DInv /\ [DisciplinedNext]_vars => DInv' /\ [Lifecycle!Next]_Lifecycle!vars
  <2>1. [DisciplinedNext]_vars => [Next]_vars
    BY DEF DisciplinedNext
  <2> QED
    BY <2>1, DInvNext, LifecycleStep
<1> QED
  BY <1>1, <1>2, PTL DEF DisciplinedSpec, ImplementsLifecycle, Lifecycle!Spec

\* No step of the disciplined engine commits a transition that ALLOWED_TRANSITIONS
\* does not list for the status the row really has.
THEOREM OnlyAllowedTransitionsAlways == DisciplinedSpec => OnlyAllowedTransitions
<1> DEFINE Allowed == \A t \in Tickets : status'[t] # status[t] =>
                        \/ status[t] = UNBORN /\ status'[t] = "WAITING"
                        \/ MayMove(status[t], status'[t])
<1>1. ASSUME DInv, [Next]_vars
      PROVE  Allowed \/ UNCHANGED vars
  <2>0. status \in [Tickets -> TicketStatus \cup {UNBORN}]
    BY <1>1 DEF DInv, IInv, TypeOK
  <2>1. CASE UNCHANGED <<status, owner, audit>>
    BY <2>1
  <2>2. ASSUME NEW r \in Requests, InsertTicket(r)
        PROVE  Allowed
    BY <1>1, <2>0, <2>2, InsertTakes, SameVocabulary DEF Lifecycle!Take
  <2>3. ASSUME NEW r \in Requests, CommitMove(r)
        PROVE  Allowed
    BY <1>1, <2>0, <2>3, CommitMoves, SameVocabulary
    DEF Lifecycle!Move, Lifecycle!MayMove, MayMove
  <2> QED
    BY <1>1, <2>1, <2>2, <2>3, StepShape DEF Writes
<1>2. DInv /\ [DisciplinedNext]_vars => DInv' /\ [Allowed]_vars
  <2>1. [DisciplinedNext]_vars => [Next]_vars
    BY DEF DisciplinedNext
  <2> QED
    BY <1>1, <2>1, DInvNext
<1> QED
  BY <1>2, DInvInit, PTL DEF DisciplinedSpec, OnlyAllowedTransitions


-----------------------------------------------------------------------------
(* Invariants of the disciplined specification.                            *)

LEMMA OneActiveStep ==
  ASSUME DInv, OneActivePerUser, [Next]_vars
  PROVE  OneActivePerUser'
<1>0. status \in [Tickets -> TicketStatus \cup {UNBORN}] /\ owner \in [Tickets -> Users \cup {None}]
  BY DEF DInv, IInv, TypeOK
<1>1. CASE UNCHANGED <<status, owner, audit>>
  BY <1>1 DEF OneActivePerUser, Lifecycle!OneActivePerUser
<1>2. ASSUME NEW r \in Requests, InsertTicket(r)
      PROVE  OneActivePerUser'
  <2> DEFINE t == req[r].ticket
             u == req[r].user
  <2>1. t \in Tickets /\ u \in Users /\ Lifecycle!Take(t, u)
    BY <1>2, InsertTakes
  <2>2. /\ owner'[t] = u
        /\ \A v \in Tickets \ {t} : status'[v] = status[v] /\ owner'[v] = owner[v]
    BY <1>0, <2>1 DEF Lifecycle!Take
  <2>3. \A v \in Tickets : owner[v] = u => status[v] \notin Lifecycle!ACTIVE_STATUSES
    BY <2>1 DEF Lifecycle!Take, Lifecycle!HasActive
  <2> QED
    BY <2>2, <2>3 DEF OneActivePerUser, Lifecycle!OneActivePerUser
<1>3. ASSUME NEW r \in Requests, CommitMove(r)
      PROVE  OneActivePerUser'
  <2> DEFINE t == req[r].ticket
             to == req[r].to
  <2>1. t \in Tickets /\ Lifecycle!Move(t, to)
    BY <1>3, CommitMoves
  <2>2. /\ owner' = owner /\ status'[t] = to
        /\ \A v \in Tickets \ {t} : status'[v] = status[v]
    BY <1>0, <2>1 DEF Lifecycle!Move
  <2>3. to \in ACTIVE_STATUSES => status[t] \in ACTIVE_STATUSES
    BY <2>1, MayMoveActive, SameVocabulary DEF Lifecycle!Move, Lifecycle!MayMove, MayMove
  <2> QED
    BY <2>2, <2>3, SameVocabulary DEF OneActivePerUser, Lifecycle!OneActivePerUser
<1> QED
  BY <1>1, <1>2, <1>3, StepShape DEF Writes

\* DECISION 1 holds in every state when no user's creations overlap: no user ever
\* has two active tickets.
THEOREM OneActivePerUserAlways == DisciplinedSpec => []OneActivePerUser
<1>1. Init => DInv /\ OneActivePerUser
  <2>1. Init => OneActivePerUser
    BY DEF Init, OneActivePerUser, Lifecycle!OneActivePerUser
  <2> QED
    BY <2>1, DInvInit
<1>2. DInv /\ OneActivePerUser /\ [DisciplinedNext]_vars => DInv' /\ OneActivePerUser'
  <2>1. [DisciplinedNext]_vars => [Next]_vars
    BY DEF DisciplinedNext
  <2> QED
    BY <2>1, DInvNext, OneActiveStep
<1> QED
  BY <1>1, <1>2, PTL DEF DisciplinedSpec

LEMMA AuditChainStep ==
  ASSUME DInv, AuditChain, [Next]_vars
  PROVE  AuditChain'
<1>0. audit \in [Tickets -> Seq([from : TicketStatus, to : TicketStatus])]
  BY DEF DInv, IInv, TypeOK
<1>1. CASE audit' = audit
  BY <1>1 DEF AuditChain
<1>2. ASSUME NEW r \in Requests, CommitMove(r)
      PROVE  AuditChain'
  <2> DEFINE t == req[r].ticket
             row == [from |-> req[r].from, to |-> req[r].to]
  <2>1. t \in Tickets /\ status[t] = req[r].from /\ req[r].from \in TicketStatus
        /\ req[r].to \in TicketStatus
    <3>1. t \in Tickets /\ status[t] = req[r].from /\ req[r].to \in TicketStatus
      BY <1>2, CommitMoves
    <3>2. SoundRequest(r) /\ req[r].pc = "commit"
      BY <1>2 DEF DInv, IInv, RequestSound, CommitMove
    <3> QED
      BY <3>1, <3>2, MayMoveStatus DEF SoundRequest, MovingPC
  <2>2. /\ audit'[t] = Append(audit[t], row)
        /\ \A v \in Tickets \ {t} : audit'[v] = audit[v]
    BY <1>0, <1>2, <2>1 DEF CommitMove
  <2>3. /\ audit[t] = <<>> => row.from = "WAITING"
        /\ audit[t] # <<>> => row.from = audit[t][Len(audit[t])].to
    BY <2>1, UnbornIsNoStatus DEF DInv, IInv, AuditTruthful
  <2>4. /\ DOMAIN audit'[t] = 1 .. Len(audit[t]) + 1
        /\ DOMAIN audit[t] = 1 .. Len(audit[t])
        /\ Len(audit[t]) \in Nat
        /\ audit[t] = <<>> <=> Len(audit[t]) = 0
        /\ audit'[t][Len(audit[t]) + 1] = row
        /\ \A i \in 1 .. Len(audit[t]) : audit'[t][i] = audit[t][i]
    <3>1. /\ audit[t] \in Seq([from : TicketStatus, to : TicketStatus])
          /\ row \in [from : TicketStatus, to : TicketStatus]
      BY <1>0, <2>1
    <3> HIDE DEF t, row
    <3> QED
      BY <2>2, <3>1, AppendEffect
  <2>5. ASSUME NEW i \in DOMAIN audit'[t]
        PROVE  audit'[t][i].from = IF i = 1 THEN "WAITING" ELSE audit'[t][i - 1].to
    <3>1. CASE i \in 1 .. Len(audit[t])
      <4>1. audit[t][i].from = IF i = 1 THEN "WAITING" ELSE audit[t][i - 1].to
        BY <2>1, <2>4, <3>1 DEF AuditChain
      <4>2. i # 1 => i - 1 \in 1 .. Len(audit[t])
        BY <2>4, <3>1
      <4> QED
        BY <2>4, <3>1, <4>1, <4>2
    <3>2. CASE i = Len(audit[t]) + 1
      <4>1. CASE Len(audit[t]) = 0
        BY <2>3, <2>4, <3>2, <4>1
      <4>2. CASE Len(audit[t]) # 0
        <5>1. i - 1 = Len(audit[t]) /\ i # 1 /\ i - 1 \in 1 .. Len(audit[t])
          BY <2>4, <3>2, <4>2
        <5>2. audit'[t][i].from = audit[t][Len(audit[t])].to
          BY <2>3, <2>4, <3>2, <4>2
        <5> QED
          BY <2>4, <5>1, <5>2
      <4> QED
        BY <4>1, <4>2
    <3> QED
      BY <2>4, <3>1, <3>2
  <2>6. ASSUME NEW v \in Tickets \ {t}
        PROVE  \A i \in DOMAIN audit'[v] :
                 audit'[v][i].from = IF i = 1 THEN "WAITING" ELSE audit'[v][i - 1].to
    BY <2>2 DEF AuditChain
  <2> HIDE DEF t
  <2> QED
    BY <2>5, <2>6 DEF AuditChain
<1> QED
  BY <1>1, <1>2, StepShape, InsertTakes DEF Writes

\* The rows of queue_logs for a ticket form a chain from WAITING: each starts at
\* the status the previous one ended at.
THEOREM AuditChainAlways == DisciplinedSpec => []AuditChain
<1>1. Init => DInv /\ AuditChain
  <2>1. Init => AuditChain
    BY DEF Init, AuditChain
  <2> QED
    BY <2>1, DInvInit
<1>2. DInv /\ AuditChain /\ [DisciplinedNext]_vars => DInv' /\ AuditChain'
  <2>1. [DisciplinedNext]_vars => [Next]_vars
    BY DEF DisciplinedNext
  <2> QED
    BY <2>1, DInvNext, AuditChainStep
<1> QED
  BY <1>1, <1>2, PTL DEF DisciplinedSpec

-----------------------------------------------------------------------------
(* The queue and the rows.  A request that works on a ticket leaves its    *)
(* row and its queue apart between two awaits; InPlace says how far apart, *)
(* at each await, so that they agree again when the request ends.          *)

InPlace(r) ==
  LET t == req[r].ticket  to == req[r].to IN
  /\ req[r].pc = "idle" => t = None
  /\ req[r].pc \in {"logCreated", "enqueue"} => status[t] = "WAITING" /\ ~InQueue(t)
  /\ req[r].pc = "load" => t \in queue[req[r].service] /\ (crashes = 0 => status[t] = "WAITING")
  /\ req[r].pc = "dequeue" => to \in {"CALLED", "CANCELLED"}
  /\ req[r].pc = "dequeue" /\ to = "CALLED" => t \in queue[req[r].service]
  /\ req[r].pc = "requeue" => to = "WAITING"
  /\ req[r].pc = "commit" => (to = "WAITING" <=> InQueue(t))

PlaceInv ==
  /\ DInv
  /\ NoServedTicketInQueue /\ WaitingIsQueuedUnlessCrash
  /\ \A r \in Requests : InPlace(r)

Step(r) == Begin(r) \/ Continue(r) \/ Fail(r)

\* From which status each transition starts.
LEMMA MovesFrom ==
  ASSUME NEW from, NEW to, MayMove(from, to)
  PROVE  /\ to \in {"CALLED", "CANCELLED"} => from = "WAITING"
         /\ to = "WAITING" => from = "ABSENT"
         /\ to \in {"SERVING", "DONE", "ABSENT"} => from \in {"CALLED", "SERVING"}
BY DEF MayMove, ALLOWED_TRANSITIONS, TicketStatus

LEMMA OtherRequests ==
  ASSUME IInv, NEW r \in Requests, Step(r)
  PROVE  \A q \in Requests \ {r} : req'[q] = req[q]
<1>1. req \in [Requests -> Request]
  BY DEF IInv, TypeOK
<1>2. CASE Begin(r)
  <2>1. \E record : Start(r, record)
    BY <1>2 DEF Begin, create_ticket, call_next, cancel_ticket, start_serving,
                complete_ticket, mark_absent, AgentMove, return_to_queue
  <2> QED
    BY <1>1, <2>1 DEF Start
<1>3. CASE Continue(r) \/ Fail(r)
  BY <1>1, <1>3
     DEF Continue, CheckActive, InsertTicket, LogCreated, EnqueueCreated, LoadHead, Dequeue,
         Requeue, CommitMove, Tell, Fail, GoTo, Finish
<1> QED
  BY <1>2, <1>3 DEF Step

\* The steps that write to the row or the queue of a ticket.
Stores(r) ==
  InsertTicket(r) \/ EnqueueCreated(r) \/ Dequeue(r) \/ Requeue(r) \/ CommitMove(r)

LEMMA StoresAlone ==
  ASSUME NEW r \in Requests, Step(r), ~Stores(r)
  PROVE  UNCHANGED <<status, queue, entry, now>>
<1>1. CASE Begin(r)
  BY <1>1 DEF Begin, create_ticket, call_next, cancel_ticket, start_serving,
              complete_ticket, mark_absent, AgentMove, return_to_queue, dbVars, queueVars
<1>2. CASE Continue(r)
  BY <1>2 DEF Stores, Continue, CheckActive, LogCreated, LoadHead, Tell, dbVars, queueVars
<1>3. CASE Fail(r)
  BY <1>3 DEF Fail, dbVars, queueVars
<1> QED
  BY <1>1, <1>2, <1>3 DEF Step

\* A step of a request leaves the tickets alone that it does not work on.
LEMMA OtherTickets ==
  ASSUME IInv, NEW r \in Requests, Step(r), NEW v \in Tickets, v # req[r].ticket
  PROVE  /\ status'[v] = status[v] /\ entry'[v] = entry[v]
         /\ \A s \in Services : v \in queue'[s] <=> v \in queue[s]
<1>1. /\ status \in [Tickets -> TicketStatus \cup {UNBORN}]
      /\ entry \in [Tickets -> [priority : TicketPriority, at : Nat]]
      /\ queue \in [Services -> SUBSET Tickets]
  BY DEF IInv, TypeOK
<1>2. CASE InsertTicket(r) \/ CommitMove(r)
  BY <1>1, <1>2 DEF InsertTicket, CommitMove, queueVars
<1>3. CASE EnqueueCreated(r) \/ Requeue(r)
  BY <1>1, <1>3 DEF EnqueueCreated, Requeue, AddToQueue, dbVars
<1>4. CASE Dequeue(r)
  BY <1>1, <1>4 DEF Dequeue, RemoveFromQueue, dbVars
<1>5. CASE ~Stores(r)
  BY <1>5, StoresAlone
<1> QED
  BY <1>2, <1>3, <1>4, <1>5 DEF Stores

LEMMA CrashesCount ==
  ASSUME IInv, NEW r \in Requests, Step(r), crashes' = 0
  PROVE  crashes = 0 /\ ~Fail(r)
<1>1. crashes \in Nat
  BY DEF IInv, TypeOK
<1>2. ~Fail(r)
  BY <1>1 DEF Fail
<1>3. CASE Begin(r)
  BY <1>2, <1>3 DEF Begin, create_ticket, call_next, cancel_ticket, start_serving,
                    complete_ticket, mark_absent, AgentMove, return_to_queue
<1>4. CASE Continue(r)
  BY <1>2, <1>4 DEF Continue, CheckActive, InsertTicket, LogCreated, EnqueueCreated, LoadHead,
                    Dequeue, Requeue, CommitMove, Tell
<1> QED
  BY <1>2, <1>3, <1>4 DEF Step

\* What another request has of its ticket stays so: they work on different ones.
LEMMA OthersInPlace ==
  ASSUME PlaceInv, NEW r \in Requests, Step(r), NEW q \in Requests \ {r}
  PROVE  InPlace(q)'
<1> DEFINE t == req[q].ticket
<1>1. /\ IInv /\ Discipline /\ SoundRequest(q) /\ InPlace(q)
      /\ req \in [Requests -> Request]
  BY DEF PlaceInv, DInv, IInv, TypeOK, RequestSound
<1>2. req'[q] = req[q]
  BY <1>1, OtherRequests
<1>3. CASE req[q].pc \in {"idle", "checkActive", "insert", "tell"}
  BY <1>1, <1>2, <1>3 DEF InPlace
<1>4. CASE req[q].pc \in {"logCreated", "enqueue", "load", "dequeue", "requeue", "commit"}
  <2>1. t \in Tickets /\ req[q].service \in Services /\ Holds(q) = t /\ t # None
    BY <1>1, <1>4, EngineAssumption DEF SoundRequest, Holds
  <2>2. /\ status'[t] = status[t]
        /\ \A s \in Services : t \in queue'[s] <=> t \in queue[s]
    <3>1. CASE req[r].ticket # t
      BY <1>1, <2>1, <3>1, OtherTickets
    <3>2. CASE req[r].ticket = t
      <4>1. req[r].pc = "tell"
        BY <1>1, <2>1, <3>2 DEF Discipline, Holds
      <4>2. ~Stores(r)
        BY <4>1 DEF Stores, InsertTicket, EnqueueCreated, Dequeue, Requeue, CommitMove
      <4> QED
        BY <4>2, StoresAlone
    <3> QED
      BY <3>1, <3>2
  <2>3. InQueue(t) <=> \E s \in Services : t \in queue'[s]
    BY <2>2 DEF InQueue
  <2>4. crashes' = 0 => crashes = 0
    BY <1>1, CrashesCount
  <2> QED
    BY <1>1, <1>2, <2>1, <2>2, <2>3, <2>4 DEF InPlace, InQueue
<1>5. req[q].pc \in PC
  BY <1>1 DEF Request
<1> QED
  BY <1>3, <1>4, <1>5 DEF PC

\* The request that begins finds its ticket where its handler supposes it.
LEMMA BeginInPlace ==
  ASSUME PlaceInv, NEW r \in Requests, Begin(r), Discipline'
  PROVE  InPlace(r)'
<1>1. /\ IInv /\ req \in [Requests -> Request]
      /\ status \in [Tickets -> TicketStatus \cup {UNBORN}]
      /\ queue \in [Services -> SUBSET Tickets]
  BY DEF PlaceInv, DInv, IInv, TypeOK
<1>2. \A q \in Requests \ {r} : req'[q] = req[q]
  BY <1>1, OtherRequests DEF Step
<1>3. UNCHANGED <<status, queue, crashes>>
  BY DEF Begin, create_ticket, call_next, cancel_ticket, start_serving, complete_ticket,
         mark_absent, AgentMove, return_to_queue, dbVars, queueVars
<1>4. ASSUME NEW u \in Users, NEW s \in Services, NEW p \in Priorities, create_ticket(r, u, s, p)
      PROVE  InPlace(r)'
  <2>1. req'[r].pc = "checkActive"
    BY <1>1, <1>4 DEF create_ticket, Start, Idle
  <2> QED
    BY <2>1 DEF InPlace
<1>5. ASSUME NEW s \in Services, call_next(r, s)
      PROVE  InPlace(r)'
  <2>1. PICK t \in Heads(s) : Start(r, [Idle EXCEPT !.pc = "load", !.service = s, !.ticket = t])
    BY <1>5 DEF call_next
  <2>2. t \in Tickets /\ t \in queue[s]
    BY <1>1 DEF Heads
  <2>3. req'[r].pc = "load" /\ req'[r].service = s /\ req'[r].ticket = t
    BY <1>1, <2>1 DEF Start, Idle
  <2>4. req[r].pc = "idle"
    BY <2>1 DEF Start, Free
  <2>5. ~Busy(t)
    <3>1. t # None
      BY <2>2, EngineAssumption
    <3>2. Holds(r) # t
      BY <2>4, <3>1 DEF PlaceInv, InPlace, Holds
    <3>3. ASSUME NEW q \in Requests \ {r}, Holds(q) = t PROVE FALSE
      <4>1. req'[q] = req[q]
        BY <1>2
      <4>2. Holds(q)' = t /\ Holds(r)' = t
        BY <2>3, <3>3, <4>1 DEF Holds
      <4> QED
        BY <3>1, <4>2 DEF Discipline
    <3> QED
      BY <3>2, <3>3 DEF Busy
  <2>6. crashes = 0 => status[t] = "WAITING"
    BY <2>2, <2>5 DEF PlaceInv, WaitingIsQueuedUnlessCrash, WaitingIsQueued, InQueue
  <2> QED
    BY <1>3, <2>2, <2>3, <2>6 DEF InPlace
<1>6. ASSUME NEW t \in Tickets, NEW u \in Users, cancel_ticket(r, u, t)
      PROVE  InPlace(r)'
  <2>1. req'[r].pc = "dequeue" /\ req'[r].to = "CANCELLED"
    BY <1>1, <1>6 DEF cancel_ticket, Start, Transition, Idle
  <2> QED
    BY <2>1 DEF InPlace
<1>7. ASSUME NEW t \in Tickets, NEW to \in {"SERVING", "DONE", "ABSENT"}, AgentMove(r, t, to)
      PROVE  InPlace(r)'
  <2>1. req'[r].pc = "commit" /\ req'[r].to = to /\ req'[r].ticket = t
    BY <1>1, <1>7 DEF AgentMove, Start, Transition, Idle
  <2>2. status[t] \in {"CALLED", "SERVING"}
    BY <1>7, MovesFrom DEF AgentMove
  <2>3. ~InQueue(t)
    BY <2>2 DEF PlaceInv, NoServedTicketInQueue
  <2> QED
    BY <1>3, <2>1, <2>3 DEF InPlace, InQueue
<1>8. ASSUME NEW t \in Tickets, return_to_queue(r, t)
      PROVE  InPlace(r)'
  <2>1. req'[r].pc = "requeue" /\ req'[r].to = "WAITING"
    BY <1>1, <1>8 DEF return_to_queue, Start, Transition, Idle
  <2> QED
    BY <2>1 DEF InPlace
<1> QED
  BY <1>4, <1>5, <1>6, <1>7, <1>8 DEF Begin, start_serving, complete_ticket, mark_absent

\* A ticket that does not exist yet is in no queue.
LEMMA UnbornNotQueued ==
  ASSUME IInv, NEW t \in Tickets, status[t] = UNBORN
  PROVE  ~InQueue(t)
BY DEF IInv, QueueSound, InQueue

LEMMA ContinueInPlace ==
  ASSUME PlaceInv, NEW r \in Requests, Continue(r) \/ Fail(r)
  PROVE  InPlace(r)'
<1> DEFINE t == req[r].ticket
<1>1. /\ IInv /\ SoundRequest(r) /\ InPlace(r)
      /\ req \in [Requests -> Request]
      /\ status \in [Tickets -> TicketStatus \cup {UNBORN}]
      /\ queue \in [Services -> SUBSET Tickets]
  BY DEF PlaceInv, DInv, IInv, TypeOK, RequestSound
<1>2. CASE Finish(r)
  BY <1>1, <1>2, FinishEffect DEF Idle, InPlace
<1>3. ASSUME NEW pc \in PC, GoTo(r, pc)
      PROVE  /\ req'[r].pc = pc /\ req'[r].ticket = t
             /\ req'[r].service = req[r].service /\ req'[r].to = req[r].to
  BY <1>1, <1>3, GoToEffect
<1>4. {"insert", "logCreated", "enqueue", "commit", "tell"} \subseteq PC
  BY DEF PC
<1>5. CASE CheckActive(r) /\ ~Finish(r)
  BY <1>3, <1>4, <1>5 DEF CheckActive, InPlace
<1>6. CASE InsertTicket(r)
  <2>1. t \in Tickets /\ status[t] = UNBORN
    BY <1>1, <1>6 DEF InsertTicket, SoundRequest, NewTicketPC
  <2>2. status'[t] = "WAITING" /\ queue' = queue
    BY <1>1, <1>6, <2>1 DEF InsertTicket, queueVars
  <2>3. ~InQueue(t)
    BY <1>1, <2>1, UnbornNotQueued
  <2>4. req'[r].pc = "logCreated" /\ req'[r].ticket = t
    BY <1>3, <1>4, <1>6 DEF InsertTicket
  <2> QED
    BY <2>2, <2>3, <2>4 DEF InPlace, InQueue
<1>7. CASE LogCreated(r)
  <2>1. req'[r].pc = "enqueue" /\ req'[r].ticket = t
    BY <1>3, <1>4, <1>7 DEF LogCreated
  <2> QED
    BY <1>1, <1>7, <2>1 DEF LogCreated, InPlace, InQueue, queueVars
<1>8. CASE LoadHead(r) /\ ~Finish(r)
  <2>1. req' = [req EXCEPT ![r] = [@ EXCEPT !.pc = "dequeue", !.from = status[t],
                                            !.to = "CALLED"]]
    BY <1>8 DEF LoadHead
  <2>2. req[r] \in Request
    BY <1>1
  <2>3. /\ req'[r].pc = "dequeue" /\ req'[r].to = "CALLED"
        /\ req'[r].ticket = t /\ req'[r].service = req[r].service
    BY <1>1, <2>1, <2>2 DEF Request
  <2>4. t \in queue'[req[r].service]
    BY <1>1, <1>8 DEF LoadHead, InPlace, queueVars
  <2> QED
    BY <2>3, <2>4 DEF InPlace
<1>9. CASE Dequeue(r)
  <2>1. /\ req'[r].pc = "commit" /\ req'[r].ticket = t /\ req'[r].to = req[r].to
    BY <1>3, <1>4, <1>9 DEF Dequeue
  <2>2. req[r].to # "WAITING"
    BY <1>1, <1>9 DEF InPlace, Dequeue
  <2>3. t \in Tickets /\ req[r].service \in Services /\ service[t] = req[r].service
    BY <1>1, <1>9 DEF Dequeue, SoundRequest, OldTicketPC, PC
  <2>4. \A s \in Services : t \notin queue'[s]
    BY <1>1, <1>9, <2>3 DEF Dequeue, RemoveFromQueue, IInv, QueueSound
  <2> QED
    BY <2>1, <2>2, <2>4 DEF InPlace, InQueue
<1>10. CASE Requeue(r)
  <2>1. /\ req'[r].pc = "commit" /\ req'[r].ticket = t /\ req'[r].to = req[r].to
    BY <1>3, <1>4, <1>10 DEF Requeue
  <2>2. req[r].to = "WAITING" /\ req[r].service \in Services
    BY <1>1, <1>10 DEF InPlace, Requeue, SoundRequest
  <2>3. t \in queue'[req[r].service]
    BY <1>1, <1>10, <2>2 DEF Requeue, AddToQueue
  <2> QED
    BY <2>1, <2>2, <2>3 DEF InPlace, InQueue
<1>11. CASE CommitMove(r) /\ ~Finish(r)
  BY <1>3, <1>4, <1>11 DEF CommitMove, InPlace
<1> QED
  BY <1>2, <1>5, <1>6, <1>7, <1>8, <1>9, <1>10, <1>11
     DEF Continue, Fail, EnqueueCreated, Tell

\* Only a waiting ticket, or one that is being brought back, enters the queue, and
\* a ticket leaves it before its row says that it was called or cancelled.
LEMMA NoServedStep ==
  ASSUME PlaceInv, NEW r \in Requests, Step(r)
  PROVE  NoServedTicketInQueue'
<1> DEFINE t == req[r].ticket
<1>1. /\ IInv /\ SoundRequest(r) /\ InPlace(r) /\ FreshRequest(r) /\ NoServedTicketInQueue
      /\ status \in [Tickets -> TicketStatus \cup {UNBORN}]
      /\ queue \in [Services -> SUBSET Tickets]
  BY DEF PlaceInv, DInv, IInv, TypeOK, RequestSound
<1> SUFFICES ASSUME NEW v \in Tickets, NEW s \in Services, v \in queue'[s]
             PROVE  status'[v] \in {"WAITING", "ABSENT"}
  BY DEF NoServedTicketInQueue, InQueue
<1>2. CASE v # t \/ ~Stores(r)
  <2>1. status'[v] = status[v] /\ v \in queue[s]
    BY <1>1, <1>2, OtherTickets, StoresAlone
  <2> QED
    BY <1>1, <2>1 DEF NoServedTicketInQueue, InQueue
<1>3. CASE v = t /\ InsertTicket(r)
  BY <1>1, <1>3 DEF InsertTicket
<1>4. CASE v = t /\ EnqueueCreated(r)
  BY <1>1, <1>4 DEF EnqueueCreated, dbVars, InPlace
<1>5. CASE v = t /\ Dequeue(r)
  <2>1. status' = status /\ v \in queue[s]
    BY <1>1, <1>5 DEF Dequeue, RemoveFromQueue, dbVars
  <2> QED
    BY <1>1, <2>1 DEF NoServedTicketInQueue, InQueue
<1>6. CASE v = t /\ Requeue(r)
  <2>1. status[t] = req[r].from /\ MayMove(req[r].from, "WAITING")
    BY <1>1, <1>6 DEF Requeue, FreshRequest, SoundRequest, InPlace, MovingPC
  <2> QED
    BY <1>6, <2>1, MovesFrom DEF Requeue, dbVars
<1>7. CASE v = t /\ CommitMove(r)
  <2>1. queue' = queue /\ status'[t] = req[r].to
    BY <1>1, <1>7 DEF CommitMove, queueVars
  <2> QED
    BY <1>1, <1>7, <2>1 DEF CommitMove, InPlace, InQueue
<1> QED
  BY <1>2, <1>3, <1>4, <1>5, <1>6, <1>7 DEF Stores

\* While nothing dies, a request puts row and queue in step before it lets go.
LEMMA WaitingStep ==
  ASSUME PlaceInv, NEW r \in Requests, Step(r)
  PROVE  WaitingIsQueuedUnlessCrash'
<1> DEFINE t == req[r].ticket
<1>1. /\ IInv /\ SoundRequest(r) /\ InPlace(r)
      /\ req \in [Requests -> Request]
      /\ status \in [Tickets -> TicketStatus \cup {UNBORN}]
      /\ queue \in [Services -> SUBSET Tickets]
  BY DEF PlaceInv, DInv, IInv, TypeOK, RequestSound
<1>2. \A q \in Requests \ {r} : req'[q] = req[q]
  BY <1>1, OtherRequests
<1> SUFFICES ASSUME crashes' = 0, NEW v \in Tickets, ~Busy(v)'
             PROVE  status'[v] = "WAITING" <=> \E s \in Services : v \in queue'[s]
  BY DEF WaitingIsQueuedUnlessCrash, WaitingIsQueued, InQueue
<1>3. crashes = 0 /\ ~Fail(r)
  BY <1>1, CrashesCount
<1>4. \A q \in Requests \ {r} : Holds(q) # v
  BY <1>2 DEF Busy, Holds
<1>5. Holds(r)' # v
  BY DEF Busy
<1>6. CASE Holds(r) # v /\ (v # t \/ ~Stores(r))
  <2>1. ~Busy(v)
    BY <1>4, <1>6 DEF Busy
  <2>2. status[v] = "WAITING" <=> \E s \in Services : v \in queue[s]
    BY <1>3, <2>1 DEF PlaceInv, WaitingIsQueuedUnlessCrash, WaitingIsQueued, InQueue
  <2> QED
    BY <1>1, <1>6, <2>2, OtherTickets, StoresAlone
<1>7. CASE v = t /\ Holds(r) # v
  <2>1. req[r].pc = "tell"
    BY <1>7 DEF Holds
  <2>2. ~Stores(r)
    BY <2>1 DEF Stores, InsertTicket, EnqueueCreated, Dequeue, Requeue, CommitMove
  <2> QED
    BY <1>6, <1>7, <2>2
<1>8. CASE Holds(r) = v
  <2>1. v = t /\ req[r].pc # "tell"
    BY <1>8, EngineAssumption DEF Holds
  <2>2. req[r].pc # "idle"
    BY <1>1, <2>1, EngineAssumption DEF InPlace
  <2>3. Continue(r) /\ ~Tell(r)
    BY <1>3, <2>1, <2>2
       DEF Step, Tell, Begin, create_ticket, call_next, cancel_ticket, start_serving,
           complete_ticket, mark_absent, AgentMove, return_to_queue, Start, Free
  <2>4. ASSUME NEW pc \in PC \ {"tell"}, GoTo(r, pc) PROVE FALSE
    <3>1. req'[r].pc = pc /\ req'[r].ticket = t
      BY <1>1, <2>4, GoToEffect
    <3> QED
      BY <1>5, <2>1, <3>1 DEF Holds
  <2>5. ~InsertTicket(r) /\ ~LogCreated(r) /\ ~Dequeue(r) /\ ~Requeue(r) /\ ~GoTo(r, "insert")
    BY <2>4 DEF InsertTicket, LogCreated, Dequeue, Requeue, PC
  <2>6. CASE CheckActive(r)
    <3>1. status[t] = UNBORN /\ UNCHANGED <<status, queue>>
      BY <1>1, <2>6 DEF CheckActive, SoundRequest, NewTicketPC, dbVars, queueVars
    <3>2. ~InQueue(t)
      BY <1>1, <2>1, <3>1, UnbornNotQueued
    <3> QED
      BY <2>1, <3>1, <3>2 DEF InQueue, UNBORN
  <2>7. CASE EnqueueCreated(r)
    <3>1. status'[t] = "WAITING" /\ req[r].service \in Services
      BY <1>1, <2>7 DEF EnqueueCreated, InPlace, SoundRequest, dbVars
    <3>2. t \in queue'[req[r].service]
      BY <1>1, <2>7, <3>1 DEF EnqueueCreated, AddToQueue
    <3> QED
      BY <2>1, <3>1, <3>2
  <2>8. CASE LoadHead(r)
    <3>1. status[t] = "WAITING"
      BY <1>1, <1>3, <2>8 DEF LoadHead, InPlace
    <3>2. MayMove(status[t], "CALLED")
      BY <3>1 DEF MayMove, TicketStatus, ALLOWED_TRANSITIONS
    <3>3. req' = [req EXCEPT ![r] = [@ EXCEPT !.pc = "dequeue", !.from = status[t],
                                              !.to = "CALLED"]]
      BY <2>8, <3>2 DEF LoadHead
    <3>4. req[r] \in Request
      BY <1>1
    <3>5. req'[r].pc = "dequeue" /\ req'[r].ticket = t
      BY <1>1, <3>3, <3>4 DEF Request
    <3> QED
      BY <1>5, <2>1, <3>5 DEF Holds
  <2>9. CASE CommitMove(r)
    <3>1. status'[t] = req[r].to /\ queue' = queue
      BY <1>1, <2>1, <2>9 DEF CommitMove, queueVars
    <3> QED
      BY <1>1, <2>1, <2>9, <3>1 DEF CommitMove, InPlace, InQueue
  <2> QED
    BY <2>3, <2>5, <2>6, <2>7, <2>8, <2>9 DEF Continue
<1> QED
  BY <1>6, <1>7, <1>8

LEMMA PlaceInit == Init => PlaceInv
<1> SUFFICES ASSUME Init PROVE PlaceInv
  OBVIOUS
<1>1. NoServedTicketInQueue /\ WaitingIsQueuedUnlessCrash
  BY DEF Init, NoServedTicketInQueue, WaitingIsQueuedUnlessCrash, WaitingIsQueued, InQueue, UNBORN
<1>2. \A r \in Requests : InPlace(r)
  BY DEF Init, Idle, InPlace
<1> QED
  BY <1>1, <1>2, DInvInit DEF PlaceInv

LEMMA PlaceNext == PlaceInv /\ [DisciplinedNext]_vars => PlaceInv'
<1> SUFFICES ASSUME PlaceInv, [DisciplinedNext]_vars PROVE PlaceInv'
  OBVIOUS
<1>1. DInv' /\ IInv
  BY DInvNext DEF PlaceInv, DInv
<1>2. CASE UNCHANGED vars \/ SetOpen
  <2>1. UNCHANGED <<status, queue, req, crashes>>
    BY <1>2 DEF vars, SetOpen, dbVars, queueVars
  <2>2. NoServedTicketInQueue' /\ WaitingIsQueuedUnlessCrash'
    BY <2>1 DEF PlaceInv, NoServedTicketInQueue, WaitingIsQueuedUnlessCrash, WaitingIsQueued,
                InQueue, Busy, Holds
  <2>3. \A r \in Requests : InPlace(r)'
    BY <2>1 DEF PlaceInv, InPlace, InQueue
  <2> QED
    BY <1>1, <2>2, <2>3 DEF PlaceInv
<1>3. ASSUME NEW r \in Requests, Step(r), Discipline'
      PROVE  PlaceInv'
  <2>1. InPlace(r)'
    BY <1>3, BeginInPlace, ContinueInPlace DEF Step
  <2>2. \A q \in Requests : InPlace(q)'
    BY <1>3, <2>1, OthersInPlace
  <2> QED
    BY <1>1, <1>3, <2>2, NoServedStep, WaitingStep DEF PlaceInv
<1> QED
  BY <1>2, <1>3 DEF DisciplinedNext, Next, Step

LEMMA PlaceInvariant == DisciplinedSpec => []PlaceInv
BY PlaceInit, PlaceNext, PTL DEF DisciplinedSpec

\* Whatever dies, no queue ever holds a ticket that was called, served, cancelled
\* or done: the row is committed after zrem, and before zadd only on creation.
THEOREM NoServedTicketInQueueAlways == DisciplinedSpec => []NoServedTicketInQueue
<1>1. PlaceInv => NoServedTicketInQueue
  BY DEF PlaceInv
<1> QED
  BY <1>1, PlaceInvariant, PTL

\* As long as no request has died, a ticket that no request works on is WAITING
\* exactly when it is in its queue: nobody who waits is forgotten by the agents.
THEOREM WaitingIsQueuedAlways == DisciplinedSpec => []WaitingIsQueuedUnlessCrash
<1>1. PlaceInv => WaitingIsQueuedUnlessCrash
  BY DEF PlaceInv
<1> QED
  BY <1>1, PlaceInvariant, PTL

-----------------------------------------------------------------------------
(* The order of service.  The clock of add_to_queue has passed whatever is *)
(* in the queue, so that who comes later outranks nobody.                  *)

ArrivalsPast == \A t \in Tickets : entry[t].at <= now

FifoInv == ArrivalsPast /\ NoOvertaking

FirstOf(t, s) == t \in queue[s] /\ \A u \in queue[s] : ~Outranks(u, t)

\* The member with the lowest score is one that nobody outranks.
LEMMA HeadIsNotOutranked ==
  ASSUME TypeOK, NEW s \in Services, NEW t \in Heads(s), NEW u \in queue[s]
  PROVE  ~Outranks(u, t)
<1>1. /\ t \in Tickets /\ u \in Tickets
      /\ entry[t].at \in Nat /\ entry[u].at \in Nat
      /\ entry[t].priority \in TicketPriority /\ entry[u].priority \in TicketPriority
      /\ Score(t) <= Score(u)
  BY DEF TypeOK, Heads
<1>2. ScoreUnit \in Nat \ {0}
  BY EngineAssumption
<1>3. \A p \in TicketPriority : PRIORITY_SCORES[p] \in {0, 3, 5, 9}
  BY DEF TicketPriority, PRIORITY_SCORES
<1> DEFINE pt == PRIORITY_SCORES[entry[t].priority]
           pu == PRIORITY_SCORES[entry[u].priority]
<1>4. pt \in {0, 3, 5, 9} /\ pu \in {0, 3, 5, 9}
  BY <1>1, <1>3
<1>5. (10 - pt) * ScoreUnit + entry[t].at <= (10 - pu) * ScoreUnit + entry[u].at
  BY <1>1 DEF Score
<1>6. SUFFICES ASSUME entry[u].at < entry[t].at, pu >= pt PROVE FALSE
  BY DEF Outranks
<1> HIDE DEF pt, pu
<1>7. (10 - pu) * ScoreUnit <= (10 - pt) * ScoreUnit
  <2>1. CASE pt = 0
    BY <1>2, <1>4, <2>1
  <2>2. CASE pt = 3
    BY <1>2, <1>4, <1>6, <2>2
  <2>3. CASE pt = 5
    BY <1>2, <1>4, <1>6, <2>3
  <2>4. CASE pt = 9
    BY <1>2, <1>4, <1>6, <2>4
  <2> QED
    BY <1>4, <2>1, <2>2, <2>3, <2>4
<1>8. (10 - pu) * ScoreUnit \in Nat /\ (10 - pt) * ScoreUnit \in Nat
  BY <1>2, <1>4
<1> DEFINE a == (10 - pt) * ScoreUnit
           b == (10 - pu) * ScoreUnit
<1>9. a \in Nat /\ b \in Nat /\ b <= a /\ a + entry[t].at <= b + entry[u].at
  BY <1>5, <1>7, <1>8
<1> HIDE DEF a, b
<1> QED
  BY <1>1, <1>6, <1>9

\* What a step makes of the queues: a member arrives, the latest of all, or members
\* go; the others keep what their score is computed from.
LEMMA QueueStepShape ==
  ASSUME IInv, ArrivalsPast, NEW r \in Requests, Step(r)
  PROVE  /\ ArrivalsPast'
         /\ \A s \in Services : \A u \in queue'[s] :
              \/ u \in queue[s] /\ entry'[u] = entry[u]
              \/ u = req[r].ticket /\ \A v \in Tickets : entry'[v].at <= entry'[u].at
<1> DEFINE t == req[r].ticket
<1>1. /\ entry \in [Tickets -> [priority : TicketPriority, at : Nat]]
      /\ queue \in [Services -> SUBSET Tickets] /\ now \in Nat
      /\ SoundRequest(r) /\ req \in [Requests -> Request]
  BY DEF IInv, TypeOK, RequestSound
<1>2. CASE UNCHANGED <<queue, entry, now>>
  BY <1>1, <1>2 DEF ArrivalsPast
<1>3. ASSUME NEW s \in Services, NEW p \in TicketPriority, t \in Tickets, AddToQueue(s, t, p)
      PROVE  /\ ArrivalsPast'
             /\ \A x \in Services : \A u \in queue'[x] :
                  \/ u \in queue[x] /\ entry'[u] = entry[u]
                  \/ u = t /\ \A v \in Tickets : entry'[v].at <= entry'[u].at
  <2>1. /\ now' = now + 1 /\ entry'[t].at = now + 1
        /\ \A v \in Tickets \ {t} : entry'[v] = entry[v]
        /\ \A x \in Services : \A u \in queue'[x] : u \in queue[x] \/ u = t
    BY <1>1, <1>3 DEF AddToQueue
  <2>2. \A v \in Tickets : entry[v].at \in Nat /\ entry[v].at <= now
    BY <1>1 DEF ArrivalsPast
  <2>3. \A v \in Tickets : entry'[v].at <= now + 1
    BY <1>1, <2>1, <2>2
  <2> QED
    BY <1>1, <1>3, <2>1, <2>3 DEF ArrivalsPast
<1>4. CASE EnqueueCreated(r) \/ Requeue(r)
  <2>1. t \in Tickets /\ req[r].service \in Services /\ req[r].priority \in TicketPriority
    BY <1>1, <1>4 DEF EnqueueCreated, Requeue, SoundRequest, Request
  <2>2. "STANDARD" \in TicketPriority
    BY DEF TicketPriority
  <2> QED
    BY <1>3, <1>4, <2>1, <2>2 DEF EnqueueCreated, Requeue
<1>5. CASE Dequeue(r)
  <2>1. /\ t \in Tickets /\ req[r].service \in Services
        /\ service[t] = req[r].service
    BY <1>1, <1>5 DEF Dequeue, SoundRequest, OldTicketPC, PC
  <2>2. /\ now' = now /\ entry'[t] = NoEntry
        /\ \A v \in Tickets \ {t} : entry'[v] = entry[v]
        /\ \A x \in Services : \A u \in queue'[x] : u \in queue[x] /\ u # t
    BY <1>1, <1>5, <2>1 DEF Dequeue, RemoveFromQueue, IInv, QueueSound
  <2> QED
    BY <1>1, <2>2 DEF ArrivalsPast, NoEntry
<1> QED
  BY <1>2, <1>4, <1>5, StoresAlone DEF Stores, InsertTicket, CommitMove, queueVars

LEMMA CallKept ==
  ASSUME PlaceInv, FifoInv, NEW r \in Requests, Step(r), NEW q \in Requests,
         Calling(q), req'[q].ticket = req[q].ticket, req'[q].service = req[q].service,
         q = r => UNCHANGED <<queue, entry>>
  PROVE  \A t, s : t = req'[q].ticket /\ s = req'[q].service => FirstOf(t, s)'
<1> DEFINE t == req[q].ticket
           s == req[q].service
<1>1. /\ IInv /\ Discipline /\ SoundRequest(q) /\ ArrivalsPast
      /\ entry \in [Tickets -> [priority : TicketPriority, at : Nat]]
      /\ entry' \in [Tickets -> [priority : TicketPriority, at : Nat]]
      /\ queue \in [Services -> SUBSET Tickets] /\ queue' \in [Services -> SUBSET Tickets]
  <2>1. IInv'
    BY NextInvariant DEF PlaceInv, DInv, Step, Next
  <2> QED
    BY <2>1 DEF PlaceInv, DInv, FifoInv, IInv, TypeOK, RequestSound
<1>2. t \in Tickets /\ s \in Services /\ Holds(q) = t /\ t # None
  BY <1>1, EngineAssumption DEF Calling, SoundRequest, Holds
<1>3. t \in queue[s] /\ \A u \in queue[s] : ~Outranks(u, t)
  BY DEF FifoInv, NoOvertaking
<1>4. entry'[t] = entry[t] /\ t \in queue'[s]
  <2>1. CASE q = r
    BY <1>3, <2>1
  <2>2. CASE q # r /\ req[r].ticket # t
    BY <1>1, <1>2, <1>3, <2>2, OtherTickets
  <2>3. CASE q # r /\ req[r].ticket = t
    <3>1. req[r].pc = "tell"
      BY <1>1, <1>2, <2>3 DEF Discipline, Holds
    <3>2. ~Stores(r)
      BY <3>1 DEF Stores, InsertTicket, EnqueueCreated, Dequeue, Requeue, CommitMove
    <3> QED
      BY <1>3, <3>2, StoresAlone
  <2> QED
    BY <2>1, <2>2, <2>3
<1>5. ASSUME NEW u \in queue'[s]
      PROVE  ~ /\ entry'[u].at < entry'[t].at
               /\ PRIORITY_SCORES[entry'[u].priority] >= PRIORITY_SCORES[entry'[t].priority]
  <2>1. u \in Tickets /\ entry'[u].at \in Nat /\ entry'[t].at \in Nat
    BY <1>1, <1>2
  <2>2. CASE u \in queue[s] /\ entry'[u] = entry[u]
    BY <1>3, <1>4, <2>2 DEF Outranks
  <2>3. CASE entry'[t].at <= entry'[u].at
    BY <2>1, <2>3
  <2> QED
    BY <1>1, <1>2, <2>2, <2>3, QueueStepShape
<1> QED
  BY <1>4, <1>5 DEF FirstOf, Outranks

LEMMA FifoStep ==
  ASSUME PlaceInv, FifoInv, NEW r \in Requests, Step(r)
  PROVE  FifoInv'
<1>1. /\ IInv /\ TypeOK /\ req \in [Requests -> Request] /\ ArrivalsPast
  BY DEF PlaceInv, DInv, FifoInv, IInv, TypeOK
<1>2. ArrivalsPast'
  BY <1>1, QueueStepShape
<1>3. ASSUME NEW q \in Requests \ {r}, Calling(q)'
      PROVE  \A t, s : t = req'[q].ticket /\ s = req'[q].service => FirstOf(t, s)'
  <2>1. req'[q] = req[q]
    BY <1>1, OtherRequests
  <2> QED
    BY <1>3, <2>1, CallKept DEF Calling
<1>4. ASSUME Calling(r)'
      PROVE  \A t, s : t = req'[r].ticket /\ s = req'[r].service => FirstOf(t, s)'
  <2>1. CASE \E s \in Services : call_next(r, s)
    <3>1. PICK s \in Services : call_next(r, s)
      BY <2>1
    <3>2. PICK t \in Heads(s) : Start(r, [Idle EXCEPT !.pc = "load", !.service = s, !.ticket = t])
      BY <3>1 DEF call_next
    <3>3. req'[r].service = s /\ req'[r].ticket = t /\ UNCHANGED <<queue, entry>>
      BY <1>1, <3>1, <3>2 DEF call_next, Start, Idle, queueVars
    <3>4. t \in queue[s] /\ \A u \in queue[s] : ~Outranks(u, t)
      BY <1>1, HeadIsNotOutranked DEF Heads
    <3> QED
      BY <3>3, <3>4 DEF FirstOf, Outranks
  <2>2. CASE LoadHead(r)
    <3>1. ~Finish(r)
      BY <1>1, <1>4, FinishEffect DEF Calling, Idle
    <3>2. req[r] \in Request
      BY <1>1
    <3>3. req'[r].ticket = req[r].ticket /\ req'[r].service = req[r].service
      BY <1>1, <2>2, <3>1, <3>2 DEF LoadHead, Request
    <3>4. Calling(r) /\ UNCHANGED <<queue, entry>>
      BY <2>2 DEF LoadHead, Calling, queueVars
    <3> QED
      BY <3>3, <3>4, CallKept
  <2>3. CASE Begin(r) /\ ~ \E s \in Services : call_next(r, s)
    <3>1. ASSUME NEW t \in Tickets, NEW to, AgentMove(r, t, to) \/ return_to_queue(r, t)
          PROVE  req'[r].pc \in {"commit", "requeue"}
      BY <1>1, <3>1 DEF AgentMove, return_to_queue, Start, Transition, Idle
    <3>2. ASSUME NEW t \in Tickets, NEW u \in Users, cancel_ticket(r, u, t)
          PROVE  req'[r].pc = "dequeue" /\ req'[r].to = "CANCELLED"
      BY <1>1, <3>2 DEF cancel_ticket, Start, Transition, Idle
    <3>3. ASSUME NEW u \in Users, NEW s \in Services, NEW p \in Priorities,
                 create_ticket(r, u, s, p)
          PROVE  req'[r].pc = "checkActive"
      BY <1>1, <3>3 DEF create_ticket, Start, Idle
    <3> QED
      BY <1>4, <2>3, <3>1, <3>2, <3>3
         DEF Calling, Begin, start_serving, complete_ticket, mark_absent
  <2>4. CASE (Continue(r) \/ Fail(r)) /\ ~LoadHead(r)
    <3>1. Finish(r) \/ \E pc \in {"insert", "logCreated", "enqueue", "commit", "tell"} : GoTo(r, pc)
      BY <2>4 DEF Continue, CheckActive, InsertTicket, LogCreated, EnqueueCreated, Dequeue,
                  Requeue, CommitMove, Tell, Fail
    <3>2. req'[r].pc \in {"idle", "insert", "logCreated", "enqueue", "commit", "tell"}
      BY <1>1, <3>1, FinishEffect, GoToEffect DEF Idle, PC
    <3> QED
      BY <1>4, <3>2 DEF Calling
  <2> QED
    BY <2>1, <2>2, <2>3, <2>4 DEF Step
<1>5. NoOvertaking'
  BY <1>3, <1>4 DEF NoOvertaking, FirstOf, Outranks
<1> QED
  BY <1>2, <1>5 DEF FifoInv

\* Between the await that reads the head of a queue and the one that removes it,
\* nobody of the same or a higher priority who came earlier is in the queue.
THEOREM NoOvertakingAlways == DisciplinedSpec => []NoOvertaking
<1>1. Init => FifoInv
  BY DEF Init, Idle, NoEntry, FifoInv, ArrivalsPast, NoOvertaking, Calling
<1>2. PlaceInv /\ FifoInv /\ [DisciplinedNext]_vars => FifoInv'
  <2>1. CASE UNCHANGED vars \/ SetOpen
    BY <2>1 DEF vars, SetOpen, queueVars, FifoInv, ArrivalsPast, NoOvertaking, Calling, Outranks
  <2> QED
    BY <2>1, FifoStep DEF DisciplinedNext, Next, Step
<1>3. FifoInv => NoOvertaking
  BY DEF FifoInv
<1> QED
  BY <1>1, <1>2, <1>3, PlaceInvariant, PTL DEF DisciplinedSpec

=============================================================================
